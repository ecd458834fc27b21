-------------------------- MODULE IncomingRequests --------------------------
(***************************************************************************)
(* What the handlers of incoming transfers share: PendingRequests,         *)
(* TRANSFER_PAUSE_FLAGS, ACTIVE_TRANSFERS and the output file.             *)
(*                                                                         *)
(* Every accepted connection runs handle_incoming_connection of alpn.rs    *)
(* ("quic") or handle_incoming of the desktop application ("tcp") as a     *)
(* task.  A QUIC handler works under the request id its sender chose, and  *)
(* a sender that lost its connection retries under the same id, so several *)
(* handlers of one request may be alive; a TCP handler makes an id of its  *)
(* own.  All of them receive a file of the same name.  What happens inside *)
(* one transfer is in QuicTransfer and LanTransfer.                        *)
(***************************************************************************)
EXTENDS Naturals, FiniteSets

CONSTANTS
  Handlers,     \* the tasks, one per accepted connection
  Requests,     \* the request ids of QUIC senders
  Commands,     \* the commands the user gives
  NoOne         \* no handler

\* The id a TCP handler makes up is written as the handler itself.
Ids == Requests \cup Handlers

ASSUME HandlersAssumption == IsFiniteSet(Handlers) /\ NoOne \notin Ids
ASSUME RequestsAssumption == Requests \cap Handlers = {}
ASSUME CommandsAssumption == Commands \subseteq {"cancel", "delete"}

VARIABLES
  pc,           \* where each handler is
  id,           \* its request id
  oneshot,      \* its answer channel: "open", "yes", "no", "dropped" or "deaf"
  got,          \* whose flag it holds in this round of its loop
  outcome,      \* how it ended
  pending,      \* PendingRequests: whose sender waits for the user, per request
  flag,         \* TRANSFER_PAUSE_FLAGS: who made the entry
  active,       \* ACTIVE_TRANSFERS: who made the entry
  cancelled,    \* the handlers whose flag is cancelled
  live,         \* the handler at the other end of the sender's connection
  over,         \* requests whose sender will not connect again
  exists,       \* the output file exists
  approvals,    \* how often the user's yes found an entry, per request
  command,      \* the command of the user that runs: at most one, on the main thread
\* What only the properties look at.
  unheard,      \* the handlers whose flag a command removed without signalling it
  met           \* the handlers that ran while another one of their request did

registries == <<pending, flag, active>>
user == <<command, unheard>>
vars == <<pc, id, oneshot, got, outcome, registries, cancelled, live, over, exists, approvals,
          user, met>>

NoCommand == [step |-> "none", id |-> NoOne]

Init ==
  /\ pc = [h \in Handlers |-> "idle"]
  /\ id = [h \in Handlers |-> NoOne]
  /\ oneshot = [h \in Handlers |-> "open"]
  /\ got = [h \in Handlers |-> NoOne]
  /\ outcome = [h \in Handlers |-> "none"]
  /\ pending = [r \in Ids |-> NoOne]
  /\ flag = [r \in Ids |-> NoOne]
  /\ active = [r \in Ids |-> NoOne]
  /\ cancelled = {} /\ over = {}
  /\ live = [r \in Ids |-> NoOne]
  /\ exists \in BOOLEAN
  /\ approvals = [r \in Ids |-> 0]
  /\ command = NoCommand
  /\ unheard = {} /\ met = {}

GoTo(h, place) == pc' = [pc EXCEPT ![h] = place]
Entry(registry, h, entry) == [registry EXCEPT ![id[h]] = entry]
Quic(h) == id[h] \in Requests
About(r) == {h \in Handlers : id[h] = r}
Running(h) == pc[h] \notin {"idle", "done"}

-----------------------------------------------------------------------------
(* The sender's side of the connections *)

Begin(h, r) ==
  /\ pc[h] = "idle"
  /\ id' = [id EXCEPT ![h] = r]
  /\ live' = [live EXCEPT ![r] = h]
  /\ GoTo(h, "register")
  /\ LET others == {g \in About(r) : Running(g)} IN
       met' = met \cup others \cup {g \in {h} : others # {}}
  /\ UNCHANGED <<oneshot, got, outcome, registries, cancelled, over, exists, approvals, user>>

\* A QUIC sender has one connection at a time, and its request comes with its id.
Connect(h, r) == live[r] = NoOne /\ r \notin over /\ Begin(h, r)

\* A TCP connection, keys and metadata: the handler makes up the id. One that
\* fails before has registered nothing.
ConnectTcp(h) == Begin(h, h)

\* The sender loses its connection, or does not wait longer; it will retry.
GiveUp(r) ==
  /\ live[r] # NoOne
  /\ live' = [live EXCEPT ![r] = NoOne]
  /\ UNCHANGED <<pc, id, oneshot, got, outcome, registries, cancelled, over, exists, approvals, user, met>>

\* The sender is told how it went, if the handler is still the one it talks to.
Told(h) == over' = IF live[id[h]] = h THEN over \cup {id[h]} ELSE over

-----------------------------------------------------------------------------
(* Asking the user *)

\* PendingRequests::register; the oneshot sender it replaces is dropped.
Register(h) ==
  /\ pc[h] = "register"
  /\ pending' = Entry(pending, h, h)
  /\ LET replaced == pending[id[h]] IN
       oneshot' = [g \in Handlers |->
                     IF g = replaced /\ oneshot[g] = "open" THEN "dropped" ELSE oneshot[g]]
  /\ GoTo(h, IF Quic(h) THEN "list" ELSE "wait")
  /\ UNCHANGED <<id, got, outcome, flag, active, cancelled, live, over, exists, approvals, user, met>>

\* A QUIC handler makes its two entries before it asks, a TCP handler once its
\* transfer starts.
MakeActive(h) ==
  /\ pc[h] = "list"
  /\ active' = Entry(active, h, h)
  /\ GoTo(h, "flag")
  /\ UNCHANGED <<id, oneshot, got, outcome, pending, flag, cancelled, live, over, exists, approvals, user, met>>

\* Mutant of MakeFlag: a flag that is there already is kept.
MakeFlagOnce(h) ==
  /\ pc[h] = "flag"
  /\ flag' = IF flag[id[h]] = NoOne THEN Entry(flag, h, h) ELSE flag
  /\ got' = [got EXCEPT ![h] = IF ~Quic(h) THEN h ELSE NoOne]
  /\ GoTo(h, IF Quic(h) THEN "wait" ELSE "loop")
  /\ UNCHANGED <<id, oneshot, outcome, pending, active, cancelled, live, over, exists, approvals, user, met>>

MakeFlag(h) ==
  /\ pc[h] = "flag"
  /\ flag' = Entry(flag, h, h)
  /\ got' = [got EXCEPT ![h] = IF ~Quic(h) THEN h ELSE NoOne]
  /\ GoTo(h, IF Quic(h) THEN "wait" ELSE "loop")
  /\ UNCHANGED <<id, oneshot, outcome, pending, active, cancelled, live, over, exists, approvals, user, met>>

\* respond_to_transfer: the entry goes, whether or not anyone still listens.
Respond(r, answer) ==
  /\ pending[r] # NoOne
  /\ pending' = [pending EXCEPT ![r] = NoOne]
  /\ oneshot' = [oneshot EXCEPT ![pending[r]] = IF @ = "open" THEN answer ELSE @]
  /\ approvals' = [approvals EXCEPT ![r] = IF answer = "yes" THEN @ + 1 ELSE @]
  /\ UNCHANGED <<pc, id, got, outcome, flag, active, cancelled, live, over, exists, user, met>>

\* The writer task creates the file or appends to it.
Write(h, place) ==
  /\ exists' = TRUE
  /\ GoTo(h, place)
  /\ UNCHANGED <<id, oneshot, got, outcome, registries, cancelled, live, over, approvals, user, met>>

\* Mutant of Accept: a dropped channel counts as a yes.
AcceptDropped(h) ==
  pc[h] = "wait" /\ Quic(h) /\ oneshot[h] \in {"yes", "dropped"} /\ Write(h, "loop")

\* The user said yes.
Accept(h) == pc[h] = "wait" /\ Quic(h) /\ oneshot[h] = "yes" /\ Write(h, "loop")

AcceptTcp(h) == pc[h] = "wait" /\ ~Quic(h) /\ oneshot[h] = "yes" /\ Write(h, "list")

\* The sender cannot be told of the yes: the handler returns and leaves what it
\* has registered.
ResponseFails(h) ==
  /\ pc[h] = "wait" /\ oneshot[h] = "yes"
  /\ outcome' = [outcome EXCEPT ![h] = "lost"]
  /\ GoTo(h, "done")
  /\ UNCHANGED <<id, oneshot, got, registries, cancelled, live, over, exists, approvals, user, met>>

\* Mutant of Refuse: the deadline wins over an answer that is there.
RefuseLate(h) ==
  /\ pc[h] = "wait"
  /\ oneshot' = [oneshot EXCEPT ![h] = IF @ = "open" THEN "deaf" ELSE @]
  /\ outcome' = [outcome EXCEPT ![h] = "refused"]
  /\ GoTo(h, IF Quic(h) THEN "unlist" ELSE "done")
  /\ UNCHANGED <<id, got, registries, cancelled, live, over, exists, approvals, user, met>>

\* The user said no, another handler took the entry, or 60 seconds have passed
\* without an answer.  The entry in pending is left as it is.
Refuse(h) ==
  /\ pc[h] = "wait" /\ oneshot[h] # "yes"
  /\ oneshot' = [oneshot EXCEPT ![h] = IF @ = "open" THEN "deaf" ELSE @]
  /\ outcome' = [outcome EXCEPT ![h] = "refused"]
  /\ GoTo(h, IF Quic(h) THEN "unlist" ELSE "done")
  /\ UNCHANGED <<id, got, registries, cancelled, live, over, exists, approvals, user, met>>

-----------------------------------------------------------------------------
(* The transfer and its end *)

\* Each round of a QUIC handler looks the flag up; a TCP handler keeps its own.
Round(h) ==
  /\ pc[h] = "loop" /\ Quic(h)
  /\ got[h] # flag[id[h]]
  /\ got' = [got EXCEPT ![h] = flag[id[h]]]
  /\ UNCHANGED <<pc, id, oneshot, outcome, registries, cancelled, live, over, exists, approvals, user, met>>

\* A QUIC loop ends: the end of the file, which may arrive after its sender gave
\* up, a network error, or a cancel.  The flag goes.
LoopEnds(h, how) ==
  /\ pc[h] = "loop" /\ Quic(h)
  /\ how = "cancelled" => got[h] \in cancelled
  /\ outcome' = [outcome EXCEPT ![h] = how]
  /\ flag' = Entry(flag, h, NoOne)
  /\ GoTo(h, "clean")
  /\ UNCHANGED <<id, oneshot, got, pending, active, cancelled, live, over, exists, approvals, user, met>>

\* A TCP loop ends: COMPLETE, an ERROR or a frame it does not know, a network
\* error, a dead writer, or a cancel.  Only COMPLETE leaves its active entry.
LoopEndsTcp(h, how) ==
  /\ pc[h] = "loop" /\ ~Quic(h)
  /\ how = "cancelled" => got[h] \in cancelled
  /\ outcome' = [outcome EXCEPT ![h] = how]
  /\ flag' = Entry(flag, h, NoOne)
  /\ active' = IF how = "complete" THEN active ELSE Entry(active, h, NoOne)
  /\ GoTo(h, "clean")
  /\ UNCHANGED <<id, oneshot, got, pending, cancelled, live, over, exists, approvals, user, met>>

\* The disk writer fails: a QUIC handler returns at once and leaves its entries
\* and its file.
WriterFails(h) ==
  /\ pc[h] = "loop" /\ Quic(h)
  /\ outcome' = [outcome EXCEPT ![h] = "lost"]
  /\ GoTo(h, "done")
  /\ UNCHANGED <<id, oneshot, got, registries, cancelled, live, over, exists, approvals, user, met>>

\* After COMPLETE a TCP handler waits for its writer and hashes the file: either
\* may fail.
CheckFails(h) ==
  /\ pc[h] = "clean" /\ ~Quic(h) /\ outcome[h] = "complete"
  /\ outcome' = [outcome EXCEPT ![h] = "failed"]
  /\ active' = Entry(active, h, NoOne)
  /\ UNCHANGED <<pc, id, oneshot, got, pending, flag, cancelled, live, over, exists, approvals, user, met>>

\* Without success remove_file takes away whatever is at the output path.
Clean(h) ==
  /\ pc[h] = "clean"
  /\ exists' = (outcome[h] = "complete" /\ exists)
  /\ GoTo(h, "unlist")
  /\ UNCHANGED <<id, oneshot, got, outcome, registries, cancelled, live, over, approvals, user, met>>

\* Mutant of Unlist: nothing is taken out after a refusal.
UnlistTransfers(h) ==
  /\ pc[h] = "unlist"
  /\ active' = IF outcome[h] = "refused" THEN active ELSE Entry(active, h, NoOne)
  /\ Told(h)
  /\ GoTo(h, "done")
  /\ UNCHANGED <<id, oneshot, got, outcome, pending, flag, cancelled, live, exists, approvals, user, met>>

\* ACTIVE_TRANSFERS.remove; after a refusal the flag is removed as well.
Unlist(h) ==
  /\ pc[h] = "unlist"
  /\ active' = Entry(active, h, NoOne)
  /\ GoTo(h, IF outcome[h] = "refused" THEN "unflag" ELSE "done")
  /\ IF outcome[h] = "refused" THEN over' = over ELSE Told(h)
  /\ UNCHANGED <<id, oneshot, got, outcome, pending, flag, cancelled, live, exists, approvals, user, met>>

\* A TCP handler that cannot send its COMPLETE keeps the file and its entry.
Unacknowledged(h) ==
  /\ pc[h] = "unlist" /\ ~Quic(h) /\ outcome[h] = "complete"
  /\ outcome' = [outcome EXCEPT ![h] = "lost"]
  /\ GoTo(h, "done")
  /\ UNCHANGED <<id, oneshot, got, registries, cancelled, live, over, exists, approvals, user, met>>

Unflag(h) ==
  /\ pc[h] = "unflag"
  /\ flag' = Entry(flag, h, NoOne)
  /\ Told(h)
  /\ GoTo(h, "done")
  /\ UNCHANGED <<id, oneshot, got, outcome, pending, active, cancelled, live, exists, approvals, user, met>>

-----------------------------------------------------------------------------
(* The commands of the desktop application.  They are not tasks: one runs at a *)
(* time, but the handlers run between its steps.                               *)

\* The interface has been told of the request.
Known(r) == \E h \in About(r) : pc[h] \notin {"idle", "register"}

Start(name, r) ==
  /\ command = NoCommand /\ name \in Commands /\ Known(r)
  /\ command' = [step |-> "unlist", id |-> r]
  /\ UNCHANGED <<pc, id, oneshot, got, outcome, registries, live, over, exists, approvals, unheard, met>>

\* Mutant of Cancel: the lookup of a flag that is not there is not checked.
CancelUnchecked(r) == Start("cancel", r) /\ cancelled' = cancelled \cup {flag[r]}

\* cancel_transfer signals the flag it finds.
Cancel(r) == Start("cancel", r) /\ cancelled' = cancelled \cup ({flag[r]} \ {NoOne})

\* delete_transfer signals nobody.
Delete(r) == Start("delete", r) /\ cancelled' = cancelled

\* Both then remove the request from one registry after the other.
CommandUnlist ==
  /\ command.step = "unlist"
  /\ active' = [active EXCEPT ![command.id] = NoOne]
  /\ command' = [command EXCEPT !.step = "unflag"]
  /\ UNCHANGED <<pc, id, oneshot, got, outcome, pending, flag, cancelled, live, over, exists,
                 approvals, unheard, met>>

CommandUnflag ==
  /\ command.step = "unflag"
  /\ flag' = [flag EXCEPT ![command.id] = NoOne]
  /\ unheard' = unheard \cup ({flag[command.id]} \ (cancelled \cup {NoOne}))
  /\ command' = NoCommand
  /\ UNCHANGED <<pc, id, oneshot, got, outcome, pending, active, cancelled, live, over, exists,
                 approvals, met>>

-----------------------------------------------------------------------------
Answer(h) == Accept(h) \/ AcceptTcp(h) \/ ResponseFails(h) \/ Refuse(h)
Ends(h) ==
  \/ \E how \in {"complete", "failed", "cancelled"} : LoopEnds(h, how) \/ LoopEndsTcp(h, how)
  \/ WriterFails(h) \/ CheckFails(h)
Step(h) == \/ Register(h) \/ MakeActive(h) \/ MakeFlag(h) \/ Answer(h)
           \/ Ends(h) \/ Clean(h) \/ Unlist(h) \/ Unacknowledged(h) \/ Unflag(h)

Next ==
  \/ \E h \in Handlers : Step(h) \/ Round(h) \/ ConnectTcp(h) \/ \E r \in Requests : Connect(h, r)
  \/ \E r \in Ids : Cancel(r) \/ Delete(r)
  \/ CommandUnlist \/ CommandUnflag
  \/ \E r \in Ids : GiveUp(r) \/ \E answer \in {"yes", "no"} : Respond(r, answer)

Spec == Init /\ [][Next]_vars

-----------------------------------------------------------------------------
Places == {"idle", "register", "list", "flag", "wait", "loop", "clean", "unlist", "unflag", "done"}

\* Every variable has its type; in particular no handler is cancelled that has
\* no flag in the registry to signal.
TypeOK ==
  /\ pc \in [Handlers -> Places] /\ id \in [Handlers -> Ids \cup {NoOne}]
  /\ oneshot \in [Handlers -> {"open", "yes", "no", "dropped", "deaf"}]
  /\ got \in [Handlers -> Handlers \cup {NoOne}]
  /\ outcome \in [Handlers -> {"none", "refused", "complete", "failed", "cancelled", "lost"}]
  /\ {pending, flag, active, live} \subseteq [Ids -> Handlers \cup {NoOne}]
  /\ {cancelled, unheard, met} \subseteq SUBSET Handlers /\ over \subseteq Ids
  /\ command \in {NoCommand} \cup [step : {"unlist", "unflag"}, id : Ids]
  /\ exists \in BOOLEAN /\ approvals \in [Ids -> Nat]

Granted(h) == outcome[h] \notin {"none", "refused"} \/ pc[h] = "loop"
              \/ (~Quic(h) /\ pc[h] \in {"list", "flag"})

\* However often a sender retries, each approval of the user lets at most one
\* handler write (alpn.rs:279 respond, 368 the wait for its answer).
OneTransferPerApproval ==
  \A r \in Ids : Cardinality({h \in About(r) : Granted(h)}) <= approvals[r]

\* An entry in PendingRequests is of a handler that still asks, or of one whose
\* 60 seconds have passed: only that one stays in get_pending_transfers.
PendingIsAsked ==
  \A r \in Ids : pending[r] # NoOne =>
    \/ oneshot[pending[r]] = "open" /\ pc[pending[r]] \in {"list", "flag", "wait"}
    \/ oneshot[pending[r]] = "deaf"

\* A handler that receives data, and that shared its request with no other at
\* any time, has its own flag in the registry, where pause and cancel find it:
\* what an earlier connection of the same request left behind does not matter.
\* Only a command can have taken the flag out, after signalling it or not.
ReachableByUser ==
  \A h \in Handlers : pc[h] = "loop" /\ h \notin met =>
    flag[id[h]] = h \/ h \in cancelled \cup unheard

\* When the last handler of a request has ended neither registry knows it any
\* more, unless the disk or a reply failed one of them.
NothingRegistered ==
  \A r \in Ids :
    (\A h \in About(r) : pc[h] \in {"idle", "done"} /\ outcome[h] # "lost") =>
      flag[r] = NoOne /\ active[r] = NoOne

\* The user's yes is never lost: the handler it reached receives, or is about to
\* read it, also when the answer comes at the deadline or the sender has already
\* connected again (alpn.rs:368 the timeout around the answer, 279 respond).
YesIsHeeded ==
  \A h \in Handlers : oneshot[h] = "yes" => Granted(h) \/ pc[h] \in {"list", "flag", "wait"}

-----------------------------------------------------------------------------
(* What the repository says of the handlers, as if each had its entries and  *)
(* its file to itself.  Either clause is violated without the other.         *)

\* gui main.rs:142 "the transfer loop pre-registers its own flag before streaming
\* starts": a handler that receives, of a request that no command has touched,
\* finds a flag in the registry, and so does pause_transfer.
FlagWhileReceiving ==
  \A h \in Handlers : pc[h] = "loop" /\ About(id[h]) \cap (cancelled \cup unheard) = {} =>
    flag[id[h]] # NoOne

\* alpn.rs:221 "Emitted when a transfer completes successfully", of the event
\* that names the file's path: a file that was reported complete is there.
CompleteHasFile == (\E h \in Handlers : outcome[h] = "complete") => exists

\* A handler that refuses, times out or fails takes away its own flag and its own
\* file only (alpn.rs:375, 556; gui main.rs:707, 720).
HandlersKeepApart == FlagWhileReceiving /\ CompleteHasFile
=============================================================================
