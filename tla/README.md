# P2PTransfer: verification project

TLA+ models of the transfer core of P2PTransfer, the TLC runs that check them
and the theorems TLAPS proves about them. Line numbers are those of the
repository at the commit this directory belongs to; `alpn.rs`,
`tcp_compat.rs`, `backpressure.rs` and so on are under `p2ptransfer-core/src`,
`main.rs` is `desktop/p2ptransfer-gui/src-tauri/src/main.rs`, `cli` is
`desktop/p2ptransfer-cli/src/main.rs`, and `api.rs` is the mobile bridge, unless
another path is given.

## 1. The system

Two devices exchange files. A device runs the desktop application (Tauri), the
mobile application (Flutter over a Rust bridge) or the command-line tool; all
use the crate `p2ptransfer-core`. Everything is tokio tasks plus blocking
threads for disk work; there is no server of their own (the README's relay,
STUN and directory services are not in the code: NAT traversal is the iroh
library's).

| Component | State | Operations | Interacts with | What is hard | What makes it correct |
|---|---|---|---|---|---|
| Bounded pipe (`backpressure.rs`) | buffer, two closed flags, two wakers | poll_read, poll_write, shutdown, drop of either half | the two tasks that hold the halves | a waker stored or taken at the wrong moment | bytes in order, bounded, no lost wakeup, end of file last |
| Direct TCP transfer (`tcp_compat.rs`, framing in `tcp.rs`) | the two loops, a reader and a writer thread, two bounded channels, pause flag, registries, output file | handshake, metadata, accept with resume offset, block loop, checksum, COMPLETE, acknowledgement | user prompt, registries, disk | cancels, breaks, a dead thread, a crash and a resume in the middle | the receiver keeps exactly the announced file or none; Ok means stored; both ends end |
| QUIC transfer (`alpn.rs` 326-601, 640-943) | as above, but a raw byte stream and no acknowledgement | request and answer, stream, finish, clean-up | as above | the end of the stream is all the receiver sees; flags are looked up every round | equal hashes when both report success; a cut file is never a success on both sides |
| Incoming requests (`alpn.rs` 257-385, `main.rs` 171-192, 482-509, 1205) | PendingRequests, TRANSFER_PAUSE_FLAGS, ACTIVE_TRANSFERS, output path | register, respond, deadline of 60 s, clean-up, cancel, delete | every handler of an incoming connection | retries under the same id, late answers, leftover handlers | one transfer per approval; nothing stale but what is named |
| Send queue (`main.rs` 1038-1201, 1630-1883) | its own flag, registry entries, the attempt under way | try TCP, try QUIC, sleep 3 s, again; pause, resume, cancel, delete | both transfers, registries, discovery | which flag a command reaches; a cancel in every phase | the command returns, clean; a reachable receiver is reached |
| Command-line pipeline (`cli` 441-791, 951-1186, `engine.rs`) | window, reorder buffer, acknowledgement counter, session map, hasher, stored progress | `send`, `listen`, `slow-receive`, Ctrl-C, the next session | store, chunk arithmetic, TCP | parallel chunks, acknowledgements counted and not matched, resume, a handler left over from an earlier session | a session reported as verified has put the file on disk; the record tells how it ended |
| Chunk arithmetic (`transfer/chunker.rs`, `engine.rs`) | none | clamp, offset, length, number of chunks | pipeline | boundaries | chunks tile the file |
| Stored transfers (`transfer/resume.rs`) | SQLite tables | create, progress, complete, fail, list, contacts | applications | a late report after a final status | a final status stays |
| Discovery (`p2p/discovery.rs`) | peer table, running flag, three tasks | beacon, receive, expire, start, stop, drop | contacts, `p2p list` | expiry racing beacons; stop while the listener waits | listed while heard, gone soon after; stop returns |
| Contacts (`main.rs` 828-990, 1100-1121) | the contacts table, rows read and not yet written back | add, remove, list, the refresh in each round of a send | discovery, store | a row written back over what the user did meanwhile | the row is what the user last made of it |
| Pause flag (`alpn.rs` 35-126) | two watch channels | pause, resume, cancel, wait_if_paused, wait_for_cancel | every loop | lost wakeups | a waiting loop sees every change |
| Desktop TCP transfer (`main.rs` 365-788, 1630-1883) | near copies of `tcp_compat.rs`; listener, shutdown flag | as direct TCP; start and stop listening | queue, requests | as direct TCP, other uses of the registries | as direct TCP |
| Cryptography, compression, bandwidth | counters | pure functions, display | transfers | - | round trip |
| User interfaces, packaging, patch scripts | - | - | commands | - | not modelled |

Interaction: the user interface calls commands; commands and transfer loops
share the two registries (concurrent maps keyed by request id) and the flags in
them; loops and disk threads share bounded channels; the two devices share a
TCP connection (frames both ways) or a QUIC stream (request and answer, then
bytes one way); successive handlers share the output path; commands share the
SQLite file through one mutex.

`PROJECT.json` lists, under `hazards`, what is hard to test at its line.

## 2. Modules

| Module | What | Extends / instantiates |
|---|---|---|
| `Pipe` | `backpressure.rs`: one action per outcome of a poll, a shutdown and the two drops | `ByteChannel` (refinement) |
| `ByteChannel` | what a pipe promises: a FIFO with an end | |
| `LanTransfer` | `tcp_compat.rs`, both ends and all four tasks, one action per step between two awaits | `FileDelivery` (refinement) |
| `FileDelivery` | what a direct transfer promises its two users | |
| `QuicTransfer` | `alpn.rs`, both ends and all four tasks | |
| `LanProgress`, `QuicProgress` | of those two: who can go on, and how much is left to do | `LanTransfer`; `QuicTransfer` |
| `IncomingRequests` | the handlers of incoming connections, QUIC and TCP, around those transfers | |
| `SendQueue` | `send_to_contact` around those transfers | |
| `Chunks` | the arithmetic of `chunker.rs` and `engine.rs`, as operators | |
| `TransferStore` | the statements of `resume.rs` on the transfers table, as operators | |
| `CliPipeline` | `p2p send` against `p2p listen` and `p2p slow-receive`, sessions one after the other over one record | `Chunks`, `TransferStore` |
| `Discovery` | the three tasks of a `DiscoveryService` and its owner, over a network of devices that move | |
| `Contacts` | one contact, the commands that refresh it, and the discovery they ask | `Discovery` |
| `PipeProofs`, `LanTransferProofs`, `QuicProofs`, `IncomingProofs`, `SendQueueProofs`, `ChunksProofs`, `CliPipelineProofs`, `ContactsProofs` | theorems | the module, `TLAPS`, library theorems |
| `MCPipe`, `MCLanTransfer`, `MCQuicTransfer`, `MCIncomingRequests`, `MCSendQueue`, `MCCliPipeline`, `MCContacts` | the modules TLC runs; constants are in the `.cfg` files | |

Conventions. A variable with prefix `s` is the sender's, `r` the receiver's,
`rd` the reader thread's, `wr` the writer thread's. `pc`-like variables name
the await a task sits at; one action is the code between two awaits, early
returns and error paths included. A definition whose comment begins with
"Mutant of" is a plausible slip in that code, kept to show that the properties
notice it; no specification uses it.

Data. A file is a sequence of units `<<position, version>>`: enough to tell an
order, a gap, a repetition and an edit. A block is a short sequence of units, a
checksum or hash is the very sequence that was hashed, an encrypted block is
its number with its data. Names, speeds, progress events and logging are left
out. Sockets, channels and streams are bounded FIFOs; a reset or a break loses
what is in flight.

Correspondence of the composed parts: `LanTransfer` and `QuicTransfer` look
into one attempt; `SendQueue` keeps of an attempt only where it can fail, wait
or look up a flag; `IncomingRequests` keeps of a handler only what it does to
the registries, to the prompt and to the output path. A QUIC handler and a TCP
handler do this in different orders (`main.rs` 423-735 checks the file after it
was told that it is complete, and cleans up elsewhere), so they have actions of
their own.

The desktop's cancel and delete are several steps (`main.rs` 171-192): cancel
signals the flag it finds, both delete the stored record and take the entry out
of `ACTIVE_TRANSFERS` and then out of `TRANSFER_PAUSE_FLAGS`. They are synchronous
Tauri commands and run one after the other on the main thread, but the handlers
and the queue run between their steps; in `IncomingRequests` and `SendQueue` each step that changes something is an action
(the statement on the stored record finds no row). `QuicTransfer` keeps the desktop's cancel in one action: there
a single function looks its flag up, so that the two orders of one look and the
removal are the looks before and after that action.

`CliPipeline` follows each chunk of each session through its stages: read and
encrypted (up to `Parallel` at once), handed over, put in order, on the wire,
with its receiving task, written, acknowledged. A handler may outlive its
command: the next session opens and resizes the file it still writes to. A
write error is held back as tokio's `File` holds it back, until the next
operation on that file. A record is a row of `TransferStore`; the two machines
have a store each, and the statements of the listener name the id of the
sender's row, which its own store does not have.

Where a model is coarser than the code:

* `LanTransfer.Discard` and `VerifyBad` remove the file, while the code ignores an
  error of `remove_file` (`tcp_compat.rs` 274, 284, 293, 304, 327): when the file
  cannot be removed it stays, and `NothingLeftBehind` speaks of the other case.
* `CliPipeline.WriteChunk` changes the disk at once. tokio hands `write_all` to a
  blocking thread: the chunk is acknowledged, and COMPLETE may go out (`cli` 1150),
  before the flush (1180). Of this the model has that a failing write shows with
  the next operation (`lost`); it leaves out that a write of a handler that has
  ended may land later, next to the handlers that are left over and do write later.
* `CliPipeline.OpenFile` resizes the file, creates the record, enters the session
  and sends ACCEPT in one step; the failures of its parts are `NotOpened`.

`Discovery` counts time in ticks of ten seconds. A beacon is heard by a step
that need not be taken, so every pattern of loss is a behaviour. A device's
address may be given up and taken by another one.

## 3. Runs

| Run | Bounds | What it asks |
|---|---|---|
| `pipe` | capacity 3, 7 bytes | the bytes in order, no lost wakeup, every byte in the end, and refinement of `ByteChannel` |
| `lan_safety` | 3 units in blocks of 2, channels of 1, two attempts from every kind of output file, one edit, breaks, crashes, failing disks and sources | agreement of what both users are told with the disk; what is left behind; when a checksum may fail; refinement of `FileDelivery` |
| `lan_live` | 2 blocks, one pause, a failing receiver's disk, cancels of either end, breaks | both ends and all tasks end, also when the writer dies with a full queue, unless one stays paused; an accepted transfer is delivered unless one of the stated things happens |
| `quic_safety` | 3 units in chunks of 2, every fault, desktop's cancel | what may be concluded from the two hashes, which entries stay behind, what an undelivered transfer met with |
| `quic_live` | 2 units, one pause, failing disks, cancels of the mobile bridge; a dropped connection loses nothing | both ends end; approved means completed, with the stated exceptions; a cancel is heeded whatever else stands still |
| `incoming` | two handlers and one request id (so: two of one request, one and a TCP one, two TCP ones) | prompt, deadline, retries, clean-up, and the steps of cancels and deletes in every order |
| `queue` | two failures besides the receiver's comings and goings; pauses and resumes without bound, a cancel and a delete | which flag commands reach; the command returns; a receiver that stays is reached |
| `cli` | 3 bytes, chunk sizes inside and beyond the range, compressible or not, window, parallelism and channels of 2, two sessions to either receiver, one fault of any kind | what "verified" means; what the record tells; both ends end; delivery |
| `presence` | two devices besides this one, of which one shares the contact's name and has no id, on two addresses; timeout 3, cleaning every tick | who is listed; when stop returns; what becomes of a saved contact |
| `incoming_apart` (violation) | two handlers, no command | a handler that ends takes away what another one of its request or of its path has |
| `queue_cancel` (violation) | as `queue`, one failure | after a cancel the file is tried again |
| `cli_resume` (violation) | two sessions | a resumed session that nothing disturbs fails its checksum |

Why the bounds are enough to be interesting. Three units in blocks of two make
a full and a short block and partial files that end on and inside a block.
Channels of capacity one make every "full" and "empty" case reachable after two steps. `lan_safety` has no
cancel and `lan_live` no failing source and no crash, which would take them beyond
what can be checked in minutes; for the cancel clause of `NothingLeftBehind` and
for the other faults the theorems `FailureIsTidy` and `NobodyWaitsInACircle` to
`EndsDelivered` hold with every event. Two attempts, or two sessions, are what a crash, an edit and a resume
need, and what it takes for a leftover handler to meet the next command. Two
handlers are what it takes to overwrite, remove or outlive another's entry.
`cli` admits one fault: one pause, crash, break, edit or failing disk already
makes the second session a resumed one, or one beside a leftover handler; the
theorems hold for any number. In `presence`, timeout and cleaning
period have the code's own ratio (30 s and 10 s), so that a peer may be cleaned
at each age around the limit. Every bound is a constant (`MaxPauses`,
`MaxAttempts`, `MaxEdits`, `MaxFaults`, `MaxSends`, `MaxBytes`) or the set
`Events` of the faults a run admits. Deadlock is not checked in runs whose
behaviours end when the transfers, sessions or handlers are over; `queue` and
`queue_cancel` check it.

Fairness. Weak fairness of each task's steps: tokio polls a ready task again
and the blocking pool has a thread for each of the few tasks. The prompt is
answered or runs into its 60 seconds. In `SendQueue` also strong fairness of
the end of a QUIC loop, because a file has finitely many chunks and the model
does not count them. In `Discovery` timers fire and tasks go on, but no
datagram need arrive: `StopReturns` takes it as its hypothesis that beacons of
another device are not lost for ever. No user is ever fair: a pause may last
for ever, and every liveness property says so (`Paused`, `Parked`), with no
cancel, answer, resume or reconnection assumed; breaks, faults and connects
need never happen.

## 4. What the runs show

Properties that hold are in the modules, each with the code it is about. What
the code does against its own words or its evident intent:

* `incoming_apart`: a handler that is refused or times out removes the flag under
  its request id, also when a retry has put its own there (`alpn.rs` 375), and the
  retry then receives where neither pause nor cancel finds it; this is the
  behaviour TLC shows. A handler that ends without success removes the output
  path, whoever wrote the file there (`alpn.rs` 556, `main.rs` 707, 720), also one
  that was reported complete. `HandlersKeepApart` says that neither happens, and
  each of its two clauses is violated without the other. What does hold is
  `ReachableByUser` (a handler that met no other of its request is found) and
  `NothingRegistered`.
* `queue_cancel`: a cancelled TCP attempt falls into the arm that goes on with
  QUIC (`main.rs` 1132), which offers the file again; the mobile bridge returns there
  (`api.rs` 219). The same property fails in a second way: an attempt over QUIC puts
  a flag of its own into the registry (`alpn.rs` 705) while the queue keeps waiting
  on the one it made (`main.rs` 1183), so that a cancel in the sleep that follows is
  not noticed. `UserReachesSend` says which flag commands reach in each phase, and
  for the queue's own no more than until that attempt; `CancelEndsSend` is about
  cancels before it. A queue that was paused before cannot be resumed any more
  (`Parked`).
* `cli_resume`: a resumed session counts its chunks from the resume point, but the
  hasher of the listener begins at chunk 0 (`cli` 1071) and so never has them all:
  a resumed session ends with a checksum error, which closes the record, so that
  the attempt after it starts anew.

Other things met while modelling, part of the models and visible in the side
conditions of the properties that hold. Where an entry names such a condition, the
code does get there: without the condition the property is violated.

* `alpn.rs` 943: the QUIC sender reports success on its own hash, and by returning
  drops the connection before the receiver has read the stream. What was still in
  flight is lost, and the receiver fails and discards its file. `SettledIsDelivered`
  names this as the one case in which the code gives up a transfer by itself
  (`CutShort`); it is not taken for a broken connection (`cut`). `Delivered` is
  checked where a dropped connection loses nothing.
* `alpn.rs` 508: the QUIC receiver takes the clean end of the stream for the end of
  the file; a sender whose reader fails (846), or that is dropped, ends its stream
  just as cleanly, and a shorter file is announced as complete.
  `TruncationMeansFailure` is what holds: the sender never reports success then.
* `alpn.rs` 824: the loop looks its flag up anew in each round and the desktop's
  cancel removes it; between two rounds the cancel is lost. The mobile bridge leaves
  the entry, and its cancel is heeded (`CancelHeeded`).
* `main.rs` 173-181: a flag that is registered between the look-up of a cancel and
  its removals is removed without being signalled, and `delete_transfer` signals
  none (`unheard` in `ReachableByUser`).
* `alpn.rs` 368: a request that timed out stays in PendingRequests, and is listed as
  "currently awaiting user acceptance" (`main.rs` 194); `PendingIsAsked` (theorem
  `ListedIsAsked`) states that it is the only kind that does.
* `chunker.rs` 14-20 clamps a chunk size beyond 64 MB where chunks are cut, but
  METADATA carries the size asked for, by which both ends place them (`cli` 1116):
  the file gets holes and is verified (`MaxChunk` in `VerifiedIsExact`).
* `cli` 1119: tokio reports a failed `write_all` with the next operation on the file;
  the last chunk is hashed and acknowledged by then (`lost` in `VerifiedIsExact`).
* `cli` 1012: the handler of an earlier session goes on writing to the file that the
  next one has opened; with an edit in between it spoils a file that is verified
  (`clean` in `VerifiedIsExact`).
* `cli` 756: the main loop looks at the Ctrl-C flag after an event only. With every
  frame acknowledged and the reading task stopped none comes (`Overlooked` in
  `BothEnd`).
* `discovery.rs` 196: `stop` waits for a listener that sits in `recv_from`; alone on
  its network it does not return (`Alone` in `StopReturns`).
* `tcp_compat.rs` 184-188: the receiver's loop looks at its flag before
  `receive_message` and not during it, so a cancel waits until the sender sends
  something; a paused one sends nothing (`Paused` in `AttemptEnds`).
* `tcp_compat.rs` 390-433: each `?` of the sender's handshake returns past the lines
  that remove its registry entries (550); `HandshakeFails` leaves them as they are,
  and no property promises otherwise.
* `tcp_compat.rs` 27, `main.rs` 438: the error replies before a transfer are
  futures nobody awaits; a refused sender sees a closed connection only, which
  is why `SendQueue` has `TcpClosed` and asks again over QUIC.
* `tcp_compat.rs` 139: a resumed file is appended to at its end although the
  offset was rounded down to a block; a partial file that ends inside a block
  fails its checksum and is deleted (second clause of `MismatchExplained`).
* `alpn.rs` 441: the same over QUIC, without a checksum to notice it: sending a
  file shorter than a chunk twice doubles it (`NothingBeyond` in
  `CompleteIsExact`).
* `alpn.rs` 707-741: early returns leave registry entries behind
  (`LeakOnlyOnFailure`, `NothingRegistered` name them).
* `tcp.rs` MAX_PAYLOAD_SIZE: an uncompressed chunk of the documented maximum,
  64 MB, is with its overhead larger than a frame may be and is refused (`Fits`).
* The slow receiver never cuts a longer file of the same name, and then its
  check of the whole file fails (side condition of `Announced`).
* The listener's statements name the session id of METADATA, but its row was
  made under an id of its own, so its record stays pending; a handler that fails
  leaves its entry in `active_transfers` (`HandlerFails`).
* `discovery.rs`: a known address keeps the name it was first heard with, also
  when another device has taken it (`Touched`).
* `main.rs` 921: a contact that is removed, or saved anew, while a listing or a
  send is at work comes back as it was (`overlapped` in `ContactAsSaved`).
* `main.rs` 177-188: cancel and delete also delete the stored transfer, but the
  desktop never creates one; the statements find no row.

## 5. Proofs

Each paragraph names the inductive invariant and why the property alone is not
enough.

`PipeProofs`: for every capacity and every number of bytes, the type invariant,
`Bounded`, `InOrder`, `NoLostWakeup`, `EofIsFinal`, and that `Pipe` implements
`ByteChannel`. `Bounded`, with the types, is inductive by itself; the wakeup
invariant is proved together with what each side's state says of the buffer.

`LanTransferProofs`: for every file size, block size, capacity and set of
faults and any number of attempts, the type invariant, all the safety
invariants of the runs, `OkMeansStored`, and that `LanTransfer` implements
`FileDelivery`. Four invariants, each resting on the one before:

* `Inv == TypeOK /\ FileOpen /\ Accord`, for `CompleteIsExact` and
  `OkMeansStored`: the acknowledgement the sender acts on has been in flight
  since the receiver verified the file. `FileOpen`: a writer thread that appends
  or runs has a file. `Accord`: a receiver that kept the file has a finished
  writer and the announced file on disk; a receiver that was sent, or has read,
  METADATA faces a sender past `create_metadata`, so that the announcement
  cannot change any more; a COMPLETE frame on its way to the sender comes from a
  receiver that returned "complete"; and so does a sender's Ok.
* `Tidy`, for `NothingLeftBehind`: until it accepts, the handler has registered
  nothing and touched no file; it leaves its loop unregistered; it is not done
  while its writer may still change the file.
* `Numbered`, for `CountersAgree`: neither end sends its counter. Both derive
  the resume point from the frames of the handshake, and a place in the pipeline
  (channel, sender's hand, wire, receiver's hand) fixes the number of the block
  in it; once the link is down nothing is sent.
* `Flow == Inv /\ Tidy /\ Numbered /\ Aligned /\ Content /\ OnDisk /\ Ending`,
  for `MismatchExplained`: the block of each number, wherever it is, holds that
  piece of what the reader hashed; the file holds the pieces taken so far after
  what a resume kept; COMPLETE follows the last block. A sum that
  differs then leaves only the stated causes: other bytes were read than
  announced, or the partial file was no prefix of them or ended inside a block.

Each action has a lemma of its own; lemmas such as `GroupsUnchanged` carry the
untouched groups of variables.

Of `AttemptEnds` and `Delivered`, which need fairness, `LanProgress` states what
does not, and this is proved too:

* `NobodyWaitsInACircle`: as long as an attempt is under way and no user has
  paused a loop, one of the two functions, of their two tasks and of the
  connection can go on, however small the channels and the socket buffers are.
  It rests on `Phased`: which frames can be in flight at each place of either
  function (`Greeting` for the handshake, `Exchange` after it), that as long as
  the connection is up a function that waits has its frame on the way
  (`Answered`), and that each loop has the task it waits for (`Working`).
* `NothingIsDoneTwice` and `StepsAreBounded`: `Work` weighs each place in the
  code and each queue by what can still be done from there. Every step but a new
  connection and the users' makes it less, faults included, and it is at no time
  above `Stock`, a bound that depends on the size of the file alone.
* `EndsDelivered`: a sender that heard the acceptance returns Ok, unless something
  befell the attempt: an edit, a resume that was not sound, a cancel, a failed
  disk, file or process, a broken connection. `Blameless` is its invariant: an
  accepted attempt has met with a `Mishap`, which no later step takes back, or
  goes as it should (`Smooth`: nobody gives up and the last word of either side is
  COMPLETE). A mismatch of the checksums is a mishap there; that it has a cause of
  its own is `MismatchExplained`, with `Unedited`, that without an edit what is
  announced and hashed is the file as it was, and `Last`, that COMPLETE follows
  the whole file.

Together: an attempt that is not paused always has a next step, has only `Stock`
of them, and delivers the file when nothing befalls it. That somebody who can go
on in fact does is the fairness, and that part of `AttemptEnds` and `Delivered`
is left to TLC.

`QuicProofs`: for every file size, chunk size, capacity and set of faults, the
type invariant, `HashesAgree`, `CompleteIsExact`, `TruncationMeansFailure` and
`LeakOnlyOnFailure`. The inductive invariant is `Inv == TypeOK /\ SenderOrder /\
ReceiverOrder /\ LeakOnlyOnFailure /\ SenderHash /\ (Voided \/ Flow)`. `Flow`
follows the units from the file through channel, sender's hand, stream,
receiver's hand and channel to the receiver's hash and to the disk. A fault
breaks it, and then the transfer is `Voided`: a task has failed or an end has
given the reason, which no later step takes back, and which is what each
property has as its exception. `TruncationMeansFailure` adds that only a reader
that got to the end lets the sender report success.

The progress theorems of `QuicProgress` are those of `LanProgress`, with a stock
that depends on the chunk size as well, since a stream may take a chunk byte by
byte. `NobodyWaitsInACircle` rests on `Linked`, what each side's place says of
the answer, the stream and the other side, and on `Nonempty`, that no task hands
over an empty chunk, which a write could never finish. `EndsDelivered` is what remains
of `Delivered` without fairness: a transfer that was accepted and is over on both
sides was completed, with the exact file unless a partial one it resumed was no
part of it, or one of the excuses `Delivered` names has come about, or the sender
had returned success and its own drop of the connection took the rest of the stream
from the receiver (`CutShort`); the code gives up on nothing else. It rests on two
invariants: `Causes`, each result a side may end with, with what brought it about,
and `Cuts`, how the connection came to its end: broken from outside, or dropped by
a side that was through, and what that side was told by then.

`IncomingProofs`: for any finite set of handlers and any request ids, the types,
`PendingIsAsked`, `OneTransferPerApproval`, `YesIsHeeded`, `ReachableByUser` and
`NothingRegistered`. `OneTransferPerApproval` counts handlers that write, which
no single step relates to approvals; the inductive invariant counts instead the
handlers whose channel holds a yes (`Counted`), and says that a handler that
writes is one of them (`GrantedSaidYes`). `respond` adds at most one, the
handler the entry names; that it is one of that request is `Filed`, and that no
running handler's request changes is `Fresh`. Every other step is `Quiet`: it
gives and takes no yes. For the registries, `Entries == OwnId /\ Owed /\
Apart /\ Reachable`: an entry may have been made by one handler and be taken out by
another of its request, so what is kept is that for every entry some handler of
that request is still before its removal, and that a handler which has met no other
of its request (`Apart`) has its own flag there, as long as no command took it.

`SendQueueProofs`: for every bound on the faults, the types and
`UserReachesSend`, whose three parts (`HandleWhileRunning`,
`QueueFlagUntilQuic`, `LoopHonoursUser`) are inductive together with the types and
with `Signalled`, what a command that is under way has done so far; a step leaves
the loop, moves on without touching a registry, or is one of the few that change an
entry.

`ChunksProofs`: for every size asked for and every file, each byte is in one
chunk and in only one (`ChunksTile`), with the lemmas on clamping, the number of
chunks and the start chunk that the next paragraph rests on.

`CliPipelineProofs`: for every file, chunk size, window, channel size, number of
sessions and of faults, the type invariant, `RecordTellsOutcome`,
`VerifiedIsExact`, `NeverStranded` and the action property `FinalStays`. Three
invariants, each resting on the one before:

* `RecordInv`, for the record: which record a command takes up depends on all
  the records left by those before it. `OneOpen` says that every record but the
  current one is closed, and that the current one is open as long as the command
  runs and tells its outcome afterwards (`Told`). Data and pipeline are not
  needed: a step changes at most the row of the running command.
* `Inv == TypeOK /\ RecordInv /\ Windowed /\ Data`, for the types and
  `VerifiedIsExact`. The order of the counters is not inductive by itself:
  acknowledgements are counted, not matched, and that there are no more of them
  than frames sent needs `Windowed`, that only chunks below the counters have
  left the sender. The listener hashes the chunks it takes off the wire, not the
  file, so `Data` has to follow them to the disk: what was cut is a chunk of
  the session and as it was read at some time (`Cut`); what was written is on
  disk as it was read or as it was announced (`OnDisk`); the handlers of earlier
  sessions, which write to the same file, can only write what the announcement
  has there (`Harmless`) as long as the file was opened `clean`; the slow
  receiver has the file to itself (`Alone`); and a verdict "complete" was given
  on a hash of all chunks from chunk 0, or on the file itself (`Grounds`). By
  `ChunksTile` the chunks on disk are then the file.
* `Paced`, for `NeverStranded`, the part of `BothEnd` that needs no fairness: a
  running command always has an event to take, or some task of either end has
  work that leads to one. That a full window or channel never holds everybody up
  is a matter of counting: `Paced` says that every chunk below a counter has got
  as far as the counter says (`Filled`), that acknowledgements not yet counted
  are there to be counted (`Counted`), and that the handler gives its verdict
  with the last acknowledgement and not before (`Answered`), for which the slow
  receiver's chunks have to be acknowledged in order (`InTurn`). The one state
  left over is `Overlooked`.

`ContactsProofs`: for any devices, addresses, timeout and users' edits, the
types, `ListedIffHeard` and `ContactAsSaved`. `Ages` ties the age of a peer to
the time since its last beacon and bounds it by the time left to the next
cleaning; `Service` says how far start and stop have come; `Rows` that what a
command under way has read of the contact is what the user saved, unless they
edited it meanwhile.

Assumptions: the named ASSUMEs of the modules only (sizes, capacities and
bounds are natural numbers, sizes of blocks and channels positive, the handlers
finite, model values distinct from data); TLC evaluates them in the runs.

Every safety invariant and every refinement that a passing run checks is thus a
theorem. Model-checked only: liveness under fairness, which is out of the
prover's reach, for what is left of it beside the progress theorems and
`NeverStranded` (`EveryByteArrives`, `AttemptEnds`, `Delivered`, `CancelHeeded`,
`CancelEndsSend`, `ReachedInTheEnd`, `BothEnd`, `StopReturns`).

## 6. Not modelled

Each part has its entry in `PROJECT.json`. In short:

* The mobile bridge's `send_file` (the desktop's queue without its loop) and the
  desktop's command of that name, which makes one QUIC attempt: `SendQueue` and
  `QuicTransfer` have their steps.
* The desktop listener's start and stop: `setup` already holds port 9877, so a
  later start can only fail to bind; and the channels inside `PauseFlag`, which
  are tokio's (its value and its wakeups are modelled where it is used).
* Two simultaneous sends of the same file over one stored record, and two sends
  of folders of one name, which share a temporary archive.
* Code nothing calls: TAG_SESSION_JOIN, `send_chunk_with_ack`, `redo_handshake`,
  `adaptive_chunk_size`, `cleanup_old_transfers`, `TcpServer`.
* User interfaces and generated bridges, which display events and call the
  modelled commands; cryptography and compression, pure library calls of which
  the models use that a block decrypts only under its own number and that
  packing may or may not make it smaller; the bandwidth monitor, which is for
  display; packaging, benchmarks and patch scripts.
* Inside the models: progress events, speeds, key derivation, the archive of a
  folder.

## 7. Plan

Done: every component that moves a file or decides whether it may be moved has a
model, and all safety invariants that the runs check have a proof. Left, in this
order:

1. The rest of what liveness comes down to without fairness: a bound on the work
   of a session for `CliPipeline`, and what `NobodyWaitsInACircle` says for
   `SendQueue`, `IncomingRequests` and `Contacts`.
2. Compose `SendQueue` with the output file, for the send that is repeated over
   QUIC after a lost acknowledgement over TCP.
3. Abstract specifications: a queue that delivers at most once unless that
   acknowledgement is lost, implemented by `SendQueue`; a prompt that is answered
   once, implemented by `IncomingRequests`.
