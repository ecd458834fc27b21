-------------------------------- MODULE Pipe --------------------------------
(***************************************************************************)
(* The bounded in-memory pipe of p2ptransfer-core/src/network/             *)
(* backpressure.rs: one reader task and one writer task share a PipeState  *)
(* behind a mutex, so every poll is one atomic step.  The k-th byte the    *)
(* pipe accepts is the number k, which is all a first-in-first-out claim   *)
(* needs to know about a byte.                                             *)
(***************************************************************************)
EXTENDS Naturals, Sequences

CONSTANTS Capacity,   \* PipeState::capacity
          MaxBytes    \* bound: bytes the writer ever offers

ASSUME CapacityAssumption == Capacity \in Nat
ASSUME MaxBytesAssumption == MaxBytes \in Nat

VARIABLES
  buffer,        \* PipeState::buffer
  readClosed,    \* PipeState::read_closed
  writeClosed,   \* PipeState::write_closed
  readWaker,     \* PipeState::read_waker.is_some()
  writeWaker,    \* PipeState::write_waker.is_some()
  reader,        \* the task that owns the PipeReader
  writer,        \* the task that owns the PipeWriter
  written,       \* number of bytes accepted so far
  received       \* the bytes handed to the reader, in order

stateVars == <<buffer, readClosed, writeClosed, readWaker, writeWaker>>
vars == <<stateVars, reader, writer, written, received>>

\* A parked task got Pending and runs again only when its waker fires, or when
\* another event of the same task makes it poll again (Repoll below).
ReaderStates == {"running", "parked", "eof", "dropped"}
WriterStates == {"running", "parked", "broken", "dropped"}

Free == Capacity - Len(buffer)
Smaller(m, n) == IF m <= n THEN m ELSE n

Init == /\ buffer = <<>>
        /\ readClosed = FALSE /\ writeClosed = FALSE
        /\ readWaker = FALSE /\ writeWaker = FALSE
        /\ reader = "running" /\ writer = "running"
        /\ written = 0
        /\ received = <<>>

\* Mutants of the two below: the waker is dropped without being called; the
\* state of the other task is used.
WakeNoReader == readWaker' = FALSE /\ reader' = reader
WakeNoWriter == writeWaker' = FALSE /\ writer' = writer
WakeWrongTask == readWaker' = FALSE /\ reader' = writer

\* if let Some(waker) = state.read_waker.take() { waker.wake() }
WakeReader == /\ readWaker' = FALSE
              /\ reader' = IF readWaker /\ reader = "parked" THEN "running" ELSE reader

WakeWriter == /\ writeWaker' = FALSE
              /\ writer' = IF writeWaker /\ writer = "parked" THEN "running" ELSE writer

-----------------------------------------------------------------------------
(* PipeReader *)

\* Mutant of ReadSome: copies from the back of the buffer.
ReadNewest ==
  /\ reader = "running"
  /\ buffer # <<>>
  /\ \E n \in 1..Len(buffer) :
       /\ received' = received \o SubSeq(buffer, Len(buffer) - n + 1, Len(buffer))
       /\ buffer' = SubSeq(buffer, 1, Len(buffer) - n)
  /\ WakeWriter
  /\ UNCHANGED <<readClosed, writeClosed, readWaker, reader, written>>

\* poll_read, bytes available: at most n of them (buf.remaining() = n >= 1)
\* move to the caller and a waiting writer is woken.
ReadSome ==
  /\ reader = "running"
  /\ buffer # <<>>
  /\ \E n \in 1..Len(buffer) :
       /\ received' = received \o SubSeq(buffer, 1, n)
       /\ buffer' = SubSeq(buffer, n + 1, Len(buffer))
  /\ WakeWriter
  /\ UNCHANGED <<readClosed, writeClosed, readWaker, reader, written>>

\* poll_read, nothing buffered and the writer is finished: zero bytes, which
\* is how AsyncRead spells end of file.
ReadEof ==
  /\ reader = "running"
  /\ buffer = <<>>
  /\ writeClosed
  /\ reader' = "eof"
  /\ UNCHANGED <<stateVars, writer, written, received>>

\* poll_read, nothing buffered yet: leave a waker behind and wait.
ReadPending ==
  /\ reader = "running"
  /\ buffer = <<>>
  /\ ~writeClosed
  /\ readWaker' = TRUE
  /\ reader' = "parked"
  /\ UNCHANGED <<buffer, readClosed, writeClosed, writeWaker, writer, written, received>>

\* Drop for PipeReader, at any point of the task's life.
DropReader ==
  /\ reader # "dropped"
  /\ reader' = "dropped"
  /\ readClosed' = TRUE
  /\ WakeWriter
  /\ UNCHANGED <<buffer, writeClosed, readWaker, written, received>>

-----------------------------------------------------------------------------
(* PipeWriter *)

\* Mutant of WriteSome: accepts bytes after shutdown.
WriteAfterShutdown ==
  /\ writer = "running"
  /\ ~readClosed
  /\ Free > 0
  /\ \E k \in 1..(MaxBytes - written) :
       LET n == Smaller(Free, k)
       IN  /\ buffer' = buffer \o [i \in 1..n |-> written + i]
           /\ written' = written + n
  /\ WakeReader
  /\ UNCHANGED <<readClosed, writeClosed, writeWaker, writer, received>>

\* poll_write with room: as much of the caller's k bytes as fits.
WriteSome ==
  /\ writer = "running"
  /\ ~writeClosed /\ ~readClosed
  /\ Free > 0
  /\ \E k \in 1..(MaxBytes - written) :
       LET n == Smaller(Free, k)
       IN  /\ buffer' = buffer \o [i \in 1..n |-> written + i]
           /\ written' = written + n
  /\ WakeReader
  /\ UNCHANGED <<readClosed, writeClosed, writeWaker, writer, received>>

\* poll_write on a full pipe.
WritePending ==
  /\ writer = "running"
  /\ ~writeClosed /\ ~readClosed
  /\ Free = 0
  /\ written < MaxBytes
  /\ writeWaker' = TRUE
  /\ writer' = "parked"
  /\ UNCHANGED <<buffer, readClosed, writeClosed, readWaker, reader, written, received>>

\* poll_write after shutdown or after the reader has gone: BrokenPipe.
WriteBroken ==
  /\ writer = "running"
  /\ writeClosed \/ readClosed
  /\ writer' = "broken"
  /\ UNCHANGED <<stateVars, reader, written, received>>

\* poll_shutdown: end of stream, but the PipeWriter still exists.
Shutdown ==
  /\ writer = "running"
  /\ writeClosed' = TRUE
  /\ WakeReader
  /\ UNCHANGED <<buffer, readClosed, writeWaker, writer, written, received>>

\* Drop for PipeWriter.
DropWriter ==
  /\ writer # "dropped"
  /\ writer' = "dropped"
  /\ writeClosed' = TRUE
  /\ WakeReader
  /\ UNCHANGED <<buffer, readClosed, writeWaker, written, received>>

-----------------------------------------------------------------------------
\* A task that waits for several things at once (tokio::select!) is polled when
\* any of them is ready; the waker it left in the pipe stays there.
RepollReader == /\ reader = "parked"
                /\ reader' = "running"
                /\ UNCHANGED <<stateVars, writer, written, received>>

RepollWriter == /\ writer = "parked"
                /\ writer' = "running"
                /\ UNCHANGED <<stateVars, reader, written, received>>

ReaderPoll == ReadSome \/ ReadEof \/ ReadPending
WriterPoll == WriteSome \/ WritePending \/ WriteBroken

Next == \/ ReaderPoll \/ DropReader \/ RepollReader
        \/ WriterPoll \/ Shutdown \/ DropWriter \/ RepollWriter

\* The executor runs every woken task: a reader that is not parked polls again.
\* Nothing is assumed of the writer, of drops, or of spurious polls.
Fairness == WF_vars(ReaderPoll) /\ WF_vars(WriterPoll)

SafeSpec == Init /\ [][Next]_vars
Spec == SafeSpec /\ Fairness

-----------------------------------------------------------------------------
TypeOK ==
  /\ buffer \in Seq(Nat)
  /\ readClosed \in BOOLEAN /\ writeClosed \in BOOLEAN
  /\ readWaker \in BOOLEAN /\ writeWaker \in BOOLEAN
  /\ reader \in ReaderStates /\ writer \in WriterStates
  /\ written \in Nat
  /\ received \in Seq(Nat)

\* "The total amount of data that can be in-flight [...] is bounded by
\* `capacity` bytes" (backpressure.rs:139-140); it is also what keeps the
\* unsigned subtraction in free() from wrapping around.
Bounded == Len(buffer) <= Capacity

\* The reader sees the writer's bytes in order, none lost, none twice, and the
\* buffer holds exactly the ones in between.
InOrder ==
  /\ Len(received) + Len(buffer) = written
  /\ \A i \in 1..Len(received) : received[i] = i
  /\ \A i \in 1..Len(buffer) : buffer[i] = Len(received) + i

\* A task sleeps only while it really has to, and never without a waker that
\* the event it waits for will fire.
NoLostWakeup ==
  /\ reader = "parked" => readWaker /\ buffer = <<>> /\ ~writeClosed
  /\ writer = "parked" => writeWaker /\ Free = 0 /\ ~readClosed

\* poll_read reports end of file only after every accepted byte was read, and
\* no byte is accepted afterwards.
EofIsFinal == reader = "eof" => writeClosed /\ Len(received) = written

\* Every accepted byte reaches the reader unless the reader is dropped, however
\* the two tasks are scheduled, and a writer stuck on a full pipe gets going
\* again: this is where a lost wakeup would show.
EveryByteArrives ==
  /\ \A k \in 1..MaxBytes : written >= k ~> (Len(received) >= k \/ reader = "dropped")
  /\ writer = "parked" ~> writer # "parked"

\* The pipe implements the byte channel.
ReadingBar == CASE reader = "dropped" -> "abandoned"
                [] reader = "eof" -> "ended"
                [] OTHER -> "open"
Channel == INSTANCE ByteChannel
             WITH accepted <- written, delivered <- Len(received),
                  finished <- writeClosed, reading <- ReadingBar
ImplementsChannel == Channel!Spec
=============================================================================
