----------------------------- MODULE PipeProofs -----------------------------
(***************************************************************************)
(* Proofs about Pipe for every Capacity and every amount of data.  The     *)
(* invariants are proved one by one, each from the ones before it.         *)
(***************************************************************************)
EXTENDS Pipe, SequenceTheorems, TLAPS

\* The n bytes one write appends are the ones numbered w+1, ..., w+n.
LEMMA RunOfBytes ==
  ASSUME NEW w \in Nat, NEW n \in Nat, NEW s, s = [i \in 1..n |-> w + i]
  PROVE  s \in Seq(Nat) /\ Len(s) = n /\ \A i \in 1..n : s[i] = w + i
<1>1. s \in [1..n -> Nat]
  OBVIOUS
<1>2. s \in Seq(Nat)
  BY <1>1, SeqDef
<1>3. DOMAIN s = 1..n /\ DOMAIN s = 1..Len(s) /\ Len(s) \in Nat
  BY <1>1, <1>2, LenProperties
<1>4. Len(s) = n
  BY <1>3
<1> QED
  BY <1>2, <1>4

\* The type invariant: what each PipeState field and each task's state can be.
THEOREM TypeCorrect == SafeSpec => []TypeOK
<1>1. Init => TypeOK
  <2>1. <<>> \in Seq(Nat) /\ 0 \in Nat
    OBVIOUS
  <2> QED
    BY <2>1, Zenon DEF Init, TypeOK, ReaderStates, WriterStates
<1>2. TypeOK /\ [Next]_vars => TypeOK'
  <2> SUFFICES ASSUME TypeOK, [Next]_vars PROVE TypeOK'
    OBVIOUS
  <2>1. buffer' \in Seq(Nat) /\ received' \in Seq(Nat) /\ written' \in Nat
    <3> USE DEF TypeOK, stateVars
    <3>1. CASE ReadSome
      <4>1. PICK n \in 1..Len(buffer) :
               /\ received' = received \o SubSeq(buffer, 1, n)
               /\ buffer' = SubSeq(buffer, n + 1, Len(buffer))
        BY <3>1 DEF ReadSome
      <4>2. SubSeq(buffer, 1, n) \in Seq(Nat) /\ buffer' \in Seq(Nat)
        BY <4>1
      <4>3. received' \in Seq(Nat)
        BY <4>1, <4>2
      <4> QED
        BY <3>1, <4>2, <4>3 DEF ReadSome
    <3>2. CASE WriteSome
      <4>1. PICK k \in 1..(MaxBytes - written) :
               /\ buffer' = buffer \o [i \in 1..Smaller(Free, k) |-> written + i]
               /\ written' = written + Smaller(Free, k)
        BY <3>2 DEF WriteSome
      <4>2. Smaller(Free, k) \in Nat
        BY <3>2, CapacityAssumption, MaxBytesAssumption DEF WriteSome, Free, Smaller
      <4>3. [i \in 1..Smaller(Free, k) |-> written + i] \in Seq(Nat)
        BY <4>2, RunOfBytes
      <4>4. buffer' \in Seq(Nat) /\ written' \in Nat
        BY <4>1, <4>2, <4>3
      <4> QED
        BY <3>2, <4>4 DEF WriteSome
    <3>3. CASE ~ReadSome /\ ~WriteSome
      BY <3>3, Zenon DEF Next, ReaderPoll, WriterPoll, vars, ReadEof, ReadPending, DropReader,
         RepollReader, WritePending, WriteBroken, Shutdown, DropWriter, RepollWriter
    <3> QED
      BY <3>1, <3>2, <3>3
  <2>2. /\ readClosed' \in BOOLEAN /\ writeClosed' \in BOOLEAN
        /\ readWaker' \in BOOLEAN /\ writeWaker' \in BOOLEAN
        /\ reader' \in ReaderStates /\ writer' \in WriterStates
    <3> USE DEF TypeOK, ReaderStates, WriterStates, stateVars, WakeReader, WakeWriter
    <3>1. CASE ReaderPoll \/ DropReader \/ RepollReader
      BY <3>1, ZenonT(60) DEF ReaderPoll, ReadSome, ReadEof, ReadPending, DropReader, RepollReader
    <3>2. CASE WriterPoll \/ Shutdown \/ DropWriter \/ RepollWriter
      BY <3>2, ZenonT(60) DEF WriterPoll, WriteSome, WritePending, WriteBroken, Shutdown, DropWriter, RepollWriter
    <3>3. CASE UNCHANGED vars
      BY <3>3, Zenon DEF vars
    <3> QED
      BY <3>1, <3>2, <3>3 DEF Next
  <2> QED
    BY <2>1, <2>2 DEF TypeOK
<1> QED
  BY <1>1, <1>2, PTL DEF SafeSpec

-----------------------------------------------------------------------------
\* How one write changes the buffer: at most Free bytes, numbered on from
\* written.  Everything the later proofs need to know about WriteSome.
LEMMA WriteSomeEffect ==
  ASSUME TypeOK, Bounded, WriteSome
  PROVE \E n \in Nat \ {0} :
          /\ n <= Capacity - Len(buffer)
          /\ written' = written + n
          /\ Len(buffer') = Len(buffer) + n
          /\ \A i \in 1..(Len(buffer) + n) :
               buffer'[i] = IF i <= Len(buffer) THEN buffer[i]
                                                ELSE written + (i - Len(buffer))
<1>1. PICK k \in 1..(MaxBytes - written) :
         /\ buffer' = buffer \o [i \in 1..Smaller(Free, k) |-> written + i]
         /\ written' = written + Smaller(Free, k)
  BY DEF WriteSome
<1> DEFINE n == Smaller(Free, k)
<1>2. n \in Nat \ {0} /\ n <= Capacity - Len(buffer)
  BY CapacityAssumption, MaxBytesAssumption DEF TypeOK, WriteSome, Free, Smaller
<1>3. [i \in 1..n |-> written + i] \in Seq(Nat) /\ Len([i \in 1..n |-> written + i]) = n
  BY <1>2, RunOfBytes DEF TypeOK
<1>4. /\ Len(buffer') = Len(buffer) + n
      /\ \A i \in 1..(Len(buffer) + n) :
           buffer'[i] = IF i <= Len(buffer) THEN buffer[i]
                                            ELSE written + (i - Len(buffer))
  BY <1>1, <1>2, <1>3 DEF TypeOK
<1> QED
  BY <1>1, <1>2, <1>4

\* How one read changes buffer and received: n bytes move across.
LEMMA ReadSomeEffect ==
  ASSUME TypeOK, ReadSome
  PROVE \E n \in 1..Len(buffer) :
          /\ Len(buffer') = Len(buffer) - n
          /\ Len(received') = Len(received) + n
          /\ \A i \in 1..(Len(buffer) - n) : buffer'[i] = buffer[n + i]
          /\ \A i \in 1..(Len(received) + n) :
               received'[i] = IF i <= Len(received) THEN received[i]
                                                    ELSE buffer[i - Len(received)]
<1>1. PICK n \in 1..Len(buffer) :
         /\ received' = received \o SubSeq(buffer, 1, n)
         /\ buffer' = SubSeq(buffer, n + 1, Len(buffer))
  BY DEF ReadSome
<1>2. /\ Len(buffer') = Len(buffer) - n
      /\ \A i \in 1..(Len(buffer) - n) : buffer'[i] = buffer[n + i]
  BY <1>1 DEF TypeOK
<1>3. /\ SubSeq(buffer, 1, n) \in Seq(Nat)
      /\ Len(SubSeq(buffer, 1, n)) = n
      /\ \A i \in 1..n : SubSeq(buffer, 1, n)[i] = buffer[i]
  BY <1>1 DEF TypeOK
<1>4. /\ Len(received') = Len(received) + n
      /\ \A i \in 1..(Len(received) + n) :
           received'[i] = IF i <= Len(received) THEN received[i]
                                                ELSE buffer[i - Len(received)]
  BY <1>1, <1>3 DEF TypeOK
<1> QED
  BY <1>2, <1>4

-----------------------------------------------------------------------------
\* The steps that neither take nor hand out bytes.
QuietStep == \/ ReadEof \/ ReadPending \/ DropReader \/ RepollReader
             \/ WritePending \/ WriteBroken \/ Shutdown \/ DropWriter \/ RepollWriter
             \/ UNCHANGED vars

LEMMA StepCases == [Next]_vars => ReadSome \/ WriteSome \/ QuietStep
  BY DEF Next, ReaderPoll, WriterPoll, QuietStep

LEMMA QuietStepEffect == QuietStep => UNCHANGED <<buffer, received, written>>
  BY Zenon DEF QuietStep, ReadEof, ReadPending, DropReader, RepollReader, WritePending,
     WriteBroken, Shutdown, DropWriter, RepollWriter, vars, stateVars

\* "Bounded by capacity bytes" (backpressure.rs:139-140): free() never
\* subtracts below zero.
THEOREM NeverOverfull == SafeSpec => []Bounded
<1>1. Init => Bounded
  BY CapacityAssumption DEF Init, Bounded
<1>2. TypeOK /\ TypeOK' /\ Bounded /\ [Next]_vars => Bounded'
  <2> SUFFICES ASSUME TypeOK, TypeOK', Bounded, [Next]_vars PROVE Bounded'
    OBVIOUS
  <2>1. CASE ReadSome
    BY <2>1, ReadSomeEffect, CapacityAssumption DEF TypeOK, Bounded
  <2>2. CASE WriteSome
    BY <2>2, WriteSomeEffect, CapacityAssumption DEF TypeOK, Bounded
  <2>3. CASE QuietStep
    BY <2>3, QuietStepEffect DEF Bounded
  <2> QED
    BY <2>1, <2>2, <2>3, StepCases
<1> QED
  BY <1>1, <1>2, TypeCorrect, PTL DEF SafeSpec

\* The reader gets the writer's bytes in order, none lost and none twice
\* (poll_read pops the front, poll_write appends at the back).
THEOREM FirstInFirstOut == SafeSpec => []InOrder
<1>1. Init => InOrder
  BY DEF Init, InOrder
<1>2. TypeOK /\ TypeOK' /\ Bounded /\ InOrder /\ [Next]_vars => InOrder'
  <2> SUFFICES ASSUME TypeOK, TypeOK', Bounded, InOrder, [Next]_vars PROVE InOrder'
    OBVIOUS
  <2> DEFINE lr == Len(received)   lb == Len(buffer)
  <2>0. /\ lr \in Nat /\ lb \in Nat /\ lr + lb = written
        /\ \A i \in 1..lr : received[i] = i
        /\ \A i \in 1..lb : buffer[i] = lr + i
    BY DEF InOrder, TypeOK
  <2>1. CASE ReadSome
    <3>1. PICK n \in 1..Len(buffer) :
            /\ Len(buffer') = Len(buffer) - n
            /\ Len(received') = Len(received) + n
            /\ \A i \in 1..(Len(buffer) - n) : buffer'[i] = buffer[n + i]
            /\ \A i \in 1..(Len(received) + n) :
                 received'[i] = IF i <= Len(received) THEN received[i]
                                                      ELSE buffer[i - Len(received)]
      BY <2>1, ReadSomeEffect
    <3>2. Len(received') + Len(buffer') = written'
      <4>1. written' = written
        BY <2>1 DEF ReadSome
      <4> QED
        BY <2>0, <3>1, <4>1
    <3>3. ASSUME NEW i \in 1..Len(received') PROVE received'[i] = i
      <4>1. i \in 1..(lr + n) /\ received'[i] = IF i <= lr THEN received[i] ELSE buffer[i - lr]
        BY <3>1
      <4>2. CASE i <= lr
        BY <2>0, <4>1, <4>2
      <4>3. CASE i > lr
        <5>1. i - lr \in 1..lb
          BY <2>0, <4>1, <4>3
        <5>2. buffer[i - lr] = lr + (i - lr)
          BY <2>0, <5>1
        <5> QED
          BY <2>0, <4>1, <4>3, <5>1, <5>2
      <4> QED
        BY <2>0, <4>2, <4>3
    <3>4. ASSUME NEW i \in 1..Len(buffer') PROVE buffer'[i] = Len(received') + i
      <4>1. n + i \in 1..lb /\ buffer'[i] = buffer[n + i] /\ i \in Nat
        BY <2>0, <3>1
      <4>2. buffer[n + i] = lr + (n + i)
        BY <2>0, <4>1
      <4> QED
        BY <2>0, <3>1, <4>1, <4>2
    <3> QED
      BY <3>2, <3>3, <3>4 DEF InOrder
  <2>2. CASE WriteSome
    <3>1. PICK n \in Nat \ {0} :
            /\ n <= Capacity - Len(buffer)
            /\ written' = written + n
            /\ Len(buffer') = Len(buffer) + n
            /\ \A i \in 1..(Len(buffer) + n) :
                 buffer'[i] = IF i <= Len(buffer) THEN buffer[i]
                                                  ELSE written + (i - Len(buffer))
      BY <2>2, WriteSomeEffect
    <3>2. received' = received
      BY <2>2 DEF WriteSome
    <3>3. ASSUME NEW i \in 1..Len(buffer') PROVE buffer'[i] = Len(received') + i
      <4>1. i \in 1..(lb + n) /\ buffer'[i] = IF i <= lb THEN buffer[i] ELSE written + (i - lb)
        BY <3>1
      <4>2. CASE i <= lb
        BY <2>0, <3>2, <4>1, <4>2
      <4>3. CASE i > lb
        BY <2>0, <3>2, <4>1, <4>3
      <4> QED
        BY <2>0, <4>2, <4>3
    <3>4. /\ Len(received') + Len(buffer') = written'
          /\ \A i \in 1..Len(received') : received'[i] = i
      BY <2>0, <3>1, <3>2
    <3> QED
      BY <3>3, <3>4 DEF InOrder
  <2>3. CASE QuietStep
    BY <2>3, QuietStepEffect DEF InOrder
  <2> QED
    BY <2>1, <2>2, <2>3, StepCases
<1> QED
  BY <1>1, <1>2, TypeCorrect, NeverOverfull, PTL DEF SafeSpec

-----------------------------------------------------------------------------
\* A parked task always has a waker in the pipe and a reason to wait: no poll
\* misses the event it went to sleep for (read_waker, write_waker).
THEOREM NoTaskForgotten == SafeSpec => []NoLostWakeup
<1>1. Init => NoLostWakeup
  BY Zenon DEF Init, NoLostWakeup
<1>2. TypeOK /\ TypeOK' /\ NoLostWakeup /\ [Next]_vars => NoLostWakeup'
  <2> SUFFICES ASSUME TypeOK, TypeOK', NoLostWakeup, [Next]_vars PROVE NoLostWakeup'
    OBVIOUS
  <2>1. CASE ReadSome
    BY <2>1 DEF ReadSome, WakeWriter, NoLostWakeup, TypeOK, ReaderStates, WriterStates
  <2>2. CASE WriteSome
    BY <2>2 DEF WriteSome, WakeReader, NoLostWakeup, TypeOK, ReaderStates, WriterStates
  <2>3. CASE ReadEof \/ ReadPending \/ DropReader \/ RepollReader
    BY <2>3 DEF ReadEof, ReadPending, DropReader, RepollReader, WakeWriter, NoLostWakeup,
                Free, stateVars, TypeOK, ReaderStates, WriterStates
  <2>4. CASE WritePending \/ WriteBroken \/ Shutdown \/ DropWriter \/ RepollWriter
    BY <2>4 DEF WritePending, WriteBroken, Shutdown, DropWriter, RepollWriter, WakeReader,
                NoLostWakeup, Free, stateVars, TypeOK, ReaderStates, WriterStates
  <2>5. CASE UNCHANGED vars
    BY <2>5 DEF vars, stateVars, NoLostWakeup, Free
  <2> QED
    BY <2>1, <2>2, <2>3, <2>4, <2>5 DEF Next, ReaderPoll, WriterPoll
<1> QED
  BY <1>1, <1>2, TypeCorrect, PTL DEF SafeSpec

\* End of file is reported only after every accepted byte was read, and the
\* pipe accepts none afterwards (poll_read's zero-byte return).
THEOREM EofComesLast == SafeSpec => []EofIsFinal
<1>1. Init => EofIsFinal
  BY Zenon DEF Init, EofIsFinal
<1>2. TypeOK /\ InOrder /\ EofIsFinal /\ [Next]_vars => EofIsFinal'
  <2> SUFFICES ASSUME TypeOK, InOrder, EofIsFinal, [Next]_vars PROVE EofIsFinal'
    OBVIOUS
  <2>1. CASE ReadSome \/ WriteSome
    BY <2>1 DEF ReadSome, WriteSome, WakeReader, EofIsFinal, TypeOK, ReaderStates
  <2>2. CASE QuietStep
    <3>1. CASE ReadEof
      <4>1. Len(buffer) = 0
        BY <3>1 DEF ReadEof, TypeOK
      <4>2. Len(received) = written
        BY <4>1 DEF InOrder, TypeOK
      <4> QED
        BY <3>1, <4>2 DEF ReadEof, stateVars, EofIsFinal
    <3>2. CASE ~ReadEof
      <4>1. received' = received /\ written' = written
        BY <2>2, QuietStepEffect
      <4>2. reader' = "eof" => reader = "eof"
        BY <2>2, <3>2 DEF QuietStep, ReadPending, DropReader, RepollReader,
           WritePending, WriteBroken, Shutdown, DropWriter, RepollWriter,
           WakeReader, vars, stateVars
      <4>3. writeClosed => writeClosed'
        BY <2>2, <3>2 DEF QuietStep, ReadPending, DropReader, RepollReader,
           WritePending, WriteBroken, Shutdown, DropWriter, RepollWriter,
           WakeReader, vars, stateVars
      <4> QED
        BY <4>1, <4>2, <4>3, Zenon DEF EofIsFinal
    <3> QED
      BY <3>1, <3>2
  <2> QED
    BY <2>1, <2>2, StepCases
<1> QED
  BY <1>1, <1>2, TypeCorrect, FirstInFirstOut, PTL DEF SafeSpec

-----------------------------------------------------------------------------
\* read_closed says exactly that the PipeReader was dropped.
ReaderGone == readClosed <=> reader = "dropped"

LEMMA ReaderGoneCorrect == SafeSpec => []ReaderGone
<1>1. Init => ReaderGone
  BY DEF Init, ReaderGone
<1>2. TypeOK /\ ReaderGone /\ [Next]_vars => ReaderGone'
  <2> SUFFICES ASSUME TypeOK, ReaderGone, [Next]_vars PROVE ReaderGone'
    OBVIOUS
  <2> USE DEF ReaderGone, stateVars, WakeReader, WakeWriter
  <2>1. CASE ReaderPoll \/ DropReader \/ RepollReader
    BY <2>1 DEF ReaderPoll, ReadSome, ReadEof, ReadPending, DropReader, RepollReader
  <2>2. CASE WriterPoll \/ Shutdown \/ DropWriter \/ RepollWriter
    BY <2>2 DEF WriterPoll, WriteSome, WritePending, WriteBroken, Shutdown, DropWriter, RepollWriter
  <2>3. CASE UNCHANGED vars
    BY <2>3 DEF vars
  <2> QED
    BY <2>1, <2>2, <2>3 DEF Next
<1> QED
  BY <1>1, <1>2, TypeCorrect, PTL DEF SafeSpec

\* The pipe implements the bounded byte channel: every poll, shutdown and drop
\* is one step of ByteChannel or leaves it alone.
THEOREM PipeIsAChannel == SafeSpec => ImplementsChannel
<1> USE DEF Channel!Next, Channel!Accept, Channel!Deliver, Channel!Finish, Channel!End,
            Channel!Abandon, Channel!chanVars, ReadingBar
<1>1. Init => Channel!Init
  BY DEF Init, Channel!Init
<1>2. TypeOK /\ TypeOK' /\ Bounded /\ InOrder /\ EofIsFinal /\ ReaderGone /\ InOrder' /\ [Next]_vars
        => [Channel!Next]_(Channel!chanVars)
  <2> SUFFICES ASSUME TypeOK, TypeOK', Bounded, InOrder, EofIsFinal, ReaderGone, InOrder', [Next]_vars
               PROVE  [Channel!Next]_(Channel!chanVars)
    OBVIOUS
  <2>1. CASE ReadSome
    <3>1. PICK n \in 1..Len(buffer) : Len(received') = Len(received) + n
      BY <2>1, ReadSomeEffect
    <3>2. Len(received') > Len(received) /\ Len(received') <= written
      <4>1. received \in Seq(Nat) /\ buffer \in Seq(Nat)
        BY DEF TypeOK
      <4>2. Len(received) \in Nat /\ Len(buffer) \in Nat
        BY <4>1
      <4>3. Len(received) + Len(buffer) = written
        BY DEF InOrder
      <4>4. n \in Nat /\ 1 <= n /\ n <= Len(buffer)
        BY <3>1, <4>2
      <4> QED
        BY <3>1, <4>2, <4>3, <4>4
    <3> QED
      BY <2>1, <3>2 DEF ReadSome
  <2>2. CASE WriteSome
    <3>1. PICK n \in Nat \ {0} : n <= Capacity - Len(buffer) /\ written' = written + n
      BY <2>2, WriteSomeEffect
    <3>2. written' > written /\ written' <= Len(received) + Capacity
      BY <3>1, CapacityAssumption DEF InOrder, TypeOK
    <3>3. ~writeClosed /\ received' = received /\ writeClosed' = writeClosed
      BY <2>2 DEF WriteSome
    <3>4. reader \notin {"eof", "dropped"} /\ reader' \notin {"eof", "dropped"}
      BY <2>2 DEF WriteSome, WakeReader, EofIsFinal, ReaderGone
    <3>5. ReadingBar = "open" /\ ReadingBar' = "open"
      BY <3>4
    <3> QED
      BY <3>2, <3>3, <3>5
  <2>3. CASE ReadEof
    <3>1. Len(received) = written
      <4>1. Len(buffer) = 0
        BY <2>3 DEF ReadEof
      <4> QED
        BY <4>1 DEF InOrder, TypeOK
    <3> QED
      BY <2>3, <3>1 DEF ReadEof, stateVars
  <2>4. CASE ReadPending \/ DropReader \/ RepollReader
    BY <2>4 DEF ReadPending, DropReader, RepollReader, stateVars
  <2>5. CASE Shutdown \/ DropWriter
    <3>1. /\ writeClosed' = TRUE
          /\ written' = written /\ received' = received
          /\ reader' = reader \/ (reader = "parked" /\ reader' = "running")
      BY <2>5 DEF Shutdown, DropWriter, WakeReader
    <3> QED
      BY <3>1
  <2>6. CASE WritePending \/ WriteBroken \/ RepollWriter \/ UNCHANGED vars
    BY <2>6 DEF WritePending, WriteBroken, RepollWriter, vars, stateVars
  <2> QED
    BY <2>1, <2>2, <2>3, <2>4, <2>5, <2>6, StepCases DEF QuietStep
<1> QED
  BY <1>1, <1>2, TypeCorrect, NeverOverfull, FirstInFirstOut, EofComesLast, ReaderGoneCorrect, PTL
     DEF SafeSpec, ImplementsChannel, Channel!Spec
=============================================================================
