--------------------------- MODULE SendQueueProofs ---------------------------
(***************************************************************************)
(* The types of SendQueue and its three invariants on the flags, for every *)
(* bound on the faults.  An action either leaves the loop (Return), or     *)
(* moves on without touching a registry (GoTo), or is one of the few that  *)
(* change an entry; the lemmas treat the three kinds in turn.              *)
(***************************************************************************)
EXTENDS SendQueue, TLAPS

USE FaultsAssumption

\* A command that has still to remove the entries has done its signalling.
Signalled ==
  command # "none" =>
    asked # {} /\ (~quicTried => "queue" \in cancelled \/ "delete" \in asked)

Flags == TypeOK /\ HandleWhileRunning /\ QueueFlagUntilQuic /\ LoopHonoursUser /\ Signalled

Places == {"top", "sleep", "tcpConnect", "tcpAwait", "tcpLook", "tcpAck",
           "quic", "quicAsk", "quicAwait", "quicLook"}

LEMMA TroubleIsBounded ==
  ASSUME NEW route, Trouble(route)
  PROVE  faults' \in 0..MaxFaults
  BY DEF Trouble

\* A step that only moves on, to anywhere but a loop that sends.
LEMMA GoToFlags ==
  ASSUME Flags, pc # "done", NEW place \in Places, GoTo(place), faults' \in 0..MaxFaults
  PROVE  Flags'
  BY DEF GoTo, Flags, Places, TypeOK, HandleWhileRunning, QueueFlagUntilQuic, LoopHonoursUser, Signalled, user,
         surroundings

\* Every way out of the loop.
LEMMA ReturnFlags ==
  ASSUME Flags, NEW r \in {"ok", "rejected", "cancelled"}, Return(r)
  PROVE  Flags'
  BY DEF Return, Flags, TypeOK, HandleWhileRunning, QueueFlagUntilQuic, LoopHonoursUser, Signalled, user,
         surroundings

LEMMA InitFlags == Init => Flags
<1> SUFFICES ASSUME Init PROVE Flags
  OBVIOUS
<1>1. TypeOK
  <2>1. faults \in 0..MaxFaults
    BY DEF Init
  <2>2. {active, online, willing, quicTried} \subseteq BOOLEAN
    BY DEF Init
  <2> QED
    BY <2>1, <2>2 DEF Init, TypeOK, Own
<1>2. HandleWhileRunning /\ QueueFlagUntilQuic /\ LoopHonoursUser /\ Signalled
  BY DEF Init, HandleWhileRunning, QueueFlagUntilQuic, LoopHonoursUser, Signalled
<1> QED
  BY <1>1, <1>2 DEF Flags

LEMMA QueueFlags == Flags /\ Queue => Flags'
<1> SUFFICES ASSUME Flags, Queue PROVE Flags'
  OBVIOUS
<1>1. faults \in 0..MaxFaults
  BY DEF Flags, TypeOK
<1>2. CASE TopCancelled \/ SleepCancelled
  BY <1>2, ReturnFlags DEF TopCancelled, SleepCancelled
<1>3. CASE TopStart
  BY <1>1, <1>3, GoToFlags DEF TopStart, Places
<1>4. CASE SleepOver
  BY <1>1, <1>4, GoToFlags DEF SleepOver, Places
<1> QED
  BY <1>2, <1>3, <1>4 DEF Queue

LEMMA TcpFlags == Flags /\ Tcp => Flags'
<1> SUFFICES ASSUME Flags, Tcp PROVE Flags'
  OBVIOUS
<1>1. faults \in 0..MaxFaults
  BY DEF Flags, TypeOK
<1>2. CASE TcpRefused \/ TcpDone
  BY <1>2, ReturnFlags DEF TcpRefused, TcpDone
<1>3. CASE TcpConnects \/ TcpAccepted \/ TcpClosed
  BY <1>1, <1>3, GoToFlags DEF TcpConnects, TcpAccepted, TcpClosed, Places
<1>4. CASE TcpCancelled \/ TcpSent
  BY <1>1, <1>4, GoToFlags DEF TcpCancelled, TcpSent, Places
<1>5. CASE TcpFails
  BY <1>5, TroubleIsBounded, GoToFlags DEF TcpFails, Places
<1>6. CASE TcpLook
  BY <1>6 DEF TcpLook, Flags, TypeOK, HandleWhileRunning, QueueFlagUntilQuic, LoopHonoursUser, Signalled, user,
              surroundings
<1> QED
  BY <1>2, <1>3, <1>4, <1>5, <1>6 DEF Tcp

LEMMA QuicFlags == Flags /\ Quic => Flags'
<1> SUFFICES ASSUME Flags, Quic PROVE Flags'
  OBVIOUS
<1> USE DEF Flags, TypeOK, HandleWhileRunning, QueueFlagUntilQuic, LoopHonoursUser, Signalled, user,
            surroundings, Own
<1>1. faults \in 0..MaxFaults
  OBVIOUS
<1>2. CASE QuicRefused \/ QuicCancelled \/ QuicDone
  BY <1>2, ReturnFlags DEF QuicRefused, QuicCancelled, QuicDone
<1>3. CASE QuicAsks \/ QuicAccepted \/ QuicChunk
  BY <1>1, <1>3, GoToFlags DEF QuicAsks, QuicAccepted, QuicChunk, Places
<1>4. CASE QuicFails
  BY <1>4, TroubleIsBounded, GoToFlags DEF QuicFails, Places
<1>5. CASE QuicConnects
  BY <1>5 DEF QuicConnects
<1>6. CASE QuicAskFails
  <2>1. faults' \in 0..MaxFaults
    BY <1>6, TroubleIsBounded DEF QuicAskFails
  <2> QED
    BY <1>6, <2>1 DEF QuicAskFails
<1>7. CASE QuicLook
  BY <1>7 DEF QuicLook
<1> QED
  BY <1>2, <1>3, <1>4, <1>5, <1>6, <1>7 DEF Quic

\* Only a cancel or a delete takes an entry away from a send that runs.
LEMMA SurroundingsFlags == Flags /\ Surroundings => Flags'
<1> SUFFICES ASSUME Flags, Surroundings PROVE Flags'
  OBVIOUS
<1> USE DEF Flags, TypeOK, HandleWhileRunning, QueueFlagUntilQuic, LoopHonoursUser, Signalled, user,
            surroundings, Own
<1>1. CASE Pause
  BY <1>1 DEF Pause
<1>2. CASE Resume
  BY <1>2 DEF Resume
<1>3. ASSUME NEW name \in {"cancel", "delete"}, Start(name), paused' = paused,
             cancelled' = cancelled \/ cancelled' = cancelled \cup ({flag} \ {"none"}),
             name = "cancel" => flag = "none" \/ flag \in cancelled'
      PROVE  Flags'
  <2>1. asked' = asked \cup {name} /\ asked' # {}
    BY <1>3 DEF Start
  <2>2. TypeOK'
    BY <1>3, <2>1 DEF Start
  <2>3. HandleWhileRunning' /\ LoopHonoursUser'
    BY <1>3, <2>1 DEF Start
  <2>4. QueueFlagUntilQuic' /\ Signalled'
    BY <1>3, <2>1 DEF Start
  <2> QED
    BY <2>2, <2>3, <2>4
<1>4. CASE CommandUnlist
  <2>1. asked # {} /\ UNCHANGED <<pc, flag, paused, cancelled, asked, held, quicTried>>
    BY <1>4 DEF CommandUnlist
  <2>2. TypeOK'
    BY <1>4 DEF CommandUnlist
  <2>3. HandleWhileRunning' /\ QueueFlagUntilQuic' /\ LoopHonoursUser' /\ Signalled'
    BY <1>4, <2>1 DEF CommandUnlist
  <2> QED
    BY <2>2, <2>3
<1>5. CASE CommandUnflag
  <2>1. asked # {}
    BY <1>5 DEF CommandUnflag
  <2>2. TypeOK'
    BY <1>5 DEF CommandUnflag
  <2>3. HandleWhileRunning' /\ QueueFlagUntilQuic' /\ LoopHonoursUser' /\ Signalled'
    BY <1>5, <2>1 DEF CommandUnflag
  <2> QED
    BY <2>2, <2>3
<1>6. CASE ComeOrGo
  BY <1>6 DEF ComeOrGo
<1> QED
  BY <1>1, <1>2, <1>3, <1>4, <1>5, <1>6 DEF Surroundings, Cancel, Delete, Start

LEMMA StutterFlags == Flags /\ UNCHANGED vars => Flags'
  BY DEF Flags, TypeOK, HandleWhileRunning, QueueFlagUntilQuic, LoopHonoursUser, Signalled, vars, user,
         surroundings

LEMMA FlagsAlways == Spec => []Flags
<1>1. Flags /\ [Next]_vars => Flags'
  BY QueueFlags, TcpFlags, QuicFlags, SurroundingsFlags, StutterFlags DEF Next, Stopped
<1> QED
  BY InitFlags, <1>1, PTL DEF Spec

\* The type invariant: whatever happens to the command, the registry and the
\* two flags keep their types, and only flags that exist are signalled.
THEOREM TypeCorrect == Spec => []TypeOK
  BY FlagsAlways, PTL DEF Flags

\* Every command of the user finds an entry while send_to_contact runs; the flag
\* it finds is the one that a sending loop looks at, over TCP and over QUIC, and
\* the one the queue waits on as long as no QUIC attempt was made; each unless the
\* user has cancelled or deleted.  It never returns with an entry left.
THEOREM SendIsReachable == Spec => []UserReachesSend
  BY FlagsAlways, PTL DEF Flags, UserReachesSend
=============================================================================
