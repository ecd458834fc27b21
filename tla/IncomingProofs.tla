--------------------------- MODULE IncomingProofs ---------------------------
(***************************************************************************)
(* One transfer per approval, for any finite number of handlers and any    *)
(* requests.  What is counted is not the handlers that write but those     *)
(* whose channel holds a yes: the user's answer puts it there, into one    *)
(* channel at a time, and no other step does (Said).  A handler that       *)
(* writes is one of them (GrantedSaidYes).                                 *)
(*                                                                         *)
(* And what the registries keep: every entry is one that some handler of   *)
(* its request has still to take out (Owed), though it may be another than *)
(* the one that made it.                                                   *)
(***************************************************************************)
EXTENDS IncomingRequests, FiniteSetTheorems, TLAPS

USE HandlersAssumption, RequestsAssumption DEF Ids

Said(r) == {h \in Handlers : id[h] = r /\ oneshot[h] = "yes"}

\* A handler has a request once it runs, and its channel is untouched until
\* it has registered.
Fresh ==
  \A h \in Handlers : /\ pc[h] # "idle" => id[h] \in Ids
                      /\ pc[h] \in {"idle", "register"} => oneshot[h] = "open"

\* An entry of PendingRequests is filed under its handler's own request.
Filed == \A r \in Ids : pending[r] # NoOne => id[pending[r]] = r /\ pc[pending[r]] # "idle"

GrantedSaidYes == \A h \in Handlers : Granted(h) => oneshot[h] = "yes"

Counted == \A r \in Ids : Cardinality(Said(r)) <= approvals[r]

Local == Fresh /\ Filed /\ GrantedSaidYes /\ PendingIsAsked /\ YesIsHeeded

\* A step that answers nobody: no channel gets or loses a yes, and only a
\* handler without an answer can take on a request.
Quiet ==
  /\ approvals' = approvals
  /\ \A h \in Handlers : /\ oneshot'[h] = "yes" <=> oneshot[h] = "yes"
                         /\ id'[h] = id[h] \/ oneshot[h] # "yes"

\* Who has still to take an entry of its request out of a registry; a handler
\* whose disk or reply failed never will.
OwesFlag(h) ==
  \/ pc[h] \in {"loop", "unflag"} \/ outcome[h] = "lost"
  \/ Quic(h) /\ (pc[h] = "wait" \/ (pc[h] = "unlist" /\ outcome[h] = "refused"))
OwesActive(h) ==
  \/ pc[h] \in {"flag", "loop", "clean", "unlist"} \/ outcome[h] = "lost"
  \/ Quic(h) /\ pc[h] = "wait"
Owed ==
  \A r \in Ids : /\ flag[r] # NoOne => \E h \in About(r) : OwesFlag(h)
                 /\ active[r] # NoOne => \E h \in About(r) : OwesActive(h)

\* Two handlers that run for one request know of each other.
Apart ==
  \A g, h \in Handlers : g # h /\ id[g] = id[h] /\ Running(g) /\ Running(h) => h \in met

\* A QUIC handler has its flag in the registry already while it asks.
Watched(h) == pc[h] = "loop" \/ (Quic(h) /\ pc[h] = "wait")
Reachable ==
  \A h \in Handlers : Watched(h) /\ h \notin met => flag[id[h]] = h \/ h \in cancelled \cup unheard

\* Only QUIC handlers share an id, and a handler that was lost is over.
OwnId == \A h \in Handlers : /\ id[h] \in Requests \cup {h, NoOne}
                             /\ outcome[h] = "lost" => pc[h] = "done"

Entries == OwnId /\ Owed /\ Apart /\ Reachable

Inv == TypeOK /\ Local /\ Counted /\ Entries

-----------------------------------------------------------------------------
(* Types *)

LEMMA InitTypes == Init => TypeOK
<1> SUFFICES ASSUME Init PROVE TypeOK
  OBVIOUS
<1>1. {pending, flag, active, live} \subseteq [Ids -> Handlers \cup {NoOne}]
  BY DEF Init
<1> QED
  BY <1>1 DEF Init, TypeOK, Places, NoCommand

LEMMA AskTypes ==
  ASSUME TypeOK, Fresh, NEW h \in Handlers,
         Register(h) \/ MakeActive(h) \/ MakeFlag(h) \/ Answer(h)
  PROVE  TypeOK'
<1> USE DEF TypeOK, Fresh, GoTo, Entry, Places, registries, user
<1>1. CASE Register(h)
  BY <1>1 DEF Register
<1>2. CASE MakeActive(h)
  BY <1>2 DEF MakeActive
<1>3. CASE MakeFlag(h)
  BY <1>3 DEF MakeFlag
<1>4. CASE Accept(h)
  BY <1>4 DEF Accept, Write
<1>5. CASE ResponseFails(h)
  BY <1>5 DEF ResponseFails
<1>6. CASE Refuse(h)
  BY <1>6 DEF Refuse
<1>7. CASE AcceptTcp(h)
  BY <1>7 DEF AcceptTcp, Write
<1> QED
  BY <1>1, <1>2, <1>3, <1>4, <1>5, <1>6, <1>7 DEF Answer

LEMMA EndTypes ==
  ASSUME TypeOK, Fresh, NEW h \in Handlers,
         Ends(h) \/ Clean(h) \/ Unlist(h) \/ Unacknowledged(h) \/ Unflag(h) \/ Round(h)
  PROVE  TypeOK'
<1> USE DEF TypeOK, Fresh, GoTo, Entry, Places, registries, user
<1>1. ASSUME NEW how \in {"complete", "failed", "cancelled"}, LoopEnds(h, how) PROVE TypeOK'
  BY <1>1 DEF LoopEnds
<1>2. CASE WriterFails(h) \/ CheckFails(h)
  BY <1>2 DEF WriterFails, CheckFails
<1>3. CASE Clean(h)
  BY <1>3 DEF Clean
<1>4. CASE Unlist(h)
  BY <1>4 DEF Unlist, Told
<1>5. CASE Unacknowledged(h)
  BY <1>5 DEF Unacknowledged
<1>6. CASE Unflag(h)
  BY <1>6 DEF Unflag, Told
<1>7. CASE Round(h)
  BY <1>7 DEF Round, Quic
<1>8. ASSUME NEW how \in {"complete", "failed", "cancelled"}, LoopEndsTcp(h, how) PROVE TypeOK'
  BY <1>8 DEF LoopEndsTcp
<1> QED
  BY <1>1, <1>2, <1>3, <1>4, <1>5, <1>6, <1>7, <1>8 DEF Ends

LEMMA OutsideTypes ==
  ASSUME TypeOK, NEW r \in Ids,
         \/ \E h \in Handlers : Begin(h, r)
         \/ GiveUp(r) \/ \E answer \in {"yes", "no"} : Respond(r, answer)
  PROVE  TypeOK'
<1> USE DEF TypeOK, GoTo, Places, registries, user
<1>1. ASSUME NEW h \in Handlers, Begin(h, r) PROVE TypeOK'
  <2>1. {g \in About(r) : Running(g)} \subseteq Handlers
    BY DEF About
  <2> QED
    BY <1>1, <2>1 DEF Begin
<1>2. CASE GiveUp(r)
  BY <1>2 DEF GiveUp
<1>3. ASSUME NEW answer \in {"yes", "no"}, Respond(r, answer) PROVE TypeOK'
  BY <1>3 DEF Respond
<1> QED
  BY <1>1, <1>2, <1>3

\* A step of a command.
CommandStep == (\E r \in Ids : Cancel(r) \/ Delete(r)) \/ CommandUnlist \/ CommandUnflag

LEMMA CommandTypes ==
  ASSUME TypeOK, CommandStep
  PROVE  TypeOK'
<1> USE DEF TypeOK, Places, registries, NoCommand
<1>1. ASSUME NEW r \in Ids, Cancel(r) \/ Delete(r) PROVE TypeOK'
  BY <1>1 DEF Cancel, Delete, Start
<1>2. CASE CommandUnlist
  <2>1. active' \in [Ids -> Handlers \cup {NoOne}]
    BY <1>2 DEF CommandUnlist
  <2>2. command \in [step : {"unlist", "unflag"}, id : Ids]
    BY <1>2 DEF CommandUnlist
  <2>3. command' \in [step : {"unlist", "unflag"}, id : Ids]
    BY <1>2, <2>2 DEF CommandUnlist
  <2> QED
    BY <1>2, <2>1, <2>3 DEF CommandUnlist
<1>3. CASE CommandUnflag
  <2>1. flag' \in [Ids -> Handlers \cup {NoOne}]
    BY <1>3 DEF CommandUnflag
  <2>2. command.id \in Ids
    BY <1>3 DEF CommandUnflag
  <2>3. flag[command.id] \in Handlers \cup {NoOne}
    BY <2>2
  <2> QED
    BY <1>3, <2>1, <2>3 DEF CommandUnflag
<1> QED
  BY <1>1, <1>2, <1>3 DEF CommandStep

-----------------------------------------------------------------------------
(* Entries, answers and the handlers they belong to *)

LEMMA InitLocal == Init => Local
<1> SUFFICES ASSUME Init PROVE Local
  OBVIOUS
<1>1. Fresh /\ Filed
  BY DEF Init, Fresh, Filed
<1>2. GrantedSaidYes
  BY DEF Init, GrantedSaidYes, Granted
<1>3. PendingIsAsked /\ YesIsHeeded
  BY DEF Init, PendingIsAsked, YesIsHeeded
<1> QED
  BY <1>1, <1>2, <1>3 DEF Local

LEMMA AskLocal ==
  ASSUME TypeOK, Local, NEW h \in Handlers,
         Register(h) \/ MakeActive(h) \/ MakeFlag(h) \/ Answer(h)
  PROVE  Local' /\ Quiet
<1> USE DEF TypeOK, Local, GoTo, Entry, Places, registries, Quic, Quiet
<1>1. CASE Register(h)
  <2>1. \A g \in Handlers : \/ oneshot'[g] = oneshot[g]
                            \/ oneshot[g] = "open" /\ oneshot'[g] = "dropped"
    BY <1>1 DEF Register
  <2>2. Quiet
    BY <1>1, <2>1 DEF Register
  <2>3. Fresh'
    <3>1. \A g \in Handlers : pc'[g] \in {"idle", "register"} => oneshot'[g] = "open"
      BY <1>1 DEF Register, Fresh, PendingIsAsked
    <3> QED
      BY <1>1, <3>1 DEF Register, Fresh
  <2>4. Filed'
    BY <1>1 DEF Register, Fresh, Filed
  <2>5. GrantedSaidYes'
    BY <1>1 DEF Register, Fresh, GrantedSaidYes, Granted
  <2>6. PendingIsAsked'
    BY <1>1 DEF Register, Fresh, Filed, PendingIsAsked
  <2>7. YesIsHeeded'
    BY <1>1, <2>1 DEF Register, YesIsHeeded, Granted
  <2> QED
    BY <2>2, <2>3, <2>4, <2>5, <2>6, <2>7
<1>2. CASE MakeActive(h)
  <2>1. Fresh' /\ Filed' /\ Quiet
    BY <1>2 DEF MakeActive, Fresh, Filed
  <2>2. GrantedSaidYes'
    BY <1>2 DEF MakeActive, GrantedSaidYes, Granted
  <2>3. PendingIsAsked'
    BY <1>2 DEF MakeActive, PendingIsAsked
  <2>4. YesIsHeeded'
    BY <1>2 DEF MakeActive, YesIsHeeded, Granted
  <2> QED
    BY <2>1, <2>2, <2>3, <2>4
<1>3. CASE MakeFlag(h)
  <2>1. Fresh' /\ Filed' /\ Quiet
    BY <1>3 DEF MakeFlag, Fresh, Filed
  <2>2. GrantedSaidYes'
    BY <1>3 DEF MakeFlag, GrantedSaidYes, Granted
  <2>3. PendingIsAsked'
    BY <1>3 DEF MakeFlag, PendingIsAsked, GrantedSaidYes, Granted
  <2>4. YesIsHeeded'
    BY <1>3 DEF MakeFlag, YesIsHeeded, Granted
  <2> QED
    BY <2>1, <2>2, <2>3, <2>4
<1>4. CASE Accept(h) \/ AcceptTcp(h) \/ ResponseFails(h)
  <2>1. Fresh' /\ Filed' /\ Quiet
    BY <1>4 DEF Accept, AcceptTcp, Write, ResponseFails, Fresh, Filed
  <2>2. GrantedSaidYes'
    BY <1>4 DEF Accept, AcceptTcp, Write, ResponseFails, GrantedSaidYes, Granted
  <2>3. PendingIsAsked'
    BY <1>4 DEF Accept, AcceptTcp, Write, ResponseFails, PendingIsAsked
  <2>4. YesIsHeeded'
    BY <1>4 DEF Accept, AcceptTcp, Write, ResponseFails, YesIsHeeded, Granted
  <2> QED
    BY <2>1, <2>2, <2>3, <2>4
<1>5. CASE Refuse(h)
  <2>1. Fresh' /\ Filed' /\ Quiet
    BY <1>5 DEF Refuse, Fresh, Filed
  <2>2. GrantedSaidYes'
    BY <1>5 DEF Refuse, GrantedSaidYes, Granted
  <2>3. PendingIsAsked'
    BY <1>5 DEF Refuse, PendingIsAsked
  <2>4. YesIsHeeded'
    BY <1>5 DEF Refuse, YesIsHeeded, Granted
  <2> QED
    BY <2>1, <2>2, <2>3, <2>4
<1> QED
  BY <1>1, <1>2, <1>3, <1>4, <1>5 DEF Answer

LEMMA EndLocal ==
  ASSUME TypeOK, Local, NEW h \in Handlers,
         Ends(h) \/ Clean(h) \/ Unlist(h) \/ Unacknowledged(h) \/ Unflag(h) \/ Round(h)
  PROVE  Local' /\ Quiet
<1>1. UNCHANGED <<id, oneshot, pending, approvals>>
  BY DEF Ends, LoopEnds, LoopEndsTcp, WriterFails, CheckFails, Clean, Unlist, Unacknowledged, Unflag, Round, registries
<1>2. pc[h] \in {"loop", "clean", "unlist", "unflag"}
  BY DEF Ends, LoopEnds, LoopEndsTcp, WriterFails, CheckFails, Clean, Unlist, Unacknowledged, Unflag, Round
<1>3. \E place \in {"loop", "clean", "unlist", "unflag", "done"} : pc' = [pc EXCEPT ![h] = place]
  BY DEF Ends, LoopEnds, LoopEndsTcp, WriterFails, CheckFails, Clean, Unlist, Unacknowledged, Unflag, Round, GoTo, TypeOK
<1>4. GrantedSaidYes'
  <2>1. ASSUME NEW how \in {"complete", "failed", "cancelled"}, LoopEnds(h, how)
        PROVE  GrantedSaidYes'
    BY <2>1 DEF LoopEnds, GrantedSaidYes, Granted, Local, TypeOK, GoTo, Quic
  <2>2. CASE WriterFails(h) \/ CheckFails(h)
    BY <2>2 DEF WriterFails, CheckFails, GrantedSaidYes, Granted, Local, TypeOK, GoTo, Quic
  <2>3. CASE Clean(h) \/ Unlist(h) \/ Unflag(h)
    BY <2>3 DEF Clean, Unlist, Unflag, GrantedSaidYes, Granted, Local, TypeOK, GoTo, Quic
  <2>4. CASE Unacknowledged(h)
    BY <2>4 DEF Unacknowledged, GrantedSaidYes, Granted, Local, TypeOK, GoTo, Quic
  <2>5. CASE Round(h)
    BY <2>5 DEF Round, GrantedSaidYes, Granted, Local, TypeOK, Quic
  <2>6. ASSUME NEW how \in {"complete", "failed", "cancelled"}, LoopEndsTcp(h, how)
        PROVE  GrantedSaidYes'
    BY <2>6 DEF LoopEndsTcp, GrantedSaidYes, Granted, Local, TypeOK, GoTo, Quic
  <2> QED
    BY <2>1, <2>2, <2>3, <2>4, <2>5, <2>6 DEF Ends
<1>5. Fresh' /\ Filed' /\ PendingIsAsked'
  BY <1>1, <1>2, <1>3 DEF Local, Fresh, Filed, PendingIsAsked, TypeOK
<1>6. oneshot[h] = "yes" => outcome'[h] \notin {"none", "refused"} \/ pc'[h] = "loop"
  <2> SUFFICES ASSUME oneshot[h] = "yes"
               PROVE  outcome'[h] \notin {"none", "refused"} \/ pc'[h] = "loop"
    OBVIOUS
  <2>1. outcome[h] \notin {"none", "refused"} \/ pc[h] = "loop"
    BY <1>2 DEF Local, YesIsHeeded, Granted
  <2>2. CASE Ends(h)
    BY <2>1, <2>2 DEF Ends, LoopEnds, LoopEndsTcp, WriterFails, CheckFails, TypeOK
  <2>3. CASE Clean(h) \/ Unlist(h) \/ Unflag(h) \/ Round(h)
    BY <2>1, <2>3 DEF Clean, Unlist, Unflag, Round, TypeOK
  <2>4. CASE Unacknowledged(h)
    BY <2>4 DEF Unacknowledged, TypeOK
  <2> QED
    BY <2>2, <2>3, <2>4
<1>7. YesIsHeeded'
  <2>1. \A g \in Handlers \ {h} : pc'[g] = pc[g] /\ outcome'[g] = outcome[g]
    BY DEF Ends, LoopEnds, LoopEndsTcp, WriterFails, CheckFails, Clean, Unlist, Unacknowledged, Unflag, Round, GoTo, TypeOK
  <2> QED
    BY <1>1, <1>6, <2>1 DEF YesIsHeeded, Granted, Local, Quic
<1> QED
  BY <1>1, <1>4, <1>5, <1>7 DEF Local, Quiet

LEMMA BeginLocal ==
  ASSUME TypeOK, Local, NEW h \in Handlers, NEW r \in Ids, Begin(h, r)
  PROVE  Local' /\ Quiet
<1> USE DEF Begin, TypeOK, Local, GoTo, registries
<1>1. Fresh' /\ Filed' /\ Quiet
  BY DEF Fresh, Filed, Quiet
<1>2. GrantedSaidYes'
  BY DEF Fresh, GrantedSaidYes, Granted, Quic
<1>3. PendingIsAsked'
  BY DEF PendingIsAsked
<1>4. YesIsHeeded'
  BY DEF Fresh, YesIsHeeded, Granted, Quic
<1> QED
  BY <1>1, <1>2, <1>3, <1>4

LEMMA UserLocal ==
  ASSUME TypeOK, Local, CommandStep \/ \E r \in Ids : GiveUp(r)
  PROVE  Local' /\ Quiet
  BY DEF CommandStep, Start, Cancel, Delete, CommandUnlist, CommandUnflag, GiveUp, Local, Fresh, Filed, GrantedSaidYes, Granted, PendingIsAsked, YesIsHeeded,
         Quic, Quiet, registries

LEMMA RespondLocal ==
  ASSUME TypeOK, Local, NEW r \in Ids, NEW answer \in {"yes", "no"}, Respond(r, answer)
  PROVE  Local'
<1> USE DEF Respond, TypeOK, Local
<1>1. Fresh' /\ Filed'
  BY DEF Fresh, Filed, PendingIsAsked
<1>2. GrantedSaidYes'
  BY DEF GrantedSaidYes, Granted, Quic
<1>3. PendingIsAsked'
  BY DEF PendingIsAsked, Filed
<1>4. YesIsHeeded'
  BY DEF YesIsHeeded, PendingIsAsked, Granted, Quic
<1> QED
  BY <1>1, <1>2, <1>3, <1>4

-----------------------------------------------------------------------------
(* Counting the answers *)

LEMMA SaidIsFinite == \A r : IsFiniteSet(Said(r))
  BY FS_Subset DEF Said

LEMMA InitCounted == Init => Counted
<1> SUFFICES ASSUME Init, NEW r \in Ids PROVE Cardinality(Said(r)) <= approvals[r]
  BY DEF Counted
<1>1. Said(r) = {}
  BY DEF Init, Said
<1> QED
  BY <1>1, FS_EmptySet DEF Init

\* Nothing is counted twice or lost in a step that answers nobody.
LEMMA QuietCounted ==
  ASSUME Counted, Quiet
  PROVE  Counted'
<1> SUFFICES ASSUME NEW r \in Ids PROVE Cardinality(Said(r)') <= approvals'[r]
  BY DEF Counted
<1>1. Said(r)' = Said(r)
  BY DEF Said, Quiet
<1> QED
  BY <1>1 DEF Counted, Quiet

\* A yes adds the one handler it reached, or none, and counts as an approval.
LEMMA RespondCounted ==
  ASSUME TypeOK, Local, Counted, NEW r \in Ids, NEW answer \in {"yes", "no"}, Respond(r, answer)
  PROVE  Counted'
<1> SUFFICES ASSUME NEW q \in Ids PROVE Cardinality(Said(q)') <= approvals'[q]
  BY DEF Counted
<1> DEFINE reached == pending[r]
<1>1. reached \in Handlers /\ id[reached] = r /\ id' = id
  BY DEF Respond, TypeOK, Local, Filed
<1>2. Cardinality(Said(q)) <= approvals[q] /\ approvals[q] \in Nat
  BY DEF Counted, TypeOK
<1>3. CASE answer = "yes" /\ q = r
  <2>1. Said(q)' \subseteq Said(q) \cup {reached}
    BY <1>1 DEF Respond, TypeOK, Said
  <2>2. IsFiniteSet(Said(q) \cup {reached})
    BY SaidIsFinite, FS_AddElement
  <2>3. Cardinality(Said(q)') <= Cardinality(Said(q) \cup {reached})
    BY <2>1, <2>2, FS_Subset
  <2>4. Cardinality(Said(q) \cup {reached}) <= Cardinality(Said(q)) + 1
    <3>1. /\ Cardinality(Said(q)) \in Nat
          /\ Cardinality(Said(q) \cup {reached}) \in {Cardinality(Said(q)), Cardinality(Said(q)) + 1}
      BY SaidIsFinite, FS_AddElement, FS_CardinalityType, Zenon
    <3> QED
      BY <3>1
  <2>5. approvals'[q] = approvals[q] + 1
    BY <1>3 DEF Respond, TypeOK
  <2>6. /\ Cardinality(Said(q)) \in Nat /\ Cardinality(Said(q)') \in Nat
        /\ Cardinality(Said(q) \cup {reached}) \in Nat
    BY <2>1, <2>2, SaidIsFinite, FS_CardinalityType, FS_Subset
  <2> QED
    BY <1>2, <2>3, <2>4, <2>5, <2>6
<1>4. CASE answer # "yes" \/ q # r
  <2>1. Said(q)' = Said(q)
    BY <1>1, <1>4 DEF Respond, TypeOK, Said
  <2>2. approvals'[q] = approvals[q]
    BY <1>4 DEF Respond, TypeOK
  <2> QED
    BY <1>2, <2>1, <2>2
<1> QED
  BY <1>3, <1>4

-----------------------------------------------------------------------------
(* The entries of the registries *)

LEMMA InitEntries == Init => Entries
<1> SUFFICES ASSUME Init PROVE Entries
  OBVIOUS
<1>1. OwnId /\ Apart /\ Reachable
  BY DEF Init, OwnId, Apart, Running, Reachable, Watched
<1>2. Owed
  BY DEF Init, Owed
<1> QED
  BY <1>1, <1>2 DEF Entries

\* A handler that does not touch the entries of its request keeps what it owes.
LEMMA OwedKept ==
  ASSUME TypeOK, Owed, NEW h \in Handlers, id' = id,
         \A g \in Handlers \ {h} : pc'[g] = pc[g] /\ outcome'[g] = outcome[g],
         flag' = flag \/ flag' = Entry(flag, h, NoOne) \/ (flag' = Entry(flag, h, h) /\ OwesFlag(h)'),
         active' = active \/ active' = Entry(active, h, NoOne)
           \/ (active' = Entry(active, h, h) /\ OwesActive(h)'),
         OwesFlag(h) /\ flag'[id[h]] # NoOne => OwesFlag(h)',
         OwesActive(h) /\ active'[id[h]] # NoOne => OwesActive(h)'
  PROVE  Owed'
<1>1. \A g \in Handlers \ {h} : (OwesFlag(g) => OwesFlag(g)') /\ (OwesActive(g) => OwesActive(g)')
  BY DEF OwesFlag, OwesActive, Quic
<1>2. \A r : About(r)' = About(r)
  BY DEF About
<1> SUFFICES ASSUME NEW r \in Ids
             PROVE  /\ flag'[r] # NoOne => \E g \in About(r) : OwesFlag(g)'
                    /\ active'[r] # NoOne => \E g \in About(r) : OwesActive(g)'
  BY <1>2 DEF Owed
<1>3. ASSUME flag'[r] # NoOne PROVE \E g \in About(r) : OwesFlag(g)'
  <2>1. CASE flag'[r] = flag[r]
    <3>1. PICK g \in About(r) : OwesFlag(g)
      BY <1>3, <2>1 DEF Owed
    <3>2. g \in Handlers /\ id[g] = r
      BY <3>1 DEF About
    <3> QED
      BY <1>1, <1>3, <3>1, <3>2
  <2>2. CASE flag'[r] # flag[r]
    <3>1. id[h] = r /\ OwesFlag(h)'
      BY <1>3, <2>2 DEF Entry, TypeOK
    <3> QED
      BY <3>1 DEF About
  <2> QED
    BY <2>1, <2>2
<1>4. ASSUME active'[r] # NoOne PROVE \E g \in About(r) : OwesActive(g)'
  <2>1. CASE active'[r] = active[r]
    <3>1. PICK g \in About(r) : OwesActive(g)
      BY <1>4, <2>1 DEF Owed
    <3>2. g \in Handlers /\ id[g] = r
      BY <3>1 DEF About
    <3> QED
      BY <1>1, <1>4, <3>1, <3>2
  <2>2. CASE active'[r] # active[r]
    <3>1. id[h] = r /\ OwesActive(h)'
      BY <1>4, <2>2 DEF Entry, TypeOK
    <3> QED
      BY <3>1 DEF About
  <2> QED
    BY <2>1, <2>2
<1> QED
  BY <1>3, <1>4

\* A handler that shared its request with no other finds its flag untouched by
\* the steps of the others.
LEMMA ReachableKept ==
  ASSUME TypeOK, Fresh, Apart, Reachable, NEW h \in Handlers, Running(h), id[h] \in Ids,
         UNCHANGED <<id, cancelled, unheard, met>>, pc' = [pc EXCEPT ![h] = pc'[h]],
         flag' = flag \/ flag' = Entry(flag, h, NoOne) \/ flag' = Entry(flag, h, h),
         Watched(h)' => (Watched(h) /\ flag' = flag) \/ flag'[id[h]] = h
  PROVE  Reachable'
<1> SUFFICES ASSUME NEW g \in Handlers, Watched(g)', g \notin met
             PROVE  flag'[id[g]] = g \/ g \in cancelled \cup unheard
  BY DEF Reachable
<1>1. CASE g = h
  BY <1>1 DEF Reachable
<1>2. CASE g # h
  <2>1. Watched(g) /\ id[g] \in Ids /\ Running(g)
    BY <1>2 DEF Watched, Quic, TypeOK, Fresh, Running
  <2>2. id[g] # id[h]
    BY <1>2, <2>1 DEF Apart
  <2>3. flag'[id[g]] = flag[id[g]]
    BY <2>1, <2>2 DEF Entry, TypeOK
  <2> QED
    BY <2>1, <2>3 DEF Reachable
<1> QED
  BY <1>1, <1>2

\* What a step of a handler does to the entries of its own request.
OwnEntries(h) ==
  /\ flag' = flag \/ flag' = Entry(flag, h, NoOne) \/ (flag' = Entry(flag, h, h) /\ OwesFlag(h)')
  /\ OwesFlag(h) => OwesFlag(h)' \/ flag' = Entry(flag, h, NoOne)
  /\ active' = active \/ active' = Entry(active, h, NoOne)
       \/ (active' = Entry(active, h, h) /\ OwesActive(h)')
  /\ OwesActive(h) => OwesActive(h)' \/ active' = Entry(active, h, NoOne)
  /\ Watched(h)' => (Watched(h) /\ flag' = flag) \/ flag' = Entry(flag, h, h)

LEMMA OwnPlaceOnly ==
  ASSUME TypeOK, Fresh, OwnId, NEW h \in Handlers, Step(h) \/ Round(h)
  PROVE  /\ UNCHANGED <<id, cancelled, unheard, met>> /\ id[h] \in Ids /\ Running(h)
         /\ pc' = [pc EXCEPT ![h] = pc'[h]]
         /\ \A g \in Handlers \ {h} : pc'[g] = pc[g] /\ outcome'[g] = outcome[g]
         /\ outcome'[h] = "lost" => pc'[h] = "done"
  BY DEF Register, MakeActive, MakeFlag, Accept, AcceptTcp, Write, ResponseFails, Refuse,
     WriterFails, CheckFails, Clean, Unlist, Unacknowledged, Unflag, Round, LoopEnds, LoopEndsTcp,
     GoTo, Step, Answer, Ends, TypeOK, Fresh, OwnId, Running, user

LEMMA OwnEntriesOnly ==
  ASSUME TypeOK, OwnId, NEW h \in Handlers, id' = id, Step(h) \/ Round(h)
  PROVE  OwnEntries(h)
<1>l. outcome[h] = "lost" => pc[h] = "done"
  BY DEF OwnId
<1>1. CASE Register(h)
  <2>1. pc[h] = "register" /\ pc'[h] = (IF Quic(h) THEN "list" ELSE "wait") /\ outcome'[h] = outcome[h]
    BY <1>1 DEF Register, GoTo, TypeOK, registries
  <2>2. flag' = flag /\ active' = active
    BY <1>1 DEF Register, GoTo, TypeOK, registries
  <2> QED
    BY <1>l, <2>1, <2>2 DEF OwnEntries, OwesFlag, OwesActive, Watched, Quic
<1>2. CASE MakeActive(h)
  <2>1. pc[h] = "list" /\ pc'[h] = "flag" /\ outcome'[h] = outcome[h]
    BY <1>2 DEF MakeActive, GoTo, TypeOK, registries
  <2>2. flag' = flag /\ active' = Entry(active, h, h)
    BY <1>2 DEF MakeActive, GoTo, TypeOK, registries
  <2> QED
    BY <1>l, <2>1, <2>2 DEF OwnEntries, OwesFlag, OwesActive, Watched, Quic
<1>3. CASE MakeFlag(h)
  <2>1. pc[h] = "flag" /\ pc'[h] = (IF Quic(h) THEN "wait" ELSE "loop") /\ outcome'[h] = outcome[h]
    BY <1>3 DEF MakeFlag, GoTo, TypeOK, registries
  <2>2. flag' = Entry(flag, h, h) /\ active' = active
    BY <1>3 DEF MakeFlag, GoTo, TypeOK, registries
  <2> QED
    BY <1>l, <2>1, <2>2 DEF OwnEntries, OwesFlag, OwesActive, Watched, Quic
<1>4. CASE Accept(h)
  <2>1. pc[h] = "wait" /\ Quic(h) /\ pc'[h] = "loop" /\ outcome'[h] = outcome[h]
    BY <1>4 DEF Accept, Write, GoTo, TypeOK, registries
  <2>2. flag' = flag /\ active' = active
    BY <1>4 DEF Accept, Write, GoTo, TypeOK, registries
  <2> QED
    BY <1>l, <2>1, <2>2 DEF OwnEntries, OwesFlag, OwesActive, Watched, Quic
<1>5. CASE AcceptTcp(h)
  <2>1. pc[h] = "wait" /\ ~Quic(h) /\ pc'[h] = "list" /\ outcome'[h] = outcome[h]
    BY <1>5 DEF AcceptTcp, Write, GoTo, TypeOK, registries
  <2>2. flag' = flag /\ active' = active
    BY <1>5 DEF AcceptTcp, Write, GoTo, TypeOK, registries
  <2> QED
    BY <1>l, <2>1, <2>2 DEF OwnEntries, OwesFlag, OwesActive, Watched, Quic
<1>6. CASE ResponseFails(h)
  <2>1. pc[h] = "wait" /\ pc'[h] = "done" /\ outcome'[h] = "lost"
    BY <1>6 DEF ResponseFails, GoTo, TypeOK, registries
  <2>2. flag' = flag /\ active' = active
    BY <1>6 DEF ResponseFails, GoTo, TypeOK, registries
  <2> QED
    BY <1>l, <2>1, <2>2 DEF OwnEntries, OwesFlag, OwesActive, Watched, Quic
<1>7. CASE Refuse(h)
  <2>1. pc[h] = "wait" /\ pc'[h] = (IF Quic(h) THEN "unlist" ELSE "done") /\ outcome'[h] = "refused"
    BY <1>7 DEF Refuse, GoTo, TypeOK, registries
  <2>2. flag' = flag /\ active' = active
    BY <1>7 DEF Refuse, GoTo, TypeOK, registries
  <2> QED
    BY <1>l, <2>1, <2>2 DEF OwnEntries, OwesFlag, OwesActive, Watched, Quic
<1>8. CASE WriterFails(h)
  <2>1. pc[h] = "loop" /\ pc'[h] = "done" /\ outcome'[h] = "lost"
    BY <1>8 DEF WriterFails, GoTo, TypeOK, registries
  <2>2. flag' = flag /\ active' = active
    BY <1>8 DEF WriterFails, GoTo, TypeOK, registries
  <2> QED
    BY <1>l, <2>1, <2>2 DEF OwnEntries, OwesFlag, OwesActive, Watched, Quic
<1>9. CASE CheckFails(h)
  <2>1. pc[h] = "clean" /\ pc'[h] = "clean" /\ outcome'[h] = "failed"
    BY <1>9 DEF CheckFails, GoTo, TypeOK, registries
  <2>2. flag' = flag /\ active' = Entry(active, h, NoOne)
    BY <1>9 DEF CheckFails, GoTo, TypeOK, registries
  <2> QED
    BY <1>l, <2>1, <2>2 DEF OwnEntries, OwesFlag, OwesActive, Watched, Quic
<1>10. CASE Clean(h)
  <2>1. pc[h] = "clean" /\ pc'[h] = "unlist" /\ outcome'[h] = outcome[h]
    BY <1>10 DEF Clean, GoTo, TypeOK, registries
  <2>2. flag' = flag /\ active' = active
    BY <1>10 DEF Clean, GoTo, TypeOK, registries
  <2> QED
    BY <1>l, <2>1, <2>2 DEF OwnEntries, OwesFlag, OwesActive, Watched, Quic
<1>11. CASE Unlist(h)
  <2>1. pc[h] = "unlist" /\ pc'[h] = (IF outcome[h] = "refused" THEN "unflag" ELSE "done") /\ outcome'[h] = outcome[h]
    BY <1>11 DEF Unlist, GoTo, TypeOK, registries
  <2>2. flag' = flag /\ active' = Entry(active, h, NoOne)
    BY <1>11 DEF Unlist, GoTo, TypeOK, registries
  <2> QED
    BY <1>l, <2>1, <2>2 DEF OwnEntries, OwesFlag, OwesActive, Watched, Quic
<1>12. CASE Unacknowledged(h)
  <2>1. pc[h] = "unlist" /\ pc'[h] = "done" /\ outcome'[h] = "lost"
    BY <1>12 DEF Unacknowledged, GoTo, TypeOK, registries
  <2>2. flag' = flag /\ active' = active
    BY <1>12 DEF Unacknowledged, GoTo, TypeOK, registries
  <2> QED
    BY <1>l, <2>1, <2>2 DEF OwnEntries, OwesFlag, OwesActive, Watched, Quic
<1>13. CASE Unflag(h)
  <2>1. pc[h] = "unflag" /\ pc'[h] = "done" /\ outcome'[h] = outcome[h]
    BY <1>13 DEF Unflag, GoTo, TypeOK, registries
  <2>2. flag' = Entry(flag, h, NoOne) /\ active' = active
    BY <1>13 DEF Unflag, GoTo, TypeOK, registries
  <2> QED
    BY <1>l, <2>1, <2>2 DEF OwnEntries, OwesFlag, OwesActive, Watched, Quic
<1>14. CASE Round(h)
  <2>1. pc[h] = "loop" /\ pc'[h] = "loop" /\ outcome'[h] = outcome[h]
    BY <1>14 DEF Round, GoTo, TypeOK, registries
  <2>2. flag' = flag /\ active' = active
    BY <1>14 DEF Round, GoTo, TypeOK, registries
  <2> QED
    BY <1>l, <2>1, <2>2 DEF OwnEntries, OwesFlag, OwesActive, Watched, Quic
<1>15. ASSUME NEW how \in {"complete", "failed", "cancelled"}, LoopEnds(h, how) PROVE OwnEntries(h)
  <2>1. pc[h] = "loop" /\ pc'[h] = "clean" /\ outcome'[h] # "lost"
    BY <1>15 DEF LoopEnds, GoTo, TypeOK, registries
  <2>2. flag' = Entry(flag, h, NoOne) /\ active' = active
    BY <1>15 DEF LoopEnds, GoTo, TypeOK, registries
  <2> QED
    BY <1>l, <2>1, <2>2 DEF OwnEntries, OwesFlag, OwesActive, Watched, Quic
<1>16. ASSUME NEW how \in {"complete", "failed", "cancelled"}, LoopEndsTcp(h, how) PROVE OwnEntries(h)
  <2>1. pc[h] = "loop" /\ pc'[h] = "clean" /\ outcome'[h] # "lost"
    BY <1>16 DEF LoopEndsTcp, GoTo, TypeOK, registries
  <2>2. flag' = Entry(flag, h, NoOne) /\ active' \in {active, Entry(active, h, NoOne)}
    BY <1>16 DEF LoopEndsTcp, GoTo, TypeOK, registries
  <2> QED
    BY <1>l, <2>1, <2>2 DEF OwnEntries, OwesFlag, OwesActive, Watched, Quic
<1> QED
  BY <1>1, <1>2, <1>3, <1>4, <1>5, <1>6, <1>7, <1>8, <1>9, <1>10, <1>11, <1>12, <1>13, <1>14, <1>15, <1>16 DEF Step, Answer, Ends

LEMMA HandlerEntries ==
  ASSUME TypeOK, Fresh, Entries, NEW h \in Handlers, Step(h) \/ Round(h)
  PROVE  Entries'
<1>1. /\ UNCHANGED <<id, cancelled, unheard, met>> /\ id[h] \in Ids /\ Running(h)
      /\ pc' = [pc EXCEPT ![h] = pc'[h]]
      /\ \A g \in Handlers \ {h} : pc'[g] = pc[g] /\ outcome'[g] = outcome[g]
      /\ outcome'[h] = "lost" => pc'[h] = "done"
  BY OwnPlaceOnly DEF Entries
<1>2. OwnEntries(h)
  BY <1>1, OwnEntriesOnly DEF Entries
<1>3. OwnId'
  BY <1>1 DEF Entries, OwnId
<1>4. Entry(flag, h, NoOne)[id[h]] = NoOne /\ Entry(active, h, NoOne)[id[h]] = NoOne
      /\ Entry(flag, h, h)[id[h]] = h
  BY <1>1 DEF OwnEntries, Entry, TypeOK
<1>5. Owed'
  BY <1>1, <1>2, <1>4, OwedKept DEF OwnEntries, Entries
<1>6. Reachable'
  <2>1. Watched(h)' => (Watched(h) /\ flag' = flag) \/ flag'[id[h]] = h
    BY <1>2, <1>4 DEF OwnEntries
  <2>2. flag' = flag \/ flag' = Entry(flag, h, NoOne) \/ flag' = Entry(flag, h, h)
    BY <1>2 DEF OwnEntries
  <2> QED
    BY <1>1, <2>1, <2>2, ReachableKept DEF Entries
<1>7. Apart'
  BY <1>1 DEF Entries, Apart, Running
<1> QED
  BY <1>3, <1>5, <1>6, <1>7 DEF Entries

LEMMA BeginEntries ==
  ASSUME TypeOK, Entries, NEW h \in Handlers, NEW r \in Requests \cup {h}, Begin(h, r)
  PROVE  Entries'
<1>1. OwnId'
  BY DEF Begin, GoTo, TypeOK, Entries, OwnId
<1>2. pc[h] = "idle" /\ outcome[h] # "lost" /\ pc'[h] = "register"
      /\ UNCHANGED <<flag, active, outcome, cancelled>>
      /\ \A g \in Handlers \ {h} : id'[g] = id[g] /\ pc'[g] = pc[g]
  BY DEF Begin, GoTo, TypeOK, Entries, OwnId, registries
<1>3. Owed'
  BY <1>2 DEF Entries, Owed, About, OwesFlag, OwesActive, Quic
<1>4. Reachable'
  <2>1. met \subseteq met' /\ unheard' = unheard
    BY DEF Begin, user
  <2> QED
    BY <1>2, <2>1 DEF Entries, Reachable, Watched, Quic
<1>5. Apart'
  <2> SUFFICES ASSUME NEW g \in Handlers, NEW k \in Handlers, g # k, id'[g] = id'[k],
                      Running(g)', Running(k)'
               PROVE  k \in met'
    BY DEF Apart
  <2> DEFINE others == {o \in About(r) : Running(o)}
  <2>1. met' = met \cup others \cup {o \in {h} : others # {}} /\ id'[h] = r
    BY DEF Begin, TypeOK
  <2>2. CASE g # h /\ k # h
    <3>1. k \in met
      BY <1>2, <2>2 DEF Entries, Apart, Running
    <3> QED
      BY <2>1, <3>1
  <2>3. CASE k = h
    <3>1. g \in others
      BY <1>2, <2>1, <2>3 DEF About, Running
    <3> QED
      BY <2>1, <2>3, <3>1
  <2>4. CASE g = h
    <3>1. k \in others
      BY <1>2, <2>1, <2>4 DEF About, Running
    <3> QED
      BY <2>1, <3>1
  <2> QED
    BY <2>2, <2>3, <2>4
<1> QED
  BY <1>1, <1>3, <1>4, <1>5 DEF Entries

LEMMA UserEntries ==
  ASSUME TypeOK, Fresh, Entries,
         CommandStep \/ \E r \in Ids : GiveUp(r) \/ \E answer \in {"yes", "no"} : Respond(r, answer)
  PROVE  Entries'
<1> USE DEF CommandStep, Start, Cancel, Delete, CommandUnlist, CommandUnflag, GiveUp, Respond
<1>1. UNCHANGED <<pc, id, outcome, met>> /\ cancelled \subseteq cancelled' /\ unheard \subseteq unheard'
  BY DEF user
<1>2. \A q \in Ids : /\ flag'[q] = flag[q] \/ (flag'[q] = NoOne /\ flag[q] \in cancelled' \cup unheard' \cup {NoOne})
                     /\ active'[q] \in {active[q], NoOne}
  <2>1. flag \in [Ids -> Handlers \cup {NoOne}] /\ active \in [Ids -> Handlers \cup {NoOne}]
    BY DEF TypeOK
  <2>2. CASE CommandUnflag
    <3>1. /\ flag' = [flag EXCEPT ![command.id] = NoOne] /\ active' = active
          /\ flag[command.id] \in cancelled' \cup unheard' \cup {NoOne}
      BY <2>2
    <3> QED
      BY <2>1, <3>1
  <2>3. CASE CommandUnlist
    <3>1. active' = [active EXCEPT ![command.id] = NoOne] /\ flag' = flag
      BY <2>3
    <3> QED
      BY <2>1, <3>1
  <2>4. CASE ~CommandUnflag /\ ~CommandUnlist
    <3>1. flag' = flag /\ active' = active
      BY <2>4 DEF registries
    <3> QED
      BY <3>1
  <2> QED
    BY <2>2, <2>3, <2>4
<1>3. OwnId' /\ Apart'
  BY <1>1 DEF Entries, OwnId, Apart, Running
<1>4. Owed'
  BY <1>1, <1>2 DEF Entries, Owed, About, OwesFlag, OwesActive, Quic
<1>5. Reachable'
  <2>1. \A h \in Handlers : Watched(h) => id[h] \in Ids
    BY DEF Watched, Fresh
  <2>2. \A h \in Handlers : Watched(h) /\ flag[id[h]] = h => flag'[id[h]] = h \/ h \in cancelled' \cup unheard'
    BY <1>2, <2>1
  <2> QED
    BY <1>1, <2>2 DEF Entries, Reachable, Watched, Quic
<1> QED
  BY <1>3, <1>4, <1>5 DEF Entries

LEMMA StepInv ==
  ASSUME Inv, Next
  PROVE  Inv'
<1> USE DEF Inv
<1>1. ASSUME TypeOK', Local', Quiet, Entries' PROVE Inv'
  BY <1>1, QuietCounted
<1>2. ASSUME NEW h \in Handlers, Step(h) \/ Round(h) PROVE Inv'
  <2>e. Entries'
    BY <1>2, HandlerEntries DEF Local
  <2>1. CASE Register(h) \/ MakeActive(h) \/ MakeFlag(h) \/ Answer(h)
    BY <1>1, <2>e, <2>1, AskTypes, AskLocal DEF Local
  <2>2. CASE Ends(h) \/ Clean(h) \/ Unlist(h) \/ Unacknowledged(h) \/ Unflag(h) \/ Round(h)
    BY <1>1, <2>e, <2>2, EndTypes, EndLocal DEF Local
  <2> QED
    BY <1>2, <2>1, <2>2 DEF Step
<1>3. ASSUME NEW h \in Handlers, NEW r \in Requests \cup {h}, Begin(h, r) PROVE Inv'
  BY <1>1, <1>3, OutsideTypes, BeginLocal, BeginEntries
<1>4. CASE CommandStep \/ \E r \in Ids : GiveUp(r)
  BY <1>1, <1>4, CommandTypes, OutsideTypes, UserLocal, UserEntries DEF Local
<1>5. ASSUME NEW r \in Ids, NEW answer \in {"yes", "no"}, Respond(r, answer) PROVE Inv'
  BY <1>5, OutsideTypes, RespondLocal, RespondCounted, UserEntries DEF Local
<1> QED
  BY <1>2, <1>3, <1>4, <1>5 DEF Next, Connect, ConnectTcp, CommandStep

LEMMA StutterInv == Inv /\ UNCHANGED vars => Inv'
<1> SUFFICES ASSUME Inv, UNCHANGED vars PROVE Inv'
  OBVIOUS
<1> USE DEF Inv, vars, registries, user
<1>1. TypeOK'
  BY DEF TypeOK
<1>2. Local'
  BY DEF Local, Fresh, Filed, GrantedSaidYes, PendingIsAsked, YesIsHeeded, Granted, Quic
<1>3. Counted'
  BY QuietCounted DEF Quiet
<1>4. Entries'
  BY DEF Entries, OwnId, Owed, Apart, Running, Reachable, OwesFlag, OwesActive, Watched, About, Quic
<1> QED
  BY <1>1, <1>2, <1>3, <1>4

LEMMA InvAlways == Spec => []Inv
<1>1. Init => Inv
  BY InitTypes, InitLocal, InitCounted, InitEntries DEF Inv
<1>2. Inv /\ [Next]_vars => Inv'
  BY StepInv, StutterInv
<1> QED
  BY <1>1, <1>2, PTL DEF Spec

-----------------------------------------------------------------------------
(* The theorems *)

\* The type invariant: the registries, the channels and the flags of any
\* number of handlers.
THEOREM TypeCorrect == Spec => []TypeOK
  BY InvAlways, PTL DEF Inv

\* What get_pending_transfers lists is still asked, or has run into its 60
\* seconds, however many handlers a retrying sender leaves behind.
THEOREM ListedIsAsked == Spec => []PendingIsAsked
  BY InvAlways, PTL DEF Inv, Local

\* respond lets at most one handler write, whatever the order of answers,
\* deadlines, retries and cancels.
THEOREM ApprovedOnce == Spec => []OneTransferPerApproval
<1>1. Inv => OneTransferPerApproval
  <2> SUFFICES ASSUME Inv, NEW r \in Ids
               PROVE  Cardinality({h \in About(r) : Granted(h)}) <= approvals[r]
    BY DEF OneTransferPerApproval
  <2> DEFINE writing == {h \in About(r) : Granted(h)}
  <2>1. writing \subseteq Said(r)
    BY DEF Inv, Local, GrantedSaidYes, About, Said
  <2>2. Cardinality(writing) <= Cardinality(Said(r)) /\ IsFiniteSet(writing)
    BY <2>1, SaidIsFinite, FS_Subset
  <2>3. Cardinality(writing) \in Nat /\ Cardinality(Said(r)) \in Nat
    BY <2>2, SaidIsFinite, FS_CardinalityType
  <2>4. Cardinality(Said(r)) <= approvals[r] /\ approvals[r] \in Nat
    BY DEF Inv, Counted, TypeOK
  <2> QED
    BY <2>2, <2>3, <2>4
<1> QED
  BY InvAlways, <1>1, PTL

\* The user's yes leads to a transfer by the handler it reached, and is not
\* overtaken by the deadline or by a retry that registers the request again.
THEOREM AnswerCounts == Spec => []YesIsHeeded
  BY InvAlways, PTL DEF Inv, Local

\* A handler that receives, and that shared its request with no other while it ran,
\* has its own flag in TRANSFER_PAUSE_FLAGS, whatever earlier connections of the
\* request left there, and until a command, step by step, takes it out.
THEOREM LoopIsReachable == Spec => []ReachableByUser
<1>1. Inv => ReachableByUser
  BY DEF Inv, Entries, Reachable, Watched, ReachableByUser
<1> QED
  BY InvAlways, <1>1, PTL

\* A request whose handlers have all ended is in neither registry, unless the disk
\* or a reply failed one of them, however their steps interleaved.
THEOREM LastOneCleans == Spec => []NothingRegistered
<1>1. Inv => NothingRegistered
  <2> SUFFICES ASSUME Inv, NEW r \in Ids,
                      \A h \in About(r) : pc[h] \in {"idle", "done"} /\ outcome[h] # "lost"
               PROVE  flag[r] = NoOne /\ active[r] = NoOne
    BY DEF NothingRegistered
  <2>1. \A h \in About(r) : ~OwesFlag(h) /\ ~OwesActive(h)
    BY DEF OwesFlag, OwesActive
  <2> QED
    BY <2>1 DEF Inv, Entries, Owed
<1> QED
  BY InvAlways, <1>1, PTL
=============================================================================
