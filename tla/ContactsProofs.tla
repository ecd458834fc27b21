---------------------------- MODULE ContactsProofs ----------------------------
(***************************************************************************)
(* What discovery lists and what the contact commands save, for any number  *)
(* of devices, addresses, ticks of timeout and users' edits.                *)
(*                                                                          *)
(* ListedIffHeard is not inductive. Its strengthening, Ages, ties the age   *)
(* of a peer to the time since its last beacon and bounds it by the time    *)
(* left to the next cleaning; ContactAsSaved needs that whatever a command  *)
(* under way has read is what the user saved (Rows).                        *)
(***************************************************************************)
EXTENDS Contacts, TLAPS

USE DiscoveryAssumption, ContactAssumption

\* How far the owner of the service has come, and what its tasks can rely on.
Service ==
  /\ caller = "off" => tasks = {} /\ DOMAIN peers = {} /\ heard = [a \in Addrs |-> LongAgo]
  /\ caller = "on" => running /\ tasks = Tasks

Ages ==
  caller = "on" =>
    \A a \in Addrs :
      /\ heard[a] <= Timeout => a \in DOMAIN peers
      /\ a \in DOMAIN peers => /\ peers[a].age = heard[a]
                               /\ heard[a] + cleanIn <= Timeout + CleanEvery

DiscoveryInv == DiscoveryTypeOK /\ Service /\ Ages

LEMMA OlderType ==
  ASSUME NEW age \in 0..LongAgo
  PROVE  Older(age) \in 0..LongAgo
  BY DEF Older, LongAgo

\* A peer stays a peer when its age, or its age and its id, are set.
LEMMA AgedType ==
  ASSUME NEW Names, NEW age \in 0..LongAgo,
         NEW p \in [name : Names, id : Devices \cup {NoId}, age : 0..LongAgo]
  PROVE  /\ [p EXCEPT !.age = age] \in [name : Names, id : Devices \cup {NoId}, age : 0..LongAgo]
         /\ [p EXCEPT !.age = age].age = age
  OBVIOUS

LEMMA TouchedType ==
  ASSUME NEW Names, NEW d \in Devices,
         NEW p \in [name : Names, id : Devices \cup {NoId}, age : 0..LongAgo]
  PROVE  /\ Touched(p, d) \in [name : Names, id : Devices \cup {NoId}, age : 0..LongAgo]
         /\ Touched(p, d).age = 0
<1> DEFINE id == IF d \in WithId THEN d ELSE p.id
<1>1. id \in Devices \cup {NoId} /\ 0 \in 0..LongAgo
  BY DEF LongAgo
<1>2. Touched(p, d) = [p EXCEPT !.age = 0, !.id = id]
  BY DEF Touched
<1> HIDE DEF id
<1> QED
  BY <1>1, <1>2

LEMMA InitInv == DiscoveryInit => DiscoveryInv
<1> SUFFICES ASSUME DiscoveryInit PROVE DiscoveryInv
  OBVIOUS
<1>1. DOMAIN peers = {}
  BY DEF DiscoveryInit
<1>2. DiscoveryTypeOK
  <2>1. peers \in [DOMAIN peers -> Peers]
    BY <1>1 DEF DiscoveryInit
  <2>2. cleanIn \in 0..CleanEvery /\ LongAgo \in 0..LongAgo
    BY DEF DiscoveryInit, LongAgo
  <2> QED
    BY <1>1, <2>1, <2>2 DEF DiscoveryInit, DiscoveryTypeOK, Tasks
<1>3. Service /\ Ages
  BY <1>1 DEF DiscoveryInit, Service, Ages
<1> QED
  BY <1>2, <1>3 DEF DiscoveryInv

\* A beacon is noted under its address, as new as can be.
LEMMA HearInv ==
  ASSUME DiscoveryInv, NEW d \in Devices, Hear(d)
  PROVE  DiscoveryInv'
<1> USE DEF DiscoveryInv
<1>1. where[d] \in Addrs
  BY DEF Hear, DiscoveryTypeOK
<1>2. NewPeer(d) \in Peers /\ NewPeer(d).age = 0
  BY DEF NewPeer, Peers, IdOf, LongAgo
<1>3. \A p \in Peers : Touched(p, d) \in Peers /\ Touched(p, d).age = 0
  BY TouchedType DEF Peers
<1>4. /\ DOMAIN peers' = DOMAIN peers \cup {where[d]}
      /\ peers'[where[d]] \in Peers /\ peers'[where[d]].age = 0
      /\ \A a \in DOMAIN peers \ {where[d]} : peers'[a] = peers[a]
  BY <1>2, <1>3 DEF Hear, Noted, DiscoveryTypeOK
<1>5. peers' \in [DOMAIN peers' -> Peers]
  <2>1. peers' = [a \in DOMAIN peers' |-> peers'[a]]
    BY DEF Hear, Noted
  <2>2. \A a \in DOMAIN peers' : peers'[a] \in Peers
    BY <1>4 DEF DiscoveryTypeOK
  <2> QED
    BY <2>1, <2>2
<1>6. heard' \in [Addrs -> 0..LongAgo] /\ heard'[where[d]] = 0
      /\ \A a \in Addrs \ {where[d]} : heard'[a] = heard[a]
  BY <1>1 DEF Hear, DiscoveryTypeOK, LongAgo
<1>7. tasks' \subseteq tasks /\ (running => tasks' = tasks)
  BY DEF Hear, ListenerGoesRound
<1>8. DiscoveryTypeOK'
  BY <1>1, <1>4, <1>5, <1>6, <1>7 DEF Hear, DiscoveryTypeOK
<1>9. Service'
  BY <1>7 DEF Hear, Service
<1>10. Ages'
  <2> SUFFICES ASSUME caller = "on", NEW a \in Addrs
               PROVE  /\ heard'[a] <= Timeout => a \in DOMAIN peers'
                      /\ a \in DOMAIN peers' => /\ peers'[a].age = heard'[a]
                                                /\ heard'[a] + cleanIn <= Timeout + CleanEvery
    BY DEF Ages, Hear
  <2>1. CASE a = where[d]
    BY <2>1, <1>4, <1>6 DEF DiscoveryTypeOK
  <2>2. CASE a # where[d]
    BY <2>2, <1>4, <1>6 DEF Ages
  <2> QED
    BY <2>1, <2>2
<1> QED
  BY <1>8, <1>9, <1>10

\* A cleaning drops those that are too old, and those only.
LEMMA CleanInv == DiscoveryInv /\ Clean => DiscoveryInv'
<1> SUFFICES ASSUME DiscoveryInv, Clean PROVE DiscoveryInv'
  OBVIOUS
<1> USE DEF DiscoveryInv
<1>1. /\ DOMAIN peers' = {b \in DOMAIN peers : ~(peers[b].age > Timeout)}
      /\ \A a \in DOMAIN peers' : peers'[a] = peers[a]
      /\ peers' = [a \in DOMAIN peers' |-> peers[a]]
  BY DEF Clean, IsStale
<1>2. DiscoveryTypeOK'
  BY <1>1 DEF Clean, DiscoveryTypeOK
<1>3. Service'
  BY DEF Clean, Service
<1>4. Ages'
  BY <1>1 DEF Clean, Ages, DiscoveryTypeOK
<1> QED
  BY <1>2, <1>3, <1>4

\* All ages grow together, and the cleaning task comes closer by as much.
LEMMA TickInv == DiscoveryInv /\ Tick => DiscoveryInv'
<1> SUFFICES ASSUME DiscoveryInv, Tick PROVE DiscoveryInv'
  OBVIOUS
<1> USE DEF DiscoveryInv
<1>1. /\ DOMAIN peers' = DOMAIN peers
      /\ \A a \in DOMAIN peers : peers'[a] = [peers[a] EXCEPT !.age = Older(@)]
      /\ peers' = [a \in DOMAIN peers |-> [peers[a] EXCEPT !.age = Older(@)]]
  BY DEF Tick
<1>2. \A a \in DOMAIN peers : peers'[a] \in Peers /\ peers'[a].age = Older(peers[a].age)
  <2> SUFFICES ASSUME NEW a \in DOMAIN peers
               PROVE  peers'[a] \in Peers /\ peers'[a].age = Older(peers[a].age)
    OBVIOUS
  <2>1. peers[a] \in Peers
    BY DEF DiscoveryTypeOK
  <2>2. peers[a].age \in 0..LongAgo
    BY <2>1 DEF Peers
  <2>3. Older(peers[a].age) \in 0..LongAgo
    BY <2>2, OlderType
  <2> QED
    BY <1>1, <2>1, <2>3, AgedType DEF Peers
<1>3. heard' \in [Addrs -> 0..LongAgo] /\ \A a \in Addrs : heard'[a] = Older(heard[a])
  BY OlderType DEF Tick, DiscoveryTypeOK
<1>4. cleanIn' \in 0..CleanEvery
  BY DEF Tick, DiscoveryTypeOK
<1>5. DiscoveryTypeOK'
  BY <1>1, <1>2, <1>3, <1>4 DEF Tick, DiscoveryTypeOK
<1>6. Service'
  <2>1. caller = "off" => heard' = [a \in Addrs |-> LongAgo]
    <3> SUFFICES ASSUME caller = "off" PROVE heard' = [a \in Addrs |-> LongAgo]
      OBVIOUS
    <3>1. \A a \in Addrs : heard[a] = LongAgo
      BY DEF Service
    <3>2. \A a \in Addrs : Older(heard[a]) = LongAgo
      BY <3>1 DEF Older, LongAgo
    <3> QED
      BY <3>2 DEF Tick
  <2> QED
    BY <1>1, <2>1 DEF Tick, Service
<1>7. Ages'
  <2> SUFFICES ASSUME caller = "on", NEW a \in Addrs
               PROVE  /\ heard'[a] <= Timeout => a \in DOMAIN peers'
                      /\ a \in DOMAIN peers' => /\ peers'[a].age = heard'[a]
                                                /\ heard'[a] + cleanIn' <= Timeout + CleanEvery
    BY DEF Ages, Tick
  <2>1. cleanIn > 0 /\ cleanIn' = cleanIn - 1 /\ heard[a] \in 0..LongAgo
        /\ cleanIn \in 0..CleanEvery
    BY DEF Tick, Service, Tasks, DiscoveryTypeOK
  <2>2. heard'[a] <= Timeout => a \in DOMAIN peers'
    BY <1>1, <1>3, <2>1 DEF Ages, Older, LongAgo
  <2>3. ASSUME a \in DOMAIN peers'
        PROVE  peers'[a].age = heard'[a] /\ heard'[a] + cleanIn' <= Timeout + CleanEvery
    BY <1>1, <1>2, <1>3, <2>1, <2>3 DEF Ages, Older, LongAgo
  <2> QED
    BY <2>2, <2>3
<1> QED
  BY <1>5, <1>6, <1>7

\* The steps that leave the table alone.
LEMMA QuietInv ==
  DiscoveryInv /\ (Start \/ HearNoise \/ BeaconEnds \/ Stop \/ StopReturn \/ Drop) => DiscoveryInv'
<1> SUFFICES ASSUME DiscoveryInv PROVE
      Start \/ HearNoise \/ BeaconEnds \/ Stop \/ StopReturn \/ Drop => DiscoveryInv'
  OBVIOUS
<1> USE DEF DiscoveryInv
<1>1. ASSUME Start PROVE DiscoveryInv'
  BY <1>1 DEF Start, DiscoveryTypeOK, Service, Ages, Tasks, LongAgo
<1>2. ASSUME HearNoise PROVE DiscoveryInv'
  BY <1>2 DEF HearNoise, ListenerGoesRound, DiscoveryTypeOK, Service, Ages
<1>3. ASSUME BeaconEnds PROVE DiscoveryInv'
  BY <1>3 DEF BeaconEnds, DiscoveryTypeOK, Service, Ages
<1>4. ASSUME Stop \/ StopReturn \/ Drop PROVE DiscoveryInv'
  BY <1>4 DEF Stop, StopReturn, Drop, DiscoveryTypeOK, Service, Ages, Tasks
<1> QED
  BY <1>1, <1>2, <1>3, <1>4

LEMMA MoveInv ==
  ASSUME DiscoveryInv, NEW d \in Devices, NEW a \in Addrs \cup {Nowhere}, Move(d, a)
  PROVE  DiscoveryInv'
  BY DEF DiscoveryInv, Move, DiscoveryTypeOK, Service, Ages

LEMMA DiscoveryStep == DiscoveryInv /\ [DiscoveryNext]_discoveryVars => DiscoveryInv'
<1> SUFFICES ASSUME DiscoveryInv, [DiscoveryNext]_discoveryVars PROVE DiscoveryInv'
  OBVIOUS
<1>1. CASE UNCHANGED discoveryVars
  BY <1>1 DEF discoveryVars, DiscoveryInv, DiscoveryTypeOK, Service, Ages
<1>2. CASE DiscoveryNext
  BY <1>2, HearInv, CleanInv, TickInv, QuietInv, MoveInv DEF DiscoveryNext
<1> QED
  BY <1>1, <1>2

-----------------------------------------------------------------------------
\* What a command under way has read is the row the user saved.
Rows ==
  ~overlapped =>
    /\ contact = saved
    /\ listing \in {NoContact, saved}
    /\ sending # "off" => chosen = saved
    /\ sending = "look" => current = saved

RowTypes ==
  /\ {contact, listing, chosen, current, saved} \subseteq Ids \cup {NoContact}
  /\ sending \in {"off", "top", "look"}
  /\ overlapped \in BOOLEAN

Inv == DiscoveryInv /\ RowTypes /\ Rows

LEMMA ContactStep == RowTypes /\ Rows /\ ContactNext => (RowTypes /\ Rows)'
<1> SUFFICES ASSUME RowTypes, Rows, ContactNext PROVE (RowTypes /\ Rows)'
  OBVIOUS
<1> USE DEF RowTypes, Rows
<1>1. ASSUME NEW id \in Ids, AddContact(id) PROVE (RowTypes /\ Rows)'
  BY <1>1 DEF AddContact, Edited, Busy
<1>2. CASE RemoveContact
  BY <1>2 DEF RemoveContact, Edited, Busy
<1>3. CASE ListContacts
  BY <1>3 DEF ListContacts
<1>4. CASE ListRefresh
  BY <1>4 DEF ListRefresh, Refreshed
<1>5. CASE SendToContact
  BY <1>5 DEF SendToContact
<1>6. CASE SendRound
  BY <1>6 DEF SendRound
<1>7. CASE SendRefresh
  BY <1>7 DEF SendRefresh, Refreshed
<1>8. CASE SendEnds
  BY <1>8 DEF SendEnds
<1> QED
  BY <1>1, <1>2, <1>3, <1>4, <1>5, <1>6, <1>7, <1>8 DEF ContactNext

LEMMA Invariance == Spec => []Inv
<1>1. Init => Inv
  BY InitInv DEF Init, Inv, RowTypes, Rows
<1>2. ASSUME Inv, [Next]_vars PROVE Inv'
  <2>1. CASE DiscoveryNext /\ UNCHANGED contactVars
    <3>1. DiscoveryInv'
      BY <2>1, DiscoveryStep, <1>2 DEF Inv
    <3> QED
      BY <2>1, <3>1, <1>2 DEF Inv, RowTypes, Rows, contactVars
  <2>2. CASE ContactNext
    <3>1. UNCHANGED discoveryVars
      BY <2>2 DEF ContactNext, AddContact, RemoveContact, ListContacts, ListRefresh, SendToContact,
                  SendRound, SendRefresh, SendEnds
    <3> QED
      BY <2>2, <3>1, DiscoveryStep, ContactStep, <1>2 DEF Inv
  <2>3. CASE UNCHANGED vars
    <3>1. DiscoveryInv'
      BY <2>3, DiscoveryStep, <1>2 DEF Inv, vars
    <3> QED
      BY <2>3, <3>1, <1>2 DEF Inv, RowTypes, Rows, vars, contactVars
  <2> QED
    BY <2>1, <2>2, <2>3, <1>2 DEF Next
<1> QED
  BY <1>1, <1>2, PTL DEF Spec

\* The type invariant: the service, its table and the rows keep their types.
THEOREM TypeCorrect == Spec => []TypeOK
<1>1. Inv => TypeOK
  BY DEF Inv, DiscoveryInv, RowTypes, TypeOK
<1> QED
  BY <1>1, Invariance, PTL

\* A device is listed for as long as its beacons are heard, and gone one
\* cleaning period after the timeout, for every timeout and period.
THEOREM ListedWhileHeard == Spec => []ListedIffHeard
<1>1. Inv => ListedIffHeard
  BY DEF Inv, DiscoveryInv, DiscoveryTypeOK, Ages, ListedIffHeard
<1> QED
  BY <1>1, Invariance, PTL

\* The contact stays as the user saved it, whatever discovery finds.
THEOREM SavedStays == Spec => []ContactAsSaved
<1>1. Inv => ContactAsSaved
  BY DEF Inv, Rows, ContactAsSaved
<1> QED
  BY <1>1, Invariance, PTL
=============================================================================
