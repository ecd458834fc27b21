----------------------------- MODULE Discovery -----------------------------
(***************************************************************************)
(* DiscoveryService (p2p/discovery.rs): the three tasks of one device that  *)
(* announce it, listen for the beacons of others and clean up the table of  *)
(* peers, while devices come, go and change their addresses.                *)
(*                                                                          *)
(* Time is counted in ticks; a tick passes only when no cleaning is due.    *)
(* A beacon may be lost: hearing one is a step that need not be taken.      *)
(***************************************************************************)
EXTENDS Integers

CONSTANTS
  Devices, Me,  \* Me is the device this service runs on, and hears its own beacons
  Addrs,        \* an address and port
  NameOf,       \* [Devices -> names], two devices may have one name
  WithId,       \* those whose beacon has a node_id (the command-line tool's has none)
  Nowhere, NoId,
  Timeout,      \* PEER_TIMEOUT_SECS, in ticks
  CleanEvery    \* the sleep of the cleaning task, in ticks

ASSUME DiscoveryAssumption ==
  /\ Me \in Devices /\ WithId \subseteq Devices
  /\ Nowhere \notin Addrs /\ NoId \notin Devices
  /\ Timeout \in Nat /\ CleanEvery \in Nat \ {0}

VARIABLES
  where,        \* each device's address, or Nowhere
  caller,       \* what the owner of the service has done with it
  running,      \* the flag the tasks look at
  tasks,        \* those that have not ended
  peers,        \* the table: address -> PeerInfo
  cleanIn,      \* ticks until the cleaning task wakes
  heard         \* ticks since a beacon from each address was heard

discoveryVars == <<where, caller, running, tasks, peers, cleanIn, heard>>

Tasks == {"beacon", "listen", "clean"}

\* Ages above this one are not told apart.
LongAgo == Timeout + CleanEvery + 1
Older(age) == IF age < LongAgo THEN age + 1 ELSE LongAgo

IdOf(d) == IF d \in WithId THEN d ELSE NoId

DiscoveryInit ==
  /\ where \in [Devices -> Addrs \cup {Nowhere}]
  /\ where[Me] # Nowhere
  /\ \A d, e \in Devices : d # e /\ where[d] = where[e] => where[d] = Nowhere
  /\ caller = "off" /\ running = FALSE /\ tasks = {}
  /\ peers = [a \in {} |-> {}]
  /\ cleanIn = CleanEvery
  /\ heard = [a \in Addrs |-> LongAgo]

Start ==
  /\ caller = "off"
  /\ caller' = "on" /\ running' = TRUE /\ tasks' = Tasks
  /\ UNCHANGED <<where, peers, cleanIn, heard>>

\* touch, or insert. A known peer keeps its name, and its id if the beacon has none.
NewPeer(d) == [name |-> NameOf[d], id |-> IdOf(d), age |-> 0]
Touched(p, d) == [p EXCEPT !.age = 0, !.id = IF d \in WithId THEN d ELSE p.id]

\* Mutant of Noted: a known peer is not touched.
NotedOnce(d) ==
  [a \in DOMAIN peers \cup {where[d]} |-> IF a \in DOMAIN peers THEN peers[a] ELSE NewPeer(d)]

Noted(d) ==
  [a \in DOMAIN peers \cup {where[d]} |->
     IF a # where[d] THEN peers[a]
     ELSE IF a \in DOMAIN peers THEN Touched(peers[a], d) ELSE NewPeer(d)]

\* Mutant of ListenerGoesRound: the loop has no end.
ListenerStays == UNCHANGED tasks

\* The listener looks at the flag only after recv_from has returned.
ListenerGoesRound == tasks' = IF running THEN tasks ELSE tasks \ {"listen"}

Hear(d) ==
  /\ "listen" \in tasks /\ where[d] # Nowhere
  /\ d = Me => "beacon" \in tasks
  /\ peers' = Noted(d)
  /\ heard' = [heard EXCEPT ![where[d]] = 0]
  /\ ListenerGoesRound
  /\ UNCHANGED <<where, caller, running, cleanIn>>

\* A datagram that is no beacon, or an error of the socket.
HearNoise ==
  /\ "listen" \in tasks
  /\ ListenerGoesRound
  /\ UNCHANGED <<where, caller, running, peers, cleanIn, heard>>

BeaconEnds ==
  /\ "beacon" \in tasks /\ ~running
  /\ tasks' = tasks \ {"beacon"}
  /\ UNCHANGED <<where, caller, running, peers, cleanIn, heard>>

IsStale(p) == p.age > Timeout

Clean ==
  /\ "clean" \in tasks /\ cleanIn = 0
  /\ peers' = [a \in {b \in DOMAIN peers : ~IsStale(peers[b])} |-> peers[a]]
  /\ tasks' = IF running THEN tasks ELSE tasks \ {"clean"}
  /\ cleanIn' = CleanEvery
  /\ UNCHANGED <<where, caller, running, heard>>

\* Mutant of Tick: the cleaning task oversleeps.
TickPastCleaning ==
  /\ peers' = [a \in DOMAIN peers |-> [peers[a] EXCEPT !.age = Older(@)]]
  /\ heard' = [a \in Addrs |-> Older(heard[a])]
  /\ cleanIn' = IF "clean" \in tasks THEN cleanIn - 1 ELSE cleanIn
  /\ UNCHANGED <<where, caller, running, tasks>>

Tick ==
  /\ "clean" \in tasks => cleanIn > 0
  /\ peers' = [a \in DOMAIN peers |-> [peers[a] EXCEPT !.age = Older(@)]]
  /\ heard' = [a \in Addrs |-> Older(heard[a])]
  /\ cleanIn' = IF "clean" \in tasks THEN cleanIn - 1 ELSE cleanIn
  /\ UNCHANGED <<where, caller, running, tasks>>

\* stop clears the flag and waits for the three tasks, one after the other.
Stop ==
  /\ caller = "on"
  /\ caller' = "stopping" /\ running' = FALSE
  /\ UNCHANGED <<where, tasks, peers, cleanIn, heard>>

StopReturn ==
  /\ caller = "stopping" /\ tasks = {}
  /\ caller' = "stopped"
  /\ UNCHANGED <<where, running, tasks, peers, cleanIn, heard>>

Drop ==
  /\ caller = "on"
  /\ caller' = "dropped" /\ running' = FALSE /\ tasks' = {}
  /\ UNCHANGED <<where, peers, cleanIn, heard>>

\* Another device gets an address, gives it up, or changes it.
Move(d, a) ==
  /\ d # Me /\ a # where[d]
  /\ a = Nowhere \/ \A e \in Devices : where[e] # a
  /\ where' = [where EXCEPT ![d] = a]
  /\ UNCHANGED <<caller, running, tasks, peers, cleanIn, heard>>

DiscoveryNext ==
  \/ Start \/ HearNoise \/ BeaconEnds \/ Clean \/ Tick \/ Stop \/ StopReturn \/ Drop
  \/ \E d \in Devices : Hear(d) \/ \E a \in Addrs \cup {Nowhere} : Move(d, a)

\* Timers fire and tasks go on; nobody promises that a datagram arrives.
DiscoveryFairness ==
  WF_discoveryVars(Tick) /\ WF_discoveryVars(Clean) /\ WF_discoveryVars(BeaconEnds)
  /\ WF_discoveryVars(StopReturn)

DiscoverySpec == DiscoveryInit /\ [][DiscoveryNext]_discoveryVars /\ DiscoveryFairness

-----------------------------------------------------------------------------
Peers == [name : {NameOf[d] : d \in Devices}, id : Devices \cup {NoId}, age : 0..LongAgo]

\* Every variable of the service has its type; a peer's age and the time to the
\* next cleaning stay in their ranges.
DiscoveryTypeOK ==
  /\ where \in [Devices -> Addrs \cup {Nowhere}]
  /\ caller \in {"off", "on", "stopping", "stopped", "dropped"}
  /\ running \in BOOLEAN /\ tasks \subseteq Tasks
  /\ DOMAIN peers \subseteq Addrs /\ peers \in [DOMAIN peers -> Peers]
  /\ cleanIn \in 0..CleanEvery
  /\ heard \in [Addrs -> 0..LongAgo]

\* While the service runs, a device is listed as long as the beacons that are
\* lost in a row take no more than the timeout, and is gone at the latest one
\* cleaning period after that, whatever else is heard and cleaned in between.
ListedIffHeard ==
  caller = "on" =>
    \A a \in Addrs : /\ heard[a] <= Timeout => a \in DOMAIN peers
                     /\ a \in DOMAIN peers => heard[a] <= Timeout + CleanEvery

\* `p2p list` ends by awaiting stop. That returns if some other device is there
\* every now and then and its beacons are not lost for ever; while the device is
\* alone it need not: the listener looks at the flag after a datagram only.
Alone == \A d \in Devices \ {Me} : where[d] = Nowhere
StopReturns ==
  SF_discoveryVars(\E d \in Devices \ {Me} : Hear(d))
    => (caller = "stopping" ~> caller = "stopped" \/ []Alone)
=============================================================================
