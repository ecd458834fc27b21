------------------------------ MODULE Contacts ------------------------------
(***************************************************************************)
(* One contact of the desktop application (src-tauri/src/main.rs), kept in  *)
(* the contacts table of resume.rs under a name, together with the LAN      *)
(* discovery that refreshes its address. The commands that refresh it read  *)
(* it first, wait for the peers, and write it back whole. A row stands for  *)
(* its peer_id: nothing is said of the address that is written with it.     *)
(***************************************************************************)
EXTENDS Discovery

CONSTANTS
  Friend,       \* the name the contact is saved under
  Ids           \* the device ids the user may save it with

ASSUME ContactAssumption == Ids \subseteq Devices

NoContact == NoId

VARIABLES
  contact,      \* the row of that name, or NoContact
  listing,      \* the row a list_contacts under way has read, or NoContact
  sending,      \* what send_to_contact does: "off", "top" of its loop, "look" for peers
  chosen,       \* the contact as it was when the send began
  current,      \* current_contact of this round
  saved,        \* what the user last made of it
  overlapped    \* a listing or a send was under way then

contactVars == <<contact, listing, sending, chosen, current, saved, overlapped>>
vars == <<discoveryVars, contactVars>>

Init ==
  /\ DiscoveryInit
  /\ contact = NoContact /\ listing = NoContact
  /\ sending = "off" /\ chosen = NoContact /\ current = NoContact
  /\ saved = NoContact /\ overlapped = FALSE

-----------------------------------------------------------------------------
\* find: any listed peer that has the contact's name, or its id.
Matches(id) == {a \in DOMAIN peers : peers[a].name = Friend \/ peers[a].id = id}

\* get_peers of a service that runs; there is none to ask before.
Listed(id) == IF caller = "on" THEN Matches(id) ELSE {}

Busy == listing # NoContact \/ sending # "off"

Edited(row) == saved' = row /\ overlapped' = Busy

\* add_contact writes over a row of that name.
AddContact(id) ==
  /\ contact' = id
  /\ Edited(id)
  /\ UNCHANGED <<listing, sending, chosen, current, discoveryVars>>

RemoveContact ==
  /\ contact' = NoContact
  /\ Edited(NoContact)
  /\ UNCHANGED <<listing, sending, chosen, current, discoveryVars>>

\* list_contacts reads the rows, then waits for the peers.
ListContacts ==
  /\ listing = NoContact /\ contact # NoContact
  /\ listing' = contact
  /\ UNCHANGED <<contact, sending, chosen, current, saved, overlapped, discoveryVars>>

\* Mutant of Refreshed: the peer's id, where the row's is meant.
RefreshedByPeer(row, a) == IF peers[a].id = NoId THEN row ELSE peers[a].id

\* upsert_contact of the id that was read, with the address of the peer found.
Refreshed(row, a) == row

ListRefresh ==
  /\ listing # NoContact
  /\ \/ \E a \in Listed(listing) : contact' = Refreshed(listing, a)
     \/ Listed(listing) = {} /\ UNCHANGED contact
  /\ listing' = NoContact
  /\ UNCHANGED <<sending, chosen, current, saved, overlapped, discoveryVars>>

SendToContact ==
  /\ sending = "off" /\ contact # NoContact
  /\ sending' = "top" /\ chosen' = contact
  /\ UNCHANGED <<contact, listing, current, saved, overlapped, discoveryVars>>

\* Each round reads the row, or takes the one it began with when that is gone.
SendRound ==
  /\ sending = "top"
  /\ sending' = "look"
  /\ current' = IF contact = NoContact THEN chosen ELSE contact
  /\ UNCHANGED <<contact, listing, chosen, saved, overlapped, discoveryVars>>

SendRefresh ==
  /\ sending = "look"
  /\ \/ \E a \in Listed(current) : contact' = Refreshed(current, a)
     \/ Listed(current) = {} /\ UNCHANGED contact
  /\ sending' = "top" /\ current' = NoContact
  /\ UNCHANGED <<listing, chosen, saved, overlapped, discoveryVars>>

SendEnds ==
  /\ sending = "top"
  /\ sending' = "off" /\ chosen' = NoContact
  /\ UNCHANGED <<contact, listing, current, saved, overlapped, discoveryVars>>

ContactNext ==
  \/ \E id \in Ids : AddContact(id)
  \/ RemoveContact \/ ListContacts \/ ListRefresh
  \/ SendToContact \/ SendRound \/ SendRefresh \/ SendEnds

\* The service is the desktop's, which never stops it and drops it with its
\* commands, or that of `p2p list`, which stops it and has no such commands.
Untouched == contact = NoContact /\ saved = NoContact /\ ~overlapped /\ ~Busy

Next ==
  \/ DiscoveryNext /\ (caller' = "stopping" => Untouched) /\ UNCHANGED contactVars
  \/ caller \in {"off", "on"} /\ ContactNext

Spec == Init /\ [][Next]_vars /\ DiscoveryFairness

-----------------------------------------------------------------------------
\* The service's types, and rows that are ids the user saved.
TypeOK ==
  /\ DiscoveryTypeOK
  /\ {contact, listing, chosen, current, saved} \subseteq Ids \cup {NoContact}
  /\ sending \in {"off", "top", "look"}
  /\ overlapped \in BOOLEAN

\* The contact is the one the user last saved, or gone if the user removed it,
\* however often its address is refreshed: unless a listing or a send that was
\* under way at that moment writes back what it had read before.
ContactAsSaved ==
  ~overlapped => contact = saved
=============================================================================
