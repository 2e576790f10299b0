------------------------- MODULE ControlChannelProofs -------------------------
(***************************************************************************)
(* Proofs about ControlChannel for every number of keys, sessions, peer    *)
(* slots, registrations and messages, and every set of pointer ids.        *)
(*                                                                         *)
(* What the server knows of a peer is tied to the client at its other end: *)
(* a slot that nobody uses is Free, and a matched one has its own client's *)
(* key.  With that, an event that is serviced has the session of the       *)
(* client it came from, and the snapshot that the loop serves by is the    *)
(* one that every peer it left was compared with.                          *)
(***************************************************************************)
EXTENDS ControlChannel, TLAPS

RegistryOK ==
    /\ registrations \in [Keys -> 0..MaxEpoch] /\ nextEpoch \in 0..MaxEpoch
    /\ registering \in SUBSET [key : Keys, epoch : 1..MaxEpoch]

Places == InMap \cup Ended \cup {"Spawning", "Playing", "Taken", "Released"}

SessionsOK ==
    /\ place \in [Sessions -> Places]
    /\ origin \in [Sessions -> Keys \cup {NoKey}]
    /\ connected \in [Sessions -> BOOLEAN]
    /\ incoming \in 0..MaxLogins /\ drawn \in 0..MaxKeys

ContactsOK == active \in [Sessions -> SUBSET Touches] /\ held \in [Sessions -> SUBSET Touches]

ServerOK ==
    /\ loop \in {"sweep", "service"} /\ regs \in [Keys -> 0..MaxEpoch]
    /\ peer \in [Peers -> PeerStates]

NetworkOK ==
    /\ owner \in [Peers -> Keys \cup {NoKey}]
    /\ link \in [Peers -> {"none", "opening", "up", "ended"}]
    /\ links \in 0..MaxLinks /\ sends \in 0..MaxSends

\* A slot without a client is free, and a matched one has its client's key.
PeersAreTheirClients ==
    \A p \in Peers : /\ owner[p] = NoKey => link[p] = "none" /\ peer[p] = Free
                     /\ peer[p].st = "Matched" => peer[p].key = owner[p]

IInv == /\ RegistryOK /\ SessionsOK /\ ContactsOK /\ ServerOK /\ NetworkOK
        /\ PeersAreTheirClients /\ ServedPeersAreCurrent /\ NoUntrackedContact

-----------------------------------------------------------------------------
(***************************************************************************)
(* Facts about the constants, the peers and the contacts.                  *)
(***************************************************************************)

\* The bounds are numbers, and no key is the missing one.
LEMMA Bounds ==
  /\ MaxKeys \in Nat /\ MaxLogins \in Nat /\ MaxEpoch \in Nat /\ MaxLinks \in Nat /\ MaxSends \in Nat
  /\ NoKey \notin Keys /\ Keys \subseteq Nat /\ Logins \subseteq Sessions /\ Desk \in Sessions
BY ControlBounds DEF ControlBounds, NoKey, Keys, Logins, Sessions, Desk

\* A matched slot is a record of a key and an epoch.
LEMMA MatchedPeer ==
  ASSUME ServerOK, NEW p \in Peers, peer[p].st = "Matched"
  PROVE  peer[p].key \in Keys /\ peer[p].epoch \in 1..MaxEpoch
<1>1. peer[p] \in PeerStates  BY DEF ServerOK
<1>2. peer[p] # Free /\ peer[p] # Pending(TRUE) /\ peer[p] # Pending(FALSE)
  BY DEF Free, Pending
<1> QED BY <1>1, <1>2 DEF PeerStates

\* The kinds of slot: none of Free and Pending is Matched.
LEMMA PeerKinds ==
  /\ Free \in PeerStates /\ Free.st = "Free"
  /\ \A b \in BOOLEAN : Pending(b) \in PeerStates /\ Pending(b).st = "Pending"
  /\ \A k \in Keys, e \in 1..MaxEpoch :
       Matched(k, e) \in PeerStates /\ Matched(k, e).st = "Matched"
       /\ Matched(k, e).key = k /\ Matched(k, e).epoch = e
<1>1. Free \in PeerStates /\ Free.st = "Free"  BY DEF Free, PeerStates
<1>2. \A b \in BOOLEAN : Pending(b) \in PeerStates /\ Pending(b).st = "Pending"
  BY DEF Pending, PeerStates
<1>3. ASSUME NEW k \in Keys, NEW e \in 1..MaxEpoch
      PROVE  Matched(k, e) \in PeerStates /\ Matched(k, e).st = "Matched"
             /\ Matched(k, e).key = k /\ Matched(k, e).epoch = e
  BY DEF Matched, PeerStates
<1> QED BY <1>1, <1>2, <1>3

\* What a message does to the contacts of a session: a contact stays tracked as long as
\* the compositor believes that it is down.
LEMMA TouchEffect ==
  ASSUME ContactsOK, NEW s \in Sessions, NEW m \in Messages, held[s] \subseteq active[s]
  PROVE  Touch(s, m).active \in SUBSET Touches /\ Touch(s, m).held \subseteq Touch(s, m).active
<1>1. active[s] \in SUBSET Touches /\ held[s] \in SUBSET Touches  BY DEF ContactsOK
<1>2. m.kind \in {"Down", "Motion", "Up"} => m.id \in Touches  BY DEF Messages
<1>3. CASE m.kind = "Down"
  <2>1. Touch(s, m) = TouchDown(s, m.id)  BY <1>3 DEF Touch
  <2> QED BY <1>1, <1>2, <1>3, <2>1 DEF TouchDown, SinkUp, SinkDown
<1>4. CASE m.kind = "Motion"
  <2>1. Touch(s, m) = TouchMotion(s, m.id)  BY <1>4 DEF Touch
  <2> QED BY <1>1, <1>2, <1>4, <2>1 DEF TouchMotion, SinkMotion, SinkDown
<1>5. CASE m.kind = "Up"
  <2>1. Touch(s, m) = TouchUp(s, m.id)  BY <1>5 DEF Touch
  <2> QED BY <1>1, <1>2, <1>5, <2>1 DEF TouchUp, SinkUp
<1>6. CASE m.kind = "CancelAll"
  <2>1. Touch(s, m) = ReleaseAll(s)  BY <1>6 DEF Touch
  <2> QED BY <1>1, <2>1 DEF ReleaseAll
<1>7. CASE m.kind \notin {"Down", "Motion", "Up", "CancelAll"}
  <2>1. Touch(s, m) = [active |-> active[s], held |-> held[s]]  BY <1>7 DEF Touch
  <2> QED BY <1>1, <2>1
<1> QED BY <1>3, <1>4, <1>5, <1>6, <1>7

\* Input for the sessions that a key drives: none of them has ended.
LEMMA InputKeepsContacts ==
  ASSUME SessionsOK, ContactsOK, NoUntrackedContact, UNCHANGED place,
         NEW k, NEW m \in Messages, OnInput(k, m)
  PROVE  /\ ContactsOK' /\ NoUntrackedContact'
         /\ \A s \in Sessions : active'[s] # active[s] \/ held'[s] # held[s] => s \in Drives(k)
<1>1. CASE Drives(k) = {}
  BY <1>1 DEF OnInput, contacts, ContactsOK, NoUntrackedContact
<1>2. CASE Drives(k) # {}
  <2>1. PICK s \in Drives(k) : SetTouches(s, Touch(s, m))  BY <1>2 DEF OnInput
  <2>2. s \in Sessions /\ place[s] = "Streaming"  BY DEF Drives, Resolves
  <2>3. held[s] \subseteq active[s]  BY <2>2 DEF NoUntrackedContact
  <2> DEFINE r == Touch(s, m)
  <2>4. r.active \in SUBSET Touches /\ r.held \subseteq r.active  BY <2>2, <2>3, TouchEffect
  <2>5. active' = [active EXCEPT ![s] = r.active] /\ held' = [held EXCEPT ![s] = r.held]
    BY <2>1 DEF SetTouches
  <2> HIDE DEF r
  <2>6. ContactsOK'  BY <2>2, <2>4, <2>5 DEF ContactsOK
  <2>7. \A x \in Sessions : x # s => active'[x] = active[x] /\ held'[x] = held[x]
    BY <2>5 DEF ContactsOK
  <2>8. active'[s] = r.active /\ held'[s] = r.held  BY <2>2, <2>5 DEF ContactsOK
  <2>9. NoUntrackedContact'  BY <2>2, <2>4, <2>7, <2>8 DEF NoUntrackedContact, Ended
  <2> QED BY <2>6, <2>7, <2>9
<1> QED BY <1>1, <1>2

\* A session that is put aside or discarded keeps no contact.
LEMMA ReleaseKeepsContacts ==
  ASSUME ContactsOK, NoUntrackedContact, NEW s \in Sessions, SetTouches(s, ReleaseAll(s)),
         \A x \in Sessions : x # s /\ place'[x] \in Ended => place[x] \in Ended
  PROVE  ContactsOK' /\ NoUntrackedContact'
<1>1. active' = [active EXCEPT ![s] = {}] /\ held' = [held EXCEPT ![s] = held[s] \ active[s]]
  BY DEF SetTouches, ReleaseAll
<1>2. held[s] \ active[s] = {}  BY DEF NoUntrackedContact
<1>3. ContactsOK'  BY <1>1, <1>2 DEF ContactsOK
<1>4. held'[s] = {} /\ \A x \in Sessions : x # s => active'[x] = active[x] /\ held'[x] = held[x]
  BY <1>1, <1>2 DEF ContactsOK
<1>5. NoUntrackedContact'  BY <1>4 DEF NoUntrackedContact
<1> QED BY <1>3, <1>5

-----------------------------------------------------------------------------
(***************************************************************************)
(* The initial states, and the steps of SessionManager.                    *)
(***************************************************************************)

\* The invariant holds initially.
LEMMA InitInv == ASSUME Init PROVE IInv
<1>1. RegistryOK  BY Bounds DEF Init, RegistryOK
<1>2. SessionsOK  BY Bounds DEF Init, SessionsOK, Places, Ended
<1>3. ContactsOK /\ NoUntrackedContact  BY DEF Init, ContactsOK, NoUntrackedContact
<1>4. ServerOK  BY Bounds, PeerKinds DEF Init, ServerOK
<1>5. NetworkOK  BY Bounds DEF Init, NetworkOK
<1>6. PeersAreTheirClients  BY PeerKinds DEF Init, PeersAreTheirClients
<1>7. ServedPeersAreCurrent  BY DEF Init, ServedPeersAreCurrent
<1> QED BY <1>1, <1>2, <1>3, <1>4, <1>5, <1>6, <1>7 DEF IInv

\* A step that leaves the control thread and the network alone.
LEMMA ServerSame ==
  ASSUME IInv, UNCHANGED <<server, network>>,
         RegistryOK', SessionsOK', ContactsOK', NoUntrackedContact'
  PROVE  IInv'
<1>1. ServerOK' /\ NetworkOK'  BY DEF IInv, ServerOK, NetworkOK, server, network
<1>2. PeersAreTheirClients' /\ ServedPeersAreCurrent'
  BY DEF IInv, PeersAreTheirClients, ServedPeersAreCurrent, server, network
<1> QED BY <1>1, <1>2 DEF IInv

\* register() draws an epoch.
LEMMA DrawKeeps ==
  ASSUME RegistryOK, NEW k \in Keys, Draws(k), UNCHANGED registrations
  PROVE  RegistryOK'
<1>1. nextEpoch + 1 \in 1..MaxEpoch  BY Bounds DEF RegistryOK, Draws
<1>2. [key |-> k, epoch |-> nextEpoch + 1] \in [key : Keys, epoch : 1..MaxEpoch]  BY <1>1
<1>3. nextEpoch' \in 0..MaxEpoch  BY <1>1 DEF Draws
<1> QED BY <1>2, <1>3 DEF RegistryOK, Draws

\* A key is forgotten.
LEMMA ForgetKeeps ==
  ASSUME RegistryOK, NEW k, registrations' = Forget(k), UNCHANGED <<nextEpoch, registering>>
  PROVE  RegistryOK'
<1>1. 0 \in 0..MaxEpoch  BY Bounds
<1>2. registrations' \in [Keys -> 0..MaxEpoch]  BY <1>1 DEF RegistryOK, Forget
<1> QED BY <1>2 DEF RegistryOK

\* A session moves to a place where it is not ended; its contacts stay.
LEMMA MoveKeepsContacts ==
  ASSUME SessionsOK, ContactsOK, NoUntrackedContact, UNCHANGED contacts,
         \A s \in Sessions : place'[s] \in Ended => place[s] \in Ended
  PROVE  ContactsOK' /\ NoUntrackedContact'
BY DEF ContactsOK, NoUntrackedContact, contacts

\* Every step of SessionManager keeps the invariant.
LEMMA ManageKeeps == ASSUME IInv, Manage PROVE IInv'
<1> USE DEF IInv
<1>1. ASSUME NEW r \in registering, RegisterInserts(r) PROVE IInv'
  <2>1. r.key \in Keys /\ r.epoch \in 0..MaxEpoch  BY Bounds DEF RegistryOK
  <2>2. RegistryOK'  BY <1>1, <2>1 DEF RegistryOK, RegisterInserts
  <2>3. SessionsOK' /\ ContactsOK' /\ NoUntrackedContact'
    BY <1>1 DEF RegisterInserts, SessionsOK, ContactsOK, NoUntrackedContact, session, contacts
  <2> QED BY <1>1, <2>2, <2>3, ServerSame DEF RegisterInserts
<1>2. ASSUME NEW s \in Sessions, LaunchInserts(s) \/ PlayTakes(s) \/ PlayStreams(s) PROVE IInv'
  <2>1. PICK to \in {"Launched", "Playing", "Streaming"} : place' = [place EXCEPT ![s] = to]
    BY <1>2 DEF LaunchInserts, PlayTakes, PlayStreams
  <2>2. UNCHANGED <<registry, origin, connected, incoming, drawn, contacts, server, network>>
    BY <1>2 DEF LaunchInserts, PlayTakes, PlayStreams
  <2>3. RegistryOK' /\ SessionsOK'
    BY <2>1, <2>2 DEF RegistryOK, SessionsOK, registry, Places, InMap
  <2>4. \A x \in Sessions : place'[x] \in Ended => place[x] \in Ended
    BY <2>1 DEF SessionsOK, Ended
  <2>5. ContactsOK' /\ NoUntrackedContact'  BY <2>2, <2>4, MoveKeepsContacts
  <2> QED BY <2>2, <2>3, <2>5, ServerSame
<1>3. ASSUME NEW s \in Sessions, CancelTakes(s) PROVE IInv'
  <2>1. RegistryOK'  BY <1>3, ForgetKeeps DEF CancelTakes
  <2>2. SessionsOK'  BY <1>3 DEF CancelTakes, SessionsOK, Places
  <2>3. \A x \in Sessions : place'[x] \in Ended => place[x] \in Ended
    BY <1>3 DEF CancelTakes, SessionsOK, Ended
  <2>4. ContactsOK' /\ NoUntrackedContact'  BY <1>3, <2>3, MoveKeepsContacts DEF CancelTakes
  <2> QED BY <1>3, <2>1, <2>2, <2>4, ServerSame DEF CancelTakes
<1>4. ASSUME NEW s \in Sessions, BackgroundOrDiscard(s) PROVE IInv'
  <2>1. RegistryOK'  BY <1>4 DEF BackgroundOrDiscard, RegistryOK, registry
  <2>2. SessionsOK'  BY <1>4 DEF BackgroundOrDiscard, DropsOrigin, SessionsOK, Places, Ended
  <2>3. \A x \in Sessions : x # s => place'[x] = place[x]
    BY <1>4 DEF BackgroundOrDiscard, SessionsOK
  <2>4. ContactsOK' /\ NoUntrackedContact'
    BY <1>4, <2>3, ReleaseKeepsContacts DEF BackgroundOrDiscard
  <2> QED BY <1>4, <2>1, <2>2, <2>4, ServerSame DEF BackgroundOrDiscard
<1>5. ASSUME NEW s \in Sessions, HandoffTakes(s) PROVE IInv'
  <2>1. RegistryOK'  BY <1>5 DEF HandoffTakes, RegistryOK, registry
  <2>2. s # Desk /\ s \in 0..MaxLogins  BY <1>5, Bounds DEF HandoffTakes, Logins, Desk
  <2>3. SessionsOK'  BY <1>5, <2>2 DEF HandoffTakes, SessionsOK, Places, Ended
  <2>4. \A x \in Sessions : x # s /\ place'[x] \in Ended => place[x] \in Ended
    BY <1>5, <2>2 DEF HandoffTakes, SessionsOK, Ended
  <2>5. ContactsOK' /\ NoUntrackedContact'
    BY <1>5, <2>4, ReleaseKeepsContacts DEF HandoffTakes
  <2> QED BY <1>5, <2>1, <2>3, <2>5, ServerSame DEF HandoffTakes
<1>6. ASSUME NEW s \in Logins, Launches(s) PROVE IInv'
  <2>1. drawn + 1 \in Keys /\ s \in Sessions  BY <1>6, Bounds DEF Launches, SessionsOK, Keys
  <2>2. RegistryOK'  BY <1>6, <2>1, DrawKeeps DEF Launches
  <2>3. SessionsOK'  BY <1>6, <2>1 DEF Launches, SessionsOK, Places, Keys
  <2>4. \A x \in Sessions : place'[x] \in Ended => place[x] \in Ended
    BY <1>6 DEF Launches, SessionsOK, Ended
  <2>5. ContactsOK' /\ NoUntrackedContact'  BY <1>6, <2>4, MoveKeepsContacts DEF Launches
  <2> QED BY <1>6, <2>2, <2>3, <2>5, ServerSame DEF Launches
<1>7. ASSUME NEW s \in Logins, NEW k \in Keys, LaunchAdopts(s, k) PROVE IInv'
  <2>1. RegistryOK'  BY <1>7, DrawKeeps DEF LaunchAdopts
  <2>2. drawn' \in 0..MaxKeys  BY <1>7, Bounds DEF LaunchAdopts, SessionsOK, Keys
  <2>3. SessionsOK'  BY <1>7, <2>2 DEF LaunchAdopts, SessionsOK
  <2>4. ContactsOK' /\ NoUntrackedContact'  BY <1>7, MoveKeepsContacts DEF LaunchAdopts
  <2> QED BY <1>7, <2>1, <2>3, <2>4, ServerSame DEF LaunchAdopts
<1>8. CASE HandoffStreams
  <2>1. RegistryOK'
    <3>1. CASE origin[Desk] = NoKey  BY <1>8, <3>1 DEF HandoffStreams, RegistryOK
    <3>2. CASE origin[Desk] # NoKey  BY <1>8, <3>2, ForgetKeeps DEF HandoffStreams
    <3> QED BY <3>1, <3>2
  <2>2. incoming \in Sessions  BY <1>8 DEF HandoffStreams, SessionsOK, Sessions, Logins
  <2>3. SessionsOK'  BY <1>8, <2>2, Bounds DEF HandoffStreams, SessionsOK, Places, InMap
  <2>4. \A x \in Sessions : place'[x] \in Ended => place[x] \in Ended
    BY <1>8 DEF HandoffStreams, SessionsOK, Ended
  <2>5. ContactsOK' /\ NoUntrackedContact'  BY <1>8, <2>4, MoveKeepsContacts DEF HandoffStreams
  <2> QED BY <1>8, <2>1, <2>3, <2>5, ServerSame DEF HandoffStreams
<1> QED BY <1>1, <1>2, <1>3, <1>4, <1>5, <1>6, <1>7, <1>8 DEF Manage

-----------------------------------------------------------------------------
(***************************************************************************)
(* The steps of serve_blocking, and those of the clients.                  *)
(***************************************************************************)

\* The flags that on_peer_connected and on_peer_disconnected leave are flags.
LEMMA FlagsKeep ==
  ASSUME SessionsOK, NEW ks, NEW value \in BOOLEAN
  PROVE  Connects(ks, value) \in [Sessions -> BOOLEAN]
<1>1. \A s \in Sessions : connected[s] \in BOOLEAN  BY DEF SessionsOK
<1> QED BY <1>1 DEF Connects

\* No step of the loop touches the registry, and of the sessions only the flags.
LEMMA LoopSame ==
  ASSUME IInv, UNCHANGED <<registry, place, origin, incoming, drawn>>,
         connected' \in [Sessions -> BOOLEAN],
         ContactsOK', ServerOK', NetworkOK', PeersAreTheirClients',
         ServedPeersAreCurrent', NoUntrackedContact'
  PROVE  IInv'
<1>1. RegistryOK'  BY DEF IInv, RegistryOK, registry
<1>2. SessionsOK'  BY DEF IInv, SessionsOK
<1> QED BY <1>1, <1>2 DEF IInv

\* The sweep leaves no peer that its snapshot does not know under the same epoch.
LEMMA SweepKeeps == ASSUME IInv, Sweeps PROVE IInv'
<1> DEFINE stale == {p \in Peers : Stale(p, registrations)}
           cut == stale \cup {p \in Peers : Overdue(p)}
<1>1. /\ loop' = "service" /\ regs' = registrations
      /\ UNCHANGED <<registry, place, origin, incoming, drawn, contacts, links, sends>>
  BY DEF Sweeps, Snapshot
<1>2. /\ connected' = Connects({peer[p].key : p \in stale}, FALSE)
      /\ peer' = [p \in Peers |-> IF p \in cut THEN Free ELSE peer[p]]
      /\ owner' = [p \in Peers |-> IF p \in cut THEN NoKey ELSE owner[p]]
      /\ link' = [p \in Peers |-> IF p \in cut THEN "none" ELSE link[p]]
  BY DEF Sweeps, Cuts
<1>3. \A p \in Peers : p \notin cut /\ peer[p].st = "Matched" =>
        registrations[peer[p].key] = peer[p].epoch
  BY DEF Stale
<1> HIDE DEF cut
<1>4. connected' \in [Sessions -> BOOLEAN]  BY <1>2, FlagsKeep DEF IInv
<1>5. ContactsOK' /\ NoUntrackedContact'
  BY <1>1 DEF IInv, ContactsOK, NoUntrackedContact, contacts
<1>6. ServerOK'  BY <1>1, <1>2, PeerKinds DEF IInv, ServerOK, RegistryOK
<1>7. NetworkOK'  BY <1>1, <1>2 DEF IInv, NetworkOK
<1>8. PeersAreTheirClients'  BY <1>2, PeerKinds DEF IInv, PeersAreTheirClients
<1>9. ServedPeersAreCurrent'  BY <1>1, <1>2, <1>3, PeerKinds DEF ServedPeersAreCurrent
<1> QED BY <1>1, <1>4, <1>5, <1>6, <1>7, <1>8, <1>9, LoopSame

\* The end of an iteration.
LEMMA ServiceEnds ==
  ASSUME IInv, NextRound, peer' \in [Peers -> PeerStates]
  PROVE  ServerOK' /\ ServedPeersAreCurrent'
<1>1. 0 \in 0..MaxEpoch  BY Bounds
<1> QED BY <1>1 DEF NextRound, ServerOK, ServedPeersAreCurrent

\* An event that ENet reports for a peer: it connects, it disconnects, or a packet is
\* received, matched or not.
LEMMA ServeKeeps == ASSUME IInv, Serve PROVE IInv'
<1>1. ASSUME NEW p \in Peers, ServesConnect(p) PROVE IInv'
  <2>1. owner[p] # NoKey  BY <1>1 DEF IInv, PeersAreTheirClients, ServesConnect
  <2>2. peer' = [peer EXCEPT ![p] = Pending(FALSE)] /\ link' = [link EXCEPT ![p] = "up"]
        /\ UNCHANGED <<connected, contacts, owner, sends, links>> /\ NextRound
        /\ UNCHANGED <<registry, place, origin, incoming, drawn>>
    BY <1>1 DEF ServesConnect, Serves
  <2>3. peer' \in [Peers -> PeerStates]  BY <2>2, PeerKinds DEF IInv, ServerOK
  <2>4. NetworkOK'  BY <2>2 DEF IInv, NetworkOK
  <2>5. PeersAreTheirClients'
    BY <2>1, <2>2, PeerKinds DEF IInv, PeersAreTheirClients, ServerOK, NetworkOK
  <2>6. ContactsOK' /\ NoUntrackedContact'
    BY <2>2 DEF IInv, ContactsOK, NoUntrackedContact, contacts
  <2>7. connected' \in [Sessions -> BOOLEAN]  BY <2>2 DEF IInv, SessionsOK
  <2> QED BY <2>2, <2>3, <2>4, <2>5, <2>6, <2>7, ServiceEnds, LoopSame
<1>2. ASSUME NEW p \in Peers, ServesDisconnect(p) PROVE IInv'
  <2>1. /\ connected' = IF peer[p].st = "Matched" THEN Connects({peer[p].key}, FALSE) ELSE connected
        /\ peer' = [peer EXCEPT ![p] = Free]
        /\ owner' = [owner EXCEPT ![p] = NoKey] /\ link' = [link EXCEPT ![p] = "none"]
        /\ UNCHANGED <<contacts, sends, links>> /\ NextRound
        /\ UNCHANGED <<registry, place, origin, incoming, drawn>>
    BY <1>2 DEF ServesDisconnect, Serves
  <2>2. connected' \in [Sessions -> BOOLEAN]  BY <2>1, FlagsKeep DEF IInv, SessionsOK
  <2>3. peer' \in [Peers -> PeerStates]  BY <2>1, PeerKinds DEF IInv, ServerOK
  <2>4. NetworkOK'  BY <2>1 DEF IInv, NetworkOK
  <2>5. PeersAreTheirClients'
    BY <2>1, PeerKinds DEF IInv, PeersAreTheirClients, ServerOK, NetworkOK
  <2>6. ContactsOK' /\ NoUntrackedContact'
    BY <2>1 DEF IInv, ContactsOK, NoUntrackedContact, contacts
  <2> QED BY <2>1, <2>2, <2>3, <2>4, <2>5, <2>6, ServiceEnds, LoopSame
<1>3. ASSUME NEW p \in Peers, NEW m \in Messages, ServesMatched(p, m) PROVE IInv'
  <2>1. UNCHANGED <<connected, peer, owner, link, links>> /\ NextRound
        /\ UNCHANGED <<registry, place, origin, incoming, drawn>>
        /\ sends < MaxSends /\ sends' = sends + 1 /\ OnInput(peer[p].key, m)
    BY <1>3 DEF ServesMatched, Receives, Serves
  <2>2. ContactsOK' /\ NoUntrackedContact'  BY <2>1, InputKeepsContacts DEF IInv
  <2>3. sends' \in 0..MaxSends  BY <2>1, Bounds DEF IInv, NetworkOK
  <2>4. NetworkOK'  BY <2>1, <2>3 DEF IInv, NetworkOK
  <2>5. PeersAreTheirClients'  BY <2>1 DEF IInv, PeersAreTheirClients
  <2>6. connected' \in [Sessions -> BOOLEAN] /\ peer' \in [Peers -> PeerStates]
    BY <2>1 DEF IInv, SessionsOK, ServerOK
  <2> QED BY <2>1, <2>2, <2>4, <2>5, <2>6, ServiceEnds, LoopSame
<1>4. ASSUME NEW p \in Peers, NEW m \in Messages, ServesPending(p, m) PROVE IInv'
  <2>1. UNCHANGED <<owner, link, links>> /\ NextRound
        /\ UNCHANGED <<registry, place, origin, incoming, drawn>>
        /\ sends < MaxSends /\ sends' = sends + 1 /\ link[p] # "none"
    BY <1>4 DEF ServesPending, Receives, Serves
  <2>2. owner[p] \in Keys  BY <2>1 DEF IInv, PeersAreTheirClients, NetworkOK
  <2>3. sends' \in 0..MaxSends  BY <2>1, Bounds DEF IInv, NetworkOK
  <2>4. NetworkOK'  BY <2>1, <2>3 DEF IInv, NetworkOK
  <2>5. CASE Authenticates(p, m)
    <3>1. /\ peer' = [peer EXCEPT ![p] = Matched(owner[p], regs[owner[p]])]
          /\ connected' = Connects({owner[p]}, TRUE)
          /\ OnInput(owner[p], m)
      BY <1>4, <2>5 DEF ServesPending
    <3>2. regs[owner[p]] \in 1..MaxEpoch
      <4>1. regs[owner[p]] \in 0..MaxEpoch  BY <2>2 DEF IInv, ServerOK
      <4>2. regs[owner[p]] # 0  BY <2>5 DEF Authenticates
      <4> QED BY <4>1, <4>2
    <3>3. peer' \in [Peers -> PeerStates]  BY <2>2, <3>1, <3>2, PeerKinds DEF IInv, ServerOK
    <3>4. peer'[p].key = owner[p] /\ \A q \in Peers : q # p => peer'[q] = peer[q]
      BY <2>2, <3>1, <3>2, PeerKinds DEF IInv, ServerOK
    <3>5. PeersAreTheirClients'
      BY <2>1, <2>2, <3>4, Bounds DEF IInv, PeersAreTheirClients
    <3>6. ContactsOK' /\ NoUntrackedContact'  BY <2>1, <3>1, InputKeepsContacts DEF IInv
    <3>7. connected' \in [Sessions -> BOOLEAN]  BY <3>1, FlagsKeep DEF IInv
    <3> QED BY <2>1, <2>4, <3>3, <3>5, <3>6, <3>7, ServiceEnds, LoopSame
  <2>6. CASE ~Authenticates(p, m)
    <3>1. UNCHANGED <<peer, connected, contacts>>  BY <1>4, <2>6 DEF ServesPending
    <3>2. peer' \in [Peers -> PeerStates] /\ connected' \in [Sessions -> BOOLEAN]
      BY <3>1 DEF IInv, ServerOK, SessionsOK
    <3>3. PeersAreTheirClients'  BY <2>1, <3>1 DEF IInv, PeersAreTheirClients
    <3>4. ContactsOK' /\ NoUntrackedContact'
      BY <2>1, <3>1 DEF IInv, ContactsOK, NoUntrackedContact, contacts
    <3> QED BY <2>1, <2>4, <3>2, <3>3, <3>4, ServiceEnds, LoopSame
  <2> QED BY <2>5, <2>6
<1> QED BY <1>1, <1>2, <1>3, <1>4 DEF Serve

\* Nothing arrived within the timeout of host.service.
LEMMA IdleKeeps == ASSUME IInv, ServesNothing PROVE IInv'
<1>1. NextRound /\ UNCHANGED <<registry, session, contacts, peer, network>>  BY DEF ServesNothing
<1>2. peer' \in [Peers -> PeerStates] /\ connected' \in [Sessions -> BOOLEAN]
      /\ UNCHANGED <<place, origin, incoming, drawn>>
  BY <1>1 DEF IInv, ServerOK, SessionsOK, session
<1>3. NetworkOK' /\ PeersAreTheirClients'
  BY <1>1 DEF IInv, NetworkOK, PeersAreTheirClients, network
<1>4. ContactsOK' /\ NoUntrackedContact'
  BY <1>1, <1>2 DEF IInv, ContactsOK, NoUntrackedContact, contacts
<1> QED BY <1>1, <1>2, <1>3, <1>4, ServiceEnds, LoopSame

\* Every step of a client, its link or the clock keeps the invariant.
LEMMA ClientsKeep == ASSUME IInv, Clients PROVE IInv'
<1> DEFINE Server == UNCHANGED <<registry, session, contacts, loop, regs>>
<1>1. Server => RegistryOK' /\ SessionsOK' /\ ContactsOK' /\ NoUntrackedContact'
  BY DEF IInv, RegistryOK, SessionsOK, ContactsOK, NoUntrackedContact, registry, session, contacts
<1>2. ASSUME NEW p \in Peers, NEW k \in Keys, ClientConnects(p, k) PROVE IInv'
  <2>1. Server /\ UNCHANGED <<peer, sends>>  BY <1>2 DEF ClientConnects, server
  <2>2. links' \in 0..MaxLinks  BY <1>2, Bounds DEF ClientConnects, IInv, NetworkOK
  <2>3. owner' = [owner EXCEPT ![p] = k] /\ link' = [link EXCEPT ![p] = "opening"] /\ owner[p] = NoKey
    BY <1>2 DEF ClientConnects
  <2>4. NetworkOK'  BY <2>1, <2>2, <2>3 DEF IInv, NetworkOK
  <2>5. PeersAreTheirClients'
    BY <2>1, <2>3, Bounds, PeerKinds DEF IInv, PeersAreTheirClients, NetworkOK
  <2>6. ServerOK' /\ ServedPeersAreCurrent'  BY <2>1 DEF IInv, ServerOK, ServedPeersAreCurrent
  <2> QED BY <1>1, <2>1, <2>4, <2>5, <2>6 DEF IInv
<1>3. ASSUME NEW p \in Peers, LinkEnds(p) PROVE IInv'
  <2>1. Server /\ UNCHANGED <<peer, owner, links, sends>>  BY <1>3 DEF LinkEnds, server
  <2>2. link' = [link EXCEPT ![p] = "ended"] /\ link[p] = "up"  BY <1>3 DEF LinkEnds
  <2>3. NetworkOK'  BY <2>1, <2>2 DEF IInv, NetworkOK
  <2>4. PeersAreTheirClients'  BY <2>1, <2>2 DEF IInv, PeersAreTheirClients, NetworkOK
  <2>5. ServerOK' /\ ServedPeersAreCurrent'  BY <2>1 DEF IInv, ServerOK, ServedPeersAreCurrent
  <2> QED BY <1>1, <2>1, <2>3, <2>4, <2>5 DEF IInv
<1>4. ASSUME NEW p \in Peers, PeerAges(p) PROVE IInv'
  <2>1. Server /\ UNCHANGED <<owner, link, links, sends>>  BY <1>4 DEF PeerAges, network
  <2>2. peer' = [peer EXCEPT ![p] = Pending(TRUE)] /\ peer[p] = Pending(FALSE)
    BY <1>4 DEF PeerAges
  <2>3. NetworkOK'  BY <2>1 DEF IInv, NetworkOK
  <2>4. \A q \in Peers : q # p => peer'[q] = peer[q]  BY <2>2 DEF IInv, ServerOK
  <2>5. peer'[p].st = "Pending" /\ peer[p].st = "Pending" /\ peer'[p] \in PeerStates
    BY <2>2, PeerKinds DEF IInv, ServerOK
  <2>6. PeersAreTheirClients'  BY <2>1, <2>4, <2>5, PeerKinds DEF IInv, PeersAreTheirClients
  <2>7. ServerOK'  BY <2>1, <2>2, <2>5 DEF IInv, ServerOK
  <2>8. ServedPeersAreCurrent'  BY <2>1, <2>4, <2>5 DEF IInv, ServedPeersAreCurrent
  <2> QED BY <1>1, <2>1, <2>3, <2>6, <2>7, <2>8 DEF IInv
<1> QED BY <1>2, <1>3, <1>4 DEF Clients

\* The invariant holds in every reachable state.
LEMMA Invariance == Spec => []IInv
<1>1. Init => IInv  BY InitInv
<1>2. IInv /\ [Next]_vars => IInv'
  <2> SUFFICES ASSUME IInv, [Next]_vars PROVE IInv'  OBVIOUS
  <2>1. CASE UNCHANGED vars
    BY <2>1, ServerSame DEF vars, IInv, RegistryOK, SessionsOK, ContactsOK, NoUntrackedContact,
                            registry, session, contacts
  <2> QED BY <2>1, SweepKeeps, ServeKeeps, IdleKeeps, ManageKeeps, ClientsKeep DEF Next
<1> QED BY <1>1, <1>2, PTL DEF Spec

-----------------------------------------------------------------------------
(***************************************************************************)
(* The theorems.                                                           *)
(***************************************************************************)

\* The variables of the registry, the sessions, the loop and its peers have their types.
THEOREM TypesHold == Spec => []TypeOK
<1>1. IInv => TypeOK
  BY DEF IInv, RegistryOK, SessionsOK, ContactsOK, ServerOK, NetworkOK, TypeOK, Places
<1> QED BY <1>1, Invariance, PTL

\* serve_blocking handles nothing for a client whose key was replaced or forgotten before
\* its last sweep, in whatever order registrations, matches and disconnects come.
THEOREM PeersAreCurrent == Spec => []ServedPeersAreCurrent
<1>1. IInv => ServedPeersAreCurrent  BY DEF IInv
<1> QED BY <1>1, Invariance, PTL

\* No contact is down in a compositor that the session does not track (touch_down to
\* release_all_touches), and none in a session that was put aside or discarded.
THEOREM ContactsAreTracked == Spec => []NoUntrackedContact
<1>1. IInv => NoUntrackedContact  BY DEF IInv
<1> QED BY <1>1, Invariance, PTL

\* A packet that is serviced touches a session of its own client only: the key that
\* on_input resolves the session by is the one of the peer the packet came from.
THEOREM OwnersTouch == Spec => OnlyTheOwnerTouches
<1> DEFINE Touches1 ==
      \A s \in Sessions :
          sends' # sends /\ (active'[s] # active[s] \/ held'[s] # held[s]) =>
             /\ place[s] = "Streaming"
             /\ \E p \in Peers, m \in Messages :
                   owner[p] = origin[s] /\ (ServesMatched(p, m) \/ ServesPending(p, m))
<1>1. IInv /\ [Next]_vars => [Touches1]_vars
  <2> SUFFICES ASSUME IInv, Next, sends' # sends PROVE Touches1
    BY DEF vars, network
  <2>1. PICK p \in Peers, m \in Messages : ServesMatched(p, m) \/ ServesPending(p, m)
    <3>1. ~Manage
      BY DEF Manage, RegisterInserts, LaunchInserts, PlayTakes, PlayStreams, CancelTakes,
             BackgroundOrDiscard, HandoffTakes, Launches, LaunchAdopts, HandoffStreams, network
    <3>2. ~Sweeps /\ ~ServesNothing  BY DEF Sweeps, Snapshot, ServesNothing, network
    <3>3. ~Clients  BY DEF Clients, ClientConnects, LinkEnds, PeerAges, network
    <3>4. \A p \in Peers : ~ServesConnect(p) /\ ~ServesDisconnect(p)
      BY DEF ServesConnect, ServesDisconnect
    <3> QED BY <3>1, <3>2, <3>3, <3>4 DEF Next, Serve
  <2>2. OnInput(owner[p], m) \/ UNCHANGED contacts
    BY <2>1 DEF ServesMatched, ServesPending, IInv, PeersAreTheirClients
  <2>3. UNCHANGED place  BY <2>1 DEF ServesMatched, ServesPending, Receives, Serves
  <2>4. \A s \in Sessions : active'[s] # active[s] \/ held'[s] # held[s] => s \in Drives(owner[p])
    BY <2>2, <2>3, InputKeepsContacts DEF IInv, contacts
  <2> QED BY <2>1, <2>4 DEF Drives, Resolves
<1> QED BY <1>1, Invariance, PTL DEF Spec, OnlyTheOwnerTouches

===============================================================================
