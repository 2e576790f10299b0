--------------------------- MODULE ControlChannel ---------------------------
(***************************************************************************)
(* The encrypted control channel: the registry of remote-input keys that   *)
(* SessionManager fills, the one blocking thread that serves every ENet    *)
(* peer (redfog-moonlight control.rs), and what its events do to the       *)
(* sessions: input and the contacts a compositor believes are down, and    *)
(* the flag that decides whether video and audio are sent at all.          *)
(*                                                                         *)
(* Simplifications.  A key stands for the launch that drew it, and for the *)
(* client that knows it.  Decryption is the test that the sender's key is  *)
(* the one tried.  A packet's content is chosen when it is serviced.  Of   *)
(* the input events only touches keep state in the server; every other     *)
(* well-formed message is "Other".  The user's one desktop is Desk; two    *)
(* handoffs never hold it at once (SessionManager.tla has that race).      *)
(* ENet delivers a peer's packets in order.                                *)
(***************************************************************************)
EXTENDS Naturals

CONSTANTS
    MaxKeys,    \* bound: rikeys drawn by clients
    MaxLogins,  \* bound: login-stage sessions
    MaxPeers,   \* ENet peer slots of the host (the code's 4)
    Touches,    \* pointer ids
    MaxEpoch,   \* bound: calls of register()
    MaxLinks,   \* bound: ENet connections
    MaxSends    \* bound: messages

ASSUME ControlBounds ==
    /\ MaxKeys \in Nat /\ MaxLogins \in Nat /\ MaxPeers \in Nat
    /\ MaxEpoch \in Nat /\ MaxLinks \in Nat /\ MaxSends \in Nat

Keys == 1..MaxKeys
NoKey == 0
Logins == 1..MaxLogins
Desk == 0
Sessions == {Desk} \cup Logins
Peers == 1..MaxPeers

VARIABLES
    registrations, \* ControlRegistry: the epoch of each key, 0: not registered
    nextEpoch,     \* ControlRegistry.next_epoch
    registering,   \* register() calls between fetch_add and insert
    place,         \* where each session is: ClientState, a request's hands, background
    origin,        \* SessionOrigin.rikey
    connected,     \* SessionOrigin.connected
    active,        \* RunningSession.active_touch_ids
    held,          \* contacts the session's compositor believes are down
    incoming,      \* the login session whose handoff holds the desktop, 0: none
    drawn,         \* keys drawn so far
    loop,          \* serve_blocking: "sweep" or "service"
    regs,          \* its snapshot of the registrations
    peer,          \* PeerRikeyState of each slot, "Free" if unused
    owner,         \* the key of the client at the other end
    link,          \* its connection: "opening" and "ended" are events not yet serviced
    links, sends   \* bounds: connections opened, messages received

registry == <<registrations, nextEpoch, registering>>
session  == <<place, origin, connected, incoming, drawn>>
contacts == <<active, held>>
server   == <<loop, regs, peer>>
network  == <<owner, link, links, sends>>
vars     == <<registry, session, contacts, server, network>>

InMap == {"Launched", "Streaming"}   \* ClientState::session() is Some
Ended == {"none", "Gone", "Background"}

\* ControlMessage::parse and decode_input_event, by what they tell apart: input
\* that keeps state, what does not ("Other"), what no key decrypts ("Garbage").
Messages == [encrypted : {TRUE}, kind : {"Down", "Motion", "Up"}, id : Touches]
            \cup [encrypted : {TRUE}, kind : {"CancelAll", "Other", "Garbage"}]
            \cup [encrypted : {FALSE}, kind : {"Other"}]
Free == [st |-> "Free"]
Pending(old) == [st |-> "Pending", old |-> old]
Matched(k, e) == [st |-> "Matched", key |-> k, epoch |-> e]
PeerStates == {Free, Pending(TRUE), Pending(FALSE)}
              \cup [st : {"Matched"}, key : Keys, epoch : 1..MaxEpoch]

TypeOK ==
    /\ registrations \in [Keys -> 0..MaxEpoch] /\ nextEpoch \in 0..MaxEpoch
    /\ registering \in SUBSET [key : Keys, epoch : 1..MaxEpoch]
    /\ place \in [Sessions -> InMap \cup Ended \cup {"Spawning", "Playing", "Taken", "Released"}]
    /\ origin \in [Sessions -> Keys \cup {NoKey}]
    /\ connected \in [Sessions -> BOOLEAN]
    /\ active \in [Sessions -> SUBSET Touches] /\ held \in [Sessions -> SUBSET Touches]
    /\ incoming \in 0..MaxLogins /\ drawn \in 0..MaxKeys
    /\ loop \in {"sweep", "service"} /\ regs \in [Keys -> 0..MaxEpoch]
    /\ peer \in [Peers -> PeerStates] /\ owner \in [Peers -> Keys \cup {NoKey}]
    /\ link \in [Peers -> {"none", "opening", "up", "ended"}]
    /\ links \in 0..MaxLinks /\ sends \in 0..MaxSends

Init ==
    /\ registrations = [k \in Keys |-> 0] /\ nextEpoch = 0 /\ registering = {}
    /\ place = [s \in Sessions |-> "none"] /\ origin = [s \in Sessions |-> NoKey]
    /\ connected = [s \in Sessions |-> TRUE]
    /\ active = [s \in Sessions |-> {}] /\ held = [s \in Sessions |-> {}]
    /\ incoming = 0 /\ drawn = 0
    /\ loop = "sweep" /\ regs = [k \in Keys |-> 0]
    /\ peer = [p \in Peers |-> Free] /\ owner = [p \in Peers |-> NoKey]
    /\ link = [p \in Peers |-> "none"]
    /\ links = 0 /\ sends = 0

(***************************************************************************)
(* The registry.                                                           *)
(***************************************************************************)

\* A first epoch that reads as "not registered".
DrawsOld(k) ==
    /\ nextEpoch < MaxEpoch
    /\ nextEpoch' = nextEpoch + 1
    /\ registering' = registering \cup {[key |-> k, epoch |-> nextEpoch]}

\* register: the epoch is drawn before the lock is taken ...
Draws(k) ==
    /\ nextEpoch < MaxEpoch
    /\ nextEpoch' = nextEpoch + 1
    /\ registering' = registering \cup {[key |-> k, epoch |-> nextEpoch + 1]}

\* ... so two calls may insert in the other order.
RegisterInserts(r) ==
    /\ r \in registering
    /\ registering' = registering \ {r}
    /\ registrations' = [registrations EXCEPT ![r.key] = r.epoch]
    /\ UNCHANGED <<nextEpoch, session, contacts, server, network>>

Forget(k) == [registrations EXCEPT ![k] = 0]

(***************************************************************************)
(* The compositor's side of a touch.  KWin ignores a second down, a motion *)
(* and an up of an unknown id; the login screen knows pointer 0 only.      *)
(***************************************************************************)
SinkDown(s, h, t) == IF s = Desk \/ t = 0 THEN h \cup {t} ELSE h
SinkUp(h, t) == h \ {t}
SinkMotion(h, t) == h

\* touch_down, touch_motion, touch_up, release_all_touches: [active, held] of s
TouchDown(s, t) ==
    LET h == IF t \in active[s] THEN SinkUp(held[s], t) ELSE held[s]
    IN  [active |-> active[s] \cup {t}, held |-> SinkDown(s, h, t)]
\* A touch_motion that synthesizes the missed Down and forgets to note it.
MotionForgets(s, t) ==
    [active |-> active[s],
     held   |-> IF t \in active[s] THEN SinkMotion(held[s], t) ELSE SinkDown(s, held[s], t)]
TouchMotion(s, t) ==
    [active |-> active[s] \cup {t},
     held   |-> IF t \in active[s] THEN SinkMotion(held[s], t) ELSE SinkDown(s, held[s], t)]
TouchUp(s, t) == [active |-> active[s] \ {t}, held |-> SinkUp(held[s], t)]
ReleaseAll(s) == [active |-> {}, held |-> held[s] \ active[s]]

Touch(s, m) ==
    CASE m.kind = "Down"      -> TouchDown(s, m.id)
      [] m.kind = "Motion"    -> TouchMotion(s, m.id)
      [] m.kind = "Up"        -> TouchUp(s, m.id)
      [] m.kind = "CancelAll" -> ReleaseAll(s)
      [] OTHER                -> [active |-> active[s], held |-> held[s]]

SetTouches(s, r) ==
    /\ active' = [active EXCEPT ![s] = r.active]
    /\ held' = [held EXCEPT ![s] = r.held]

(***************************************************************************)
(* SessionManager: the operations that move a session, its key and its     *)
(* connected flag.  Detailed in SessionManager.tla.                        *)
(***************************************************************************)

\* launch spawns a login session and registers the key it came with.
Launches(s) ==
    /\ place[s] = "none" /\ \A x \in 1..(s - 1) : place[x] # "none"
    /\ drawn < MaxKeys /\ drawn' = drawn + 1
    /\ Draws(drawn + 1)
    /\ place' = [place EXCEPT ![s] = "Spawning"]
    /\ origin' = [origin EXCEPT ![s] = drawn + 1]
    /\ UNCHANGED <<registrations, connected, incoming, contacts, server, network>>

LaunchInserts(s) ==
    /\ place[s] = "Spawning" /\ registrations[origin[s]] # 0
    /\ place' = [place EXCEPT ![s] = "Launched"]
    /\ UNCHANGED <<registry, origin, connected, incoming, drawn, contacts, server, network>>

\* launch adopts the session that a request of the same client has just
\* spawned: the same key again, or the retry's own.
LaunchAdopts(s, k) ==
    /\ place[s] \in InMap /\ s \in Logins
    /\ \/ k = origin[s] /\ UNCHANGED drawn
       \/ k = drawn + 1 /\ drawn' = k
    /\ Draws(k)
    /\ origin' = [origin EXCEPT ![s] = k]
    /\ UNCHANGED <<registrations, place, connected, incoming, contacts, server, network>>

\* on_play takes the session out of the map, and puts it back Streaming.
PlayTakes(s) ==
    /\ place[s] \in InMap
    /\ place' = [place EXCEPT ![s] = "Playing"]
    /\ UNCHANGED <<registry, origin, connected, incoming, drawn, contacts, server, network>>

PlayStreams(s) ==
    /\ place[s] = "Playing"
    /\ place' = [place EXCEPT ![s] = "Streaming"]
    /\ UNCHANGED <<registry, origin, connected, incoming, drawn, contacts, server, network>>

\* cancel, and a launch that replaces: taken, its key forgotten, released.
CancelTakes(s) ==
    /\ place[s] \in InMap
    /\ place' = [place EXCEPT ![s] = "Released"]
    /\ registrations' = Forget(origin[s])
    /\ UNCHANGED <<nextEpoch, registering, origin, connected, incoming, drawn, contacts, server, network>>

\* A put-aside desktop keeps an origin that nothing reads again; its key is
\* forgotten already.
DropsOrigin(s) ==
    /\ origin' = [origin EXCEPT ![s] = NoKey]
    /\ connected' = [connected EXCEPT ![s] = TRUE]

\* A background_or_discard that leaves the contacts to the next client.
BackgroundKeepsTouches(s) ==
    /\ place[s] = "Released"
    /\ place' = [place EXCEPT ![s] = IF s = Desk THEN "Background" ELSE "Gone"]
    /\ DropsOrigin(s)
    /\ UNCHANGED <<registry, incoming, drawn, contacts, server, network>>

BackgroundOrDiscard(s) ==
    /\ place[s] = "Released"
    /\ place' = [place EXCEPT ![s] = IF s = Desk THEN "Background" ELSE "Gone"]
    /\ SetTouches(s, ReleaseAll(s)) /\ DropsOrigin(s)
    /\ UNCHANGED <<registry, incoming, drawn, server, network>>

\* handoff_to_user: the login stage is discarded, the desktop spawned,
\* resumed or taken from the client that has it.
HandoffTakes(s) ==
    /\ s \in Logins /\ place[s] = "Streaming" /\ incoming = 0
    /\ place[Desk] \in Ended \cup {"Streaming"}
    /\ place' = [place EXCEPT ![s] = "Gone", ![Desk] = "Taken"]
    /\ incoming' = s
    /\ SetTouches(s, ReleaseAll(s))
    /\ UNCHANGED <<registry, origin, connected, drawn, server, network>>

HandoffStreams ==
    /\ place[Desk] = "Taken" /\ incoming # 0
    /\ registrations' = IF origin[Desk] = NoKey THEN registrations ELSE Forget(origin[Desk])
    /\ origin' = [origin EXCEPT ![Desk] = origin[incoming], ![incoming] = NoKey]
    /\ connected' = [connected EXCEPT ![Desk] = connected[incoming], ![incoming] = TRUE]
    /\ place' = [place EXCEPT ![Desk] = "Streaming"]
    /\ incoming' = 0
    /\ UNCHANGED <<nextEpoch, registering, drawn, contacts, server, network>>

(***************************************************************************)
(* Events of the control channel, each under the lock of Shared.           *)
(***************************************************************************)

\* Resolution that any attached session satisfies.
ResolvesAnyone(k) == {s \in Sessions : place[s] \in InMap}

\* resolve_client_key_by_rikey
Resolves(k) == {s \in Sessions : place[s] \in InMap /\ origin[s] = k}

Drives(k) == {s \in Resolves(k) : place[s] = "Streaming"}

\* on_input, for the sessions driven by k (none: the event is dropped)
OnInput(k, m) ==
    IF Drives(k) = {} THEN UNCHANGED contacts
    ELSE \E s \in Drives(k) : SetTouches(s, Touch(s, m))

\* on_peer_connected, on_peer_disconnected: dropped unless Streaming
Connects(ks, value) == [s \in Sessions |-> IF \E k \in ks : s \in Drives(k) THEN value ELSE connected[s]]

(***************************************************************************)
(* serve_blocking.                                                         *)
(***************************************************************************)

\* A sweep that only asks whether the key is still there.
StaleIfForgotten(p, r) == peer[p].st = "Matched" /\ r[peer[p].key] = 0
\* A peer matched under another epoch than its key's current one.
Stale(p, r) == peer[p].st = "Matched" /\ r[peer[p].key] # peer[p].epoch

\* A peer that has had PENDING_MATCH_TIMEOUT to match.
Overdue(p) == peer[p] = Pending(TRUE)

\* The top of the loop: the snapshot ...
Snapshot ==
    /\ loop = "sweep" /\ loop' = "service"
    /\ regs' = registrations
    /\ UNCHANGED <<registry, place, origin, incoming, drawn, contacts, links, sends>>

\* ... then the peers that are cut, those of `stale` with a callback.
Cuts(stale, overdue) ==
    LET cut == stale \cup overdue
    IN  /\ connected' = Connects({peer[p].key : p \in stale}, FALSE)
        /\ peer' = [p \in Peers |-> IF p \in cut THEN Free ELSE peer[p]]
        /\ owner' = [p \in Peers |-> IF p \in cut THEN NoKey ELSE owner[p]]
        /\ link' = [p \in Peers |-> IF p \in cut THEN "none" ELSE link[p]]

\* A loop without the first sweep, and one without the second.
SweepsOverdue == Snapshot /\ Cuts({}, {p \in Peers : Overdue(p)})
SweepsStale == Snapshot /\ Cuts({p \in Peers : Stale(p, registrations)}, {})

Sweeps == Snapshot /\ Cuts({p \in Peers : Stale(p, registrations)}, {p \in Peers : Overdue(p)})

\* is_encrypted_message, then the first registered key that decrypts it.
Authenticates(p, m) == m.encrypted /\ m.kind # "Garbage" /\ regs[owner[p]] # 0

\* The iteration ends, and with it the snapshot.
NextRound == loop' = "sweep" /\ regs' = [k \in Keys |-> 0]

Serves(p) ==
    /\ loop = "service" /\ NextRound
    /\ UNCHANGED <<registry, place, origin, incoming, drawn, links>>

ServesConnect(p) ==
    /\ Serves(p) /\ link[p] = "opening"
    /\ link' = [link EXCEPT ![p] = "up"]
    /\ peer' = [peer EXCEPT ![p] = Pending(FALSE)]
    /\ UNCHANGED <<connected, contacts, owner, sends>>

ServesDisconnect(p) ==
    /\ Serves(p) /\ link[p] = "ended"
    /\ connected' = IF peer[p].st = "Matched" THEN Connects({peer[p].key}, FALSE) ELSE connected
    /\ peer' = [peer EXCEPT ![p] = Free]
    /\ owner' = [owner EXCEPT ![p] = NoKey] /\ link' = [link EXCEPT ![p] = "none"]
    /\ UNCHANGED <<contacts, sends>>

\* A packet of p, sent now or before its link ended.
Receives(p) ==
    /\ Serves(p) /\ link[p] \in {"up", "ended"}
    /\ sends < MaxSends /\ sends' = sends + 1
    /\ UNCHANGED <<owner, link>>

\* Receive on a matched peer, encrypted or not: handle_message.
ServesMatched(p, m) ==
    /\ Receives(p) /\ peer[p].st = "Matched"
    /\ OnInput(peer[p].key, m)
    /\ UNCHANGED <<connected, peer>>

\* Receive on a peer not yet matched: only an encrypted message can match it.
ServesPending(p, m) ==
    /\ Receives(p) /\ peer[p].st = "Pending"
    /\ IF Authenticates(p, m)
       THEN /\ peer' = [peer EXCEPT ![p] = Matched(owner[p], regs[owner[p]])]
            /\ connected' = Connects({owner[p]}, TRUE)
            /\ OnInput(owner[p], m)
       ELSE UNCHANGED <<peer, connected, contacts>>

\* host.service returns after 100 ms with nothing.
ServesNothing ==
    /\ loop = "service" /\ \A p \in Peers : link[p] \notin {"opening", "ended"}
    /\ NextRound
    /\ UNCHANGED <<registry, session, contacts, peer, network>>

(***************************************************************************)
(* The clients and their links.                                            *)
(***************************************************************************)
ClientConnects(p, k) ==
    /\ owner[p] = NoKey /\ \A q \in 1..(p - 1) : owner[q] # NoKey
    /\ links < MaxLinks /\ links' = links + 1
    /\ \E s \in Sessions : origin[s] = k /\ place[s] \in InMap \cup {"Spawning", "Playing"}
    /\ owner' = [owner EXCEPT ![p] = k] /\ link' = [link EXCEPT ![p] = "opening"]
    /\ UNCHANGED <<registry, session, contacts, server, sends>>

\* A clean disconnect, or ENet's own timeout of a client that vanished.
LinkEnds(p) ==
    /\ link[p] = "up"
    /\ link' = [link EXCEPT ![p] = "ended"]
    /\ UNCHANGED <<registry, session, contacts, server, owner, links, sends>>

PeerAges(p) ==
    /\ peer[p] = Pending(FALSE)
    /\ peer' = [peer EXCEPT ![p] = Pending(TRUE)]
    /\ UNCHANGED <<registry, session, contacts, loop, regs, network>>

Serve == \E p \in Peers : ServesConnect(p) \/ ServesDisconnect(p) \/ (\E m \in Messages : ServesMatched(p, m) \/ ServesPending(p, m))

Manage ==
    \/ \E r \in registering : RegisterInserts(r)
    \/ \E s \in Sessions : \/ LaunchInserts(s) \/ PlayTakes(s) \/ PlayStreams(s)
                           \/ CancelTakes(s) \/ BackgroundOrDiscard(s) \/ HandoffTakes(s)
    \/ \E s \in Logins : Launches(s) \/ \E k \in Keys : LaunchAdopts(s, k)
    \/ HandoffStreams

Clients ==
    \E p \in Peers : \/ \E k \in Keys : ClientConnects(p, k)
                     \/ LinkEnds(p) \/ PeerAges(p)

Next == Sweeps \/ Serve \/ ServesNothing \/ Manage \/ Clients

\* One of these is enabled at any point of the loop: a received packet is
\* never what it waits for.
Rounds == Sweeps \/ ServesNothing \/ \E p \in Peers : ServesConnect(p) \/ ServesDisconnect(p)

\* The control thread keeps running, and time passes.
Fairness == WF_vars(Rounds) /\ \A p \in Peers : WF_vars(PeerAges(p))

Spec == Init /\ [][Next]_vars /\ Fairness

(***************************************************************************)
(* Properties.                                                             *)
(***************************************************************************)

\* While the thread waits for and handles an event, every matched peer was
\* matched under the registration its snapshot holds: nothing is handled for
\* a client whose key was replaced or forgotten before the loop came round.
ServedPeersAreCurrent ==
    loop = "service" => \A p \in Peers : peer[p].st = "Matched" => regs[peer[p].key] = peer[p].epoch

\* A contact the compositor believes is down is one the session still tracks,
\* and a session that was put aside or discarded in the middle of a gesture
\* has none left (background_or_discard, discard_running_session).
NoUntrackedContact ==
    \A s \in Sessions : /\ held[s] \subseteq active[s]
                        /\ place[s] \in Ended => held[s] = {}

\* Contacts change through a peer only at the hands of the client the session
\* belongs to at that moment: after a takeover the replaced client's packets,
\* delivered late and before the sweep has cut it, reach nothing.
OnlyTheOwnerTouches ==
    [][\A s \in Sessions :
          sends' # sends /\ (active'[s] # active[s] \/ held'[s] # held[s]) =>
             /\ place[s] = "Streaming"
             /\ \E p \in Peers, m \in Messages :
                   owner[p] = origin[s] /\ (ServesMatched(p, m) \/ ServesPending(p, m))]_vars

\* A peer whose key was registered anew or forgotten is cut, or its own
\* registration is current again: a client never keeps a slot it has lost.
StalePeersGo == \A p \in Peers : Stale(p, registrations) ~> ~Stale(p, registrations)

\* A peer that connects is matched or dropped: one that never authenticates
\* does not occupy one of the host's few slots for ever.
EveryPeerSettles ==
    \A p \in Peers : (peer[p].st = "Pending") ~> (peer[p].st # "Pending")

=============================================================================
