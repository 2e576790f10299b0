------------------------------- MODULE Pairing -------------------------------
(***************************************************************************)
(* Pairing a device: the HTTP phases of /pair (redfog-moonlight pairing.rs,*)
(* clients.rs), the human who relays the PIN with redfog-pair, the files   *)
(* that keep the paired devices and the server's identity (clients.rs,     *)
(* tls.rs), and crashes of the server between and during their writes.     *)
(*                                                                         *)
(* Simplifications.  Every device sends the placeholder uniqueid that real *)
(* clients share, so ClientManager.pending has one entry at most.  An      *)
(* attempt stands for the salt, the PIN and the secrets a device draws for *)
(* it, and a server challenge for the request that made the server draw it.*)
(* Decrypting with another key gives Junk, a hash or a signature verifies  *)
(* what it was made from.  A response that is lost is one whose device has *)
(* given up.  The settings of a device (scale, scale by resolution, name)  *)
(* are one field, whose value is the device they were meant for; a refused *)
(* submission is one whose scale is valid and whose name is not.           *)
(***************************************************************************)
EXTENDS Naturals, FiniteSets

CONSTANTS
    Devices,
    Veteran,     \* the device an older version of the server has paired
    MaxAttempts, \* bound: pairings started on a device
    MaxRelays,   \* bound: calls of redfog-pair
    MaxStarts    \* bound: starts of the server

ASSUME PairingBounds ==
    /\ Veteran \in Devices
    /\ MaxAttempts \in Nat /\ MaxRelays \in Nat /\ MaxStarts \in Nat

Attempts == 1..MaxAttempts
None == 0
Mistyped == MaxAttempts + 1
Pins == Attempts \cup {Mistyped}

VARIABLES
    boot,       \* the server: "down", "identity" (writing its files) or "up"
    idFiles,    \* the last of server-cert.pem, server-key.pem, server-uuid.txt written
    identity,   \* the certificate of server-cert.pem
    disk,       \* paired-clients.json
    persisting, \* persist() between truncating and filling that file
    paired,     \* ClientManager.state: the settings of each device, or Unpaired
    pending,    \* ClientManager.pending of the shared uniqueid
    waits,      \* getservercert requests: "started" or "waiting" for the PIN
    by,         \* the device of each attempt
    device,     \* what each device is doing
    net,        \* requests under way
    relays,     \* submissions of redfog-pair under way
    told,       \* attempts whose PIN has reached their own entry (history)
    starts, calls

files    == <<boot, idFiles, identity, starts>>
store    == <<disk, persisting, paired>>
handshake == <<pending, waits, told>>
people   == <<by, device, net>>
tool     == <<relays, calls>>
vars     == <<files, store, handshake, people, tool>>

Unpaired == [is |-> FALSE]
PairedEntry(settings) == [is |-> TRUE, settings |-> settings]
NoOne == "no one"
Givers == Devices \cup {NoOne}
Entries == {Unpaired} \cup [is : {TRUE}, settings : Givers]

NoEntry == [is |-> FALSE]
NoHash == [is |-> "none"]
Junk == [is |-> "junk"]
HashOf(ch, a) == [is |-> "hash", challenge |-> ch, by |-> a]
Hashes == {NoHash, Junk} \cup [is : {"hash"}, challenge : Attempts \cup {None}, by : Attempts]
PendingClients == [is : {TRUE}, att : Attempts, pin : Pins \cup {None}, challenge : Attempts \cup {None},
                   hash : Hashes, settings : Givers]

Idle == [phase |-> "idle", att |-> None]
Devs == {Idle} \cup [phase : {"getservercert", "clientchallenge", "serverchallengeresp", "clientpairingsecret", "paired"}, att : Attempts]
\* A request of an attempt; `sees`: its device decrypted the server's challenge.
Requests == [step : {"getservercert", "clientchallenge", "serverchallengeresp", "clientpairingsecret"},
             att : Attempts, sees : BOOLEAN]
Submissions == [pin : Pins \cup {None}, settings : Givers, valid : BOOLEAN]
Files == [shape : {"none", "torn", "legacy", "current"}, paired : [Devices -> Entries]]

TypeOK ==
    /\ boot \in {"down", "identity", "up"} /\ idFiles \in {"none", "cert", "key", "uuid", "whole"}
    /\ identity \in 0..MaxStarts /\ disk \in Files /\ persisting \in BOOLEAN
    /\ paired \in [Devices -> Entries]
    /\ pending \in {NoEntry} \cup PendingClients
    /\ waits \in [Attempts -> {"none", "started", "waiting"}]
    /\ by \in [Attempts -> Givers]
    /\ device \in [Devices -> Devs]
    /\ net \subseteq Requests /\ relays \subseteq Submissions
    /\ told \subseteq Attempts /\ starts \in 0..MaxStarts /\ calls \in 0..MaxRelays

Nobody == [d \in Devices |-> Unpaired]

Init ==
    /\ boot = "down" /\ idFiles = "none" /\ identity = 0
    /\ disk \in {[shape |-> "none", paired |-> Nobody],
                 [shape |-> "legacy", paired |-> [Nobody EXCEPT ![Veteran] = PairedEntry(NoOne)]]}
    /\ persisting = FALSE /\ paired = Nobody
    /\ pending = NoEntry /\ waits = [a \in Attempts |-> "none"] /\ told = {}
    /\ by = [a \in Attempts |-> NoOne] /\ device = [d \in Devices |-> Idle] /\ net = {}
    /\ relays = {} /\ starts = 0 /\ calls = 0

(***************************************************************************)
(* The files.                                                              *)
(***************************************************************************)

\* A load_state that takes the old shape for an empty one.
LoadCurrent == IF disk.shape = "current" THEN disk.paired ELSE Nobody
\* load_state, migrate_legacy_state: what cannot be parsed is nobody.
LoadState == IF disk.shape \in {"legacy", "current"} THEN disk.paired ELSE Nobody

\* fs::write truncates the file before it fills it.
Persist(state) ==
    /\ paired' = state
    /\ disk' = [shape |-> "torn", paired |-> Nobody]
    /\ persisting' = TRUE

\* A change of the map that is not written out.
Remember(state) == paired' = state /\ UNCHANGED <<disk, persisting>>

PersistEnds ==
    /\ persisting
    /\ disk' = [shape |-> "current", paired |-> paired] /\ persisting' = FALSE
    /\ UNCHANGED <<files, paired, handshake, people, tool>>

\* A load_or_create that looks for the certificate only.
CanLoadCert == idFiles # "none"
CanLoad == idFiles = "whole"

\* ServerIdentity::load_or_create, then ClientManager::new, which persists
\* what it has loaded.  An empty server-uuid.txt is refused for good.
ServerStarts ==
    /\ boot = "down" /\ starts < MaxStarts /\ starts' = starts + 1
    /\ idFiles # "uuid"
    /\ IF CanLoad
       THEN /\ boot' = "up" /\ Persist(LoadState) /\ UNCHANGED <<idFiles, identity>>
       ELSE /\ boot' = "identity" /\ idFiles' = "none" /\ UNCHANGED <<identity, store>>
    /\ UNCHANGED <<handshake, people, tool>>

NextFile == [none |-> "cert", cert |-> "key", key |-> "uuid", uuid |-> "whole"]

\* A certificate generated for each file.
IdentityRedraws ==
    /\ boot = "identity" /\ idFiles # "whole"
    /\ idFiles' = NextFile[idFiles]
    /\ identity' = identity + 1
    /\ UNCHANGED <<boot, starts, store, handshake, people, tool>>

IdentityWrites ==
    /\ boot = "identity" /\ idFiles # "whole"
    /\ idFiles' = NextFile[idFiles]
    /\ identity' = IF idFiles = "none" THEN starts ELSE identity
    /\ UNCHANGED <<boot, starts, store, handshake, people, tool>>

ClientsLoad ==
    /\ boot = "identity" /\ idFiles = "whole"
    /\ boot' = "up" /\ Persist(LoadState)
    /\ UNCHANGED <<idFiles, identity, starts, handshake, people, tool>>

MidHandshake(d) == device[d].phase \notin {"idle", "paired"}

\* Memory and connections go; the files stay as they are.
ServerCrashes ==
    /\ boot # "down" /\ boot' = "down"
    /\ paired' = Nobody /\ persisting' = FALSE
    /\ pending' = NoEntry /\ waits' = [a \in Attempts |-> "none"]
    /\ net' = {} /\ relays' = {}
    /\ device' = [d \in Devices |-> IF MidHandshake(d) THEN Idle ELSE device[d]]
    /\ UNCHANGED <<idFiles, identity, starts, disk, told, by, calls>>

(***************************************************************************)
(* The device (a Moonlight client; the tests play its part).               *)
(***************************************************************************)
Ready == boot = "up" /\ ~persisting
Send(step, a, sees) == [step |-> step, att |-> a, sees |-> sees]
At(r) == device[by[r.att]] = [phase |-> r.step, att |-> r.att]

\* The device takes the response to r: it sends its next request, or stops.
Proceeds(r, step, sees) ==
    /\ net' = (net \ {r}) \cup (IF At(r) THEN {Send(step, r.att, sees)} ELSE {})
    /\ device' = IF At(r) THEN [device EXCEPT ![by[r.att]].phase = step] ELSE device
Stops(r, outcome) ==
    /\ net' = net \ {r}
    /\ device' = IF At(r) THEN [device EXCEPT ![by[r.att]] = outcome] ELSE device

DeviceStarts(d) ==
    /\ boot = "up" /\ ~MidHandshake(d)
    /\ \E a \in Attempts :
          /\ by[a] = NoOne /\ \A b \in 1..(a - 1) : by[b] # NoOne
          /\ by' = [by EXCEPT ![a] = d]
          /\ device' = [device EXCEPT ![d] = [phase |-> "getservercert", att |-> a]]
          /\ net' = net \cup {Send("getservercert", a, FALSE)}
    /\ UNCHANGED <<files, store, handshake, tool>>

\* The user backs out, or the client's own timeout.
DeviceGivesUp(d) ==
    /\ MidHandshake(d)
    /\ device' = [device EXCEPT ![d] = Idle]
    /\ UNCHANGED <<files, store, handshake, by, net, tool>>

(***************************************************************************)
(* The phases of /pair.                                                    *)
(***************************************************************************)
Handles(r, step) == Ready /\ r \in net /\ r.step = step
Same == UNCHANGED <<files, by, tool>>

\* getservercert: start_pairing replaces whatever entry there is ...
StartPairing(r) ==
    /\ Handles(r, "getservercert") /\ waits[r.att] = "none" /\ Same
    /\ pending' = [is |-> TRUE, att |-> r.att, pin |-> None, challenge |-> None,
                   hash |-> NoHash, settings |-> NoOne]
    /\ waits' = [waits EXCEPT ![r.att] = "started"]
    /\ UNCHANGED <<store, told, device, net>>

\* ... and only then is the request listening for notify_waiters ...
PinListens(a) ==
    /\ waits[a] = "started"
    /\ waits' = [waits EXCEPT ![a] = "waiting"]
    /\ UNCHANGED <<files, store, pending, told, people, tool>>

\* ... for 120 s.
PinNeverTimesOut(a) == FALSE /\ UNCHANGED vars
PinTimesOut(a) ==
    /\ waits[a] = "waiting"
    /\ waits' = [waits EXCEPT ![a] = "none"]
    /\ Stops(Send("getservercert", a, FALSE), Idle)
    /\ UNCHANGED <<files, store, pending, told, by, tool>>

\* derive_key: the entry's salt and the PIN that was submitted.
KeyIsOf(a) == pending.att = a /\ pending.pin = a
HasKey == pending.is /\ pending.pin # None

ClientChallenge(r) ==
    /\ Handles(r, "clientchallenge") /\ Same /\ UNCHANGED <<store, waits, told>>
    /\ IF HasKey
       THEN /\ pending' = [pending EXCEPT !.challenge = r.att]
            /\ Proceeds(r, "serverchallengeresp", KeyIsOf(r.att))
       ELSE Stops(r, Idle) /\ UNCHANGED pending

\* The device goes on if the secret it is sent is the one of its own challenge.
ServerChallengeResponse(r) ==
    /\ Handles(r, "serverchallengeresp") /\ Same /\ UNCHANGED <<store, waits, told>>
    /\ IF HasKey
       THEN pending' = [pending EXCEPT !.hash = IF KeyIsOf(r.att) THEN HashOf(IF r.sees THEN r.att ELSE None, r.att) ELSE Junk]
       ELSE UNCHANGED pending
    /\ IF HasKey /\ pending.challenge = r.att /\ r.sees
       THEN Proceeds(r, "clientpairingsecret", TRUE)
       ELSE Stops(r, Idle)

\* A check that trusts whoever gets as far as the last step.
SecretAny(r) == pending.is
\* The hash over challenge, certificate and secret, and the secret's signature.
SecretVerifies(r) ==
    /\ pending.is /\ pending.challenge # None
    /\ pending.hash = HashOf(pending.challenge, r.att)
    /\ by[pending.att] = by[r.att]

CheckClientPairingSecret(r) ==
    /\ Handles(r, "clientpairingsecret") /\ Same /\ UNCHANGED handshake
    /\ IF SecretVerifies(r)
       THEN /\ Persist([paired EXCEPT ![by[pending.att]] = PairedEntry(pending.settings)])
            /\ Stops(r, [phase |-> "paired", att |-> r.att])
       ELSE Stops(r, Idle) /\ UNCHANGED store

(***************************************************************************)
(* The human and redfog-pair.                                              *)
(***************************************************************************)

\* What a human gives: the PIN, perhaps with settings, perhaps mistyped, or
\* settings alone.  pick_pending_client finds the uniqueid, whoever sent it; the PIN is the one
\* a device shows.
PairTool(d) ==
    /\ boot = "up" /\ pending.is /\ calls < MaxRelays /\ calls' = calls + 1
    /\ \E pin \in {None, Mistyped, device[d].att}, settings \in {d, NoOne}, valid \in BOOLEAN :
          /\ pin # None => device[d].phase = "getservercert"
          /\ settings = NoOne => pin # None /\ valid
          /\ settings = d => pin # Mistyped /\ (valid \/ pin # None)
          /\ relays' = relays \cup {[pin |-> pin, settings |-> settings, valid |-> valid]}
    /\ UNCHANGED <<files, store, handshake, people>>

\* submit_pin_query by uniqueid: the settings up to the one that is refused
\* (then the PIN is not looked at), the PIN, which wakes the entry's request.
SubmitPin(s) ==
    /\ Ready /\ s \in relays /\ relays' = relays \ {s}
    /\ UNCHANGED <<files, store, by, calls>>
    /\ IF ~pending.is THEN UNCHANGED <<handshake, device, net>>
       ELSE LET a == pending.att
                set == [pending EXCEPT !.settings = IF s.settings = NoOne THEN @ ELSE s.settings]
                wakes == s.valid /\ s.pin # None /\ waits[a] = "waiting"
            IN  /\ pending' = IF s.valid /\ s.pin # None THEN [set EXCEPT !.pin = s.pin] ELSE set
                /\ told' = IF s.valid /\ s.pin = a THEN told \cup {a} ELSE told
                /\ waits' = IF wakes THEN [waits EXCEPT ![a] = "none"] ELSE waits
                /\ IF wakes THEN Proceeds(Send("getservercert", a, FALSE), "clientchallenge", FALSE)
                   ELSE UNCHANGED <<device, net>>

\* A setter that leaves writing to the next change.
UpdateForgotten(d) ==
    /\ Ready /\ paired[d].is /\ calls < MaxRelays /\ calls' = calls + 1
    /\ Remember([paired EXCEPT ![d].settings = d])
    /\ UNCHANGED <<files, handshake, people, relays>>

\* redfog-pair --fingerprint: set_scale_for_paired or set_name_for_paired.
UpdatePaired(d) ==
    /\ Ready /\ paired[d].is /\ calls < MaxRelays /\ calls' = calls + 1
    /\ Persist([paired EXCEPT ![d].settings = d])
    /\ UNCHANGED <<files, handshake, people, relays>>

\* /launch over HTTPS with a paired certificate: note_seen writes what the list
\* shows of the device, and that is all it changes.
NoteSeen(d) ==
    /\ Ready /\ paired[d].is
    /\ Persist(paired)
    /\ UNCHANGED <<files, handshake, people, tool>>

Phases == \E r \in net : StartPairing(r) \/ ClientChallenge(r) \/ ServerChallengeResponse(r) \/ CheckClientPairingSecret(r)
Timers == \E a \in Attempts : PinListens(a) \/ PinTimesOut(a)
Startup == ServerStarts \/ IdentityWrites \/ ClientsLoad \/ PersistEnds
Humans == \/ \E s \in relays : SubmitPin(s)
          \/ \E d \in Devices : DeviceStarts(d) \/ DeviceGivesUp(d) \/ PairTool(d) \/ UpdatePaired(d) \/ NoteSeen(d)

Next == Startup \/ ServerCrashes \/ Phases \/ Timers \/ Humans

\* The server's writes and its timer end, and it handles what reaches it,
\* whoever else takes the locks again and again (hence strong fairness).
Fairness ==
    /\ WF_vars(PersistEnds)
    /\ \A a \in Attempts :
          /\ WF_vars(PinListens(a)) /\ WF_vars(PinTimesOut(a))
          /\ SF_vars(\E r \in net : r.att = a /\ (StartPairing(r) \/ ClientChallenge(r) \/ ServerChallengeResponse(r) \/ CheckClientPairingSecret(r)))

Spec == Init /\ [][Next]_vars /\ Fairness

(***************************************************************************)
(* Properties.                                                             *)
(***************************************************************************)

\* However the handshakes of devices that share a uniqueid run into each
\* other, a device is added only at the end of its own attempt, one whose own
\* PIN a human has relayed to the entry that attempt had made.
PairedByOwnPin ==
    [][\A d \in Devices :
          boot' = boot /\ paired'[d].is /\ ~paired[d].is =>
             boot = "identity" \/ \E a \in told : by[a] = d]_vars

\* Outside a write the file says what the server knows: no setting, launch or
\* pairing lives in memory only, to be gone with the next restart.
DiskAgrees == Ready => disk = [shape |-> "current", paired |-> paired]

\* The list is in memory while the server runs, else in the file.
Listed(d) == IF boot = "up" THEN paired[d].is ELSE disk.paired[d].is

\* A paired device stays paired, through updates, other pairings, migration
\* and restarts: only a crash in the middle of a write can lose it.
PairingsAreKept ==
    [][\A d \in Devices : Listed(d) /\ ~Listed(d)' => persisting /\ boot' = "down"]_vars

\* Once a device has reached the server, and pins its certificate, no later
\* start generates another: a crash between the three identity files never
\* leaves a server that runs on some of them.
IdentityStays ==
    [][(\E d \in Devices : device[d] # Idle) => idFiles = "whole" /\ UNCHANGED <<idFiles, identity>>]_vars

\* A device does not hang in a handshake: its request is answered, refused or
\* timed out, also when its entry was taken over or its PIN went elsewhere.
HandshakeEnds == \A d \in Devices : MidHandshake(d) ~> ~MidHandshake(d)

=============================================================================
