# A TLA+ verification of redfog

redfog streams a Linux desktop to Moonlight clients. A client pairs with the
server, POSTs `/launch`, is shown a login screen as a video stream, types a
password, and is handed over to a desktop of its own. A desktop outlives its
client: it is parked in the background on a disconnect and taken up again, from
any client, by the next login of the same user.

This directory holds TLA+ modules translated from the source under
`src/crates/`, TLC configurations that check them on small instances, and TLAPS
proofs for every instance. `PROJECT.json` maps each definition to its lines.

| File | What it is |
| --- | --- |
| `SessionManager.tla` | the session lifecycle of `redfog-moonlight/src/session.rs`: state, operations, properties, and the mutated operations the properties are tried against |
| `MCSessionManager.tla` | client addresses and symmetry for TLC |
| `Desktops.tla` | the abstract specification: what the manager promises to the people who log in |
| `DesktopsRefinement.tla` | the refinement mapping from `SessionManager` to `Desktops` |
| `ControlChannel.tla` | the encrypted control channel, its peers and what they do to sessions (`control.rs`) |
| `Streams.tla` | SETUP and PLAY, ping tokens, learned addresses, frames (`rtsp.rs`, `udp_sender.rs`) |
| `Packetizers.tla` | shards, FEC, audio groups and the next bitrate, as functions (`video.rs`, `audio.rs`) |
| `Pairing.tla` | `/pair`, the PIN, the files of paired clients and identity (`pairing.rs`, `clients.rs`, `tls.rs`) |
| `LoginSpawn.tla` | the socket between the server and a new login screen (`session-backend`) |
| `Capture.tla` | capture thread, encoder thread and who holds the encoder (`kwin-capture`, `session.rs`) |
| `Broker.tla` | broker, session-init, logind and watchdog, with crashes |
| `SessionManagerProofs.tla` | the inductive invariant and six theorems |
| `SessionManagerKeysProofs.tla` | a second invariant on top of it, about rikeys, and the theorem on registration |
| `SessionManagerCalmProofs.tla` | a third one, for requests that do not overlap: no desktop is lost, a user has one, no rikey is left over, and `Desktops` is implemented |
| `ControlChannelProofs.tla` | peers and the clients behind them: four theorems |
| `StreamsProofs.tla` | whose a token is, and what the packetizers make of every input: nine theorems |
| `PairingProofs.tla` | memory, files, identity and PINs: five theorems |
| `CaptureProofs.tla` | who owns a descriptor, and which encoder comes next: three theorems |
| `BrokerProofs.tla` | what covers a tree that no table has: three theorems |

A run is `tlc -config <file>.cfg <module>`, for example
`tlc -config SessionManagerFull.cfg MCSessionManager`; a proof is
`tlapm SessionManagerProofs.tla`.

## Inventory

Names in the third column are the components it talks to.

| Component | State | Operations | Hard behaviour | What makes it correct |
| --- | --- | --- | --- | --- |
| **Session manager** `redfog-moonlight/session.rs` | `Shared::clients` (one slot per paired client: Spawning, Launched, Streaming), `background_sessions`, `pending_logins`, `next_generation`; per session its origin (client, rikey, ping token, bitrate), process and pipelines | launch, cancel, on_announce, on_play, handle_login_report, handle_log_out, handoff_to_user, the two exit watchers, input and loss statistics, shutdown | HTTP threads, RTSP tasks, login-socket tasks and watchers share two mutexes and move sessions between them outside the locks, around awaits of up to 30 s | one owner per session; frames, input and desktops reach only the client that logged in; no desktop is lost or duplicated; slots and keys do not leak; a login ends in a desktop |
| **Control channel** `control.rs` | registry rikey -> epoch; per ENet peer Pending or Matched(rikey, epoch) | register, forget, connect, receive (trial decryption), sweeps | registry changes race the polling loop; a key registered again must displace the old peer | a peer acts only for a key that is still registered with the epoch it matched |
| **RTSP** `rtsp.rs` | one connection's session id and announced parameters | OPTIONS, DESCRIBE, SETUP, ANNOUNCE, PLAY | carries no client identity; the manager guesses by address | parameters and token are those of the client's own session |
| **HTTP plane** `pairing.rs` | routes, PIN page | serverinfo, applist, pair phases, launch, resume, cancel, pin | a 30 s bound on a blocking task that continues behind it; the 120 s PIN wait | an answer matches what was done |
| **Paired clients** `clients.rs`, `crypto.rs` | pending pairings and their phase, paired clients, file on disk | start_pairing, submit_pin, challenge, response, secret, settings | phases repeated, interleaved or abandoned | paired only after the whole exchange with the right PIN; what is persisted is what is in memory |
| **UDP senders, packetizers** `udp_sender.rs`, `video.rs`, `audio.rs` | learned address and waiter per ping token; sequence numbers, FEC state | receive PING, forget, wait, send; packetize | late PINGs, replaced waiters; wrap-around and FEC block boundaries | frames go where the current PING came from; each frame can be rebuilt |
| **Login report server** `login_report.rs`, `redfog-login-protocol` | none | Authenticate, CheckUsername, LogOut | several login processes report at once | a report reaches the session it came from |
| **Login spawn** `session-backend` | socket file, child, frame and input channels | spawn, try_wait, terminate | concurrent spawns share one socket path | a session is connected to the process it started |
| **Login screen** `redfog-login` | form fields, focus, error, user check | click, key, submit, log-out | blocking calls inside the input loop | exits with status 0 only after an accepted password |
| **Broker** `redfog-broker` | active sessions (PAM scope, systemd unit or child) | Authenticate, SpawnSession, SpawnPayload, IsSessionAlive, TerminateSession, terminate_all | long spawns that fail halfway, concurrent requests, restarts | every process it started is either in the table or ended |
| **Watchdog** `redfog-watchdog` | last InvocationIDs | poll, sweep | infers a crash from snapshots | sweeps after a crash and only then, as long as its listing succeeds |
| **Session init** `redfog-session-init` | PAM handle, child | open, wait, close | signals around fork | the PAM session is closed once |
| **Pipelines and input** `redfog-core`, `gst-backend`, `kwin-input` | GStreamer pipelines, loopback, pressed touches | build, start, stop, inject | external daemons that hang | bounded; no contact left down |
| **Capture and encode** `kwin-capture` | capture threads, NVENC session | start, frame, stop | driver calls | frames in order, a clean stop |
| **Server** `redfog-server` | the components | start, signal | shutdown during a launch | no process left behind |
| **Identity, discovery, art** `tls.rs`, `discovery.rs`, `boxart.rs` | files, mDNS record | load, announce | none | not modelled: pure I/O |
| **Tools** `redfog-pair`, `viewer`, `redfog-test-*` | none | | none | not part of the service |

How they interact: `pairing.rs` calls `LaunchHandler` (launch, cancel) on a
blocking thread per request; `rtsp.rs` calls `RtspHandler`, with an address
only; `control.rs` calls `ControlEventHandler` with the rikey that decrypted the
message and reads the registry the manager writes; `redfog-login` talks to the
manager over the login socket and is told its generation in its environment; the
manager talks to the broker by one request per connection; frame callbacks look
up their session by generation (`session_by_generation`).

## The module SessionManager

### State

| Variables | In the code |
| --- | --- |
| `st[c]`, `ses[c]` | `Shared::clients[c].state`: the variant, and the generation of the `RunningSession` inside it (0: none). An absent slot is `"Idle"`. |
| `background[u]` | `background_sessions[u]` |
| `pending[g]` | `pending_logins[g]`, reduced to the user name |
| `registry` | the rikeys in `ControlRegistry` |
| `nextGen` | `next_generation`; a number burnt by a failed spawn is skipped |
| `poisoned` | the `shared` mutex is poisoned |
| `kind`, `origin`, `proc`, `fate` | a `RunningSession`, by generation: its `SessionType`, its `SessionOrigin`, its process, and whether the manager still owns the value or how it ended |
| `client`, `key` | a `SessionOrigin`, named by the generation of the login stage whose launch made it: `client_key` and `rikey` |
| `authed` | history: the user whose password was accepted on that login screen |
| `pc`, `held`, `cl`, `us`, `ref`, `rk` | per task: where it is, the session it owns, and its local variables |

A task is an HTTP, RTSP or login-socket handler (`Requests`) or the exit watcher
of a session, which has that session's generation as its name. A watcher of a
login stage goes on to run `handoff_to_user` itself, as in the code.

### Steps

A step is one critical section of `shared` or of `background_sessions`, or one
awaited call with the straight-line code up to the next lock. So `launch` is
nine actions, and everything else may run between them:

| Code | Actions |
| --- | --- |
| `launch` | `LaunchArrives`, `LaunchWakes`, `LaunchTimesOut`, `LaunchAdopt`, `LaunchReplace`, `LaunchSpawn`, `LaunchFails`, `LaunchRegister`, `LaunchInsert` |
| `cancel` | `CancelArrives`, `CancelReleases` (`LoginReset` when a watcher calls it) |
| `on_play` | `PlayArrives`, then `PlayFresh` (through `start_streaming`) or `PlayRetake` |
| `watch_login_exit` | `WatchLoginExit`, `LoginReset` |
| `handoff_to_user` | `HandoffTakes`, `HandoffLooksInBackground`, `HandoffLooksForActive`, `HandoffDetaches`, `HandoffResumes`, `HandoffSpawns`, `HandoffStreams` |
| `watch_user_session_exit` | `UserTicks`, `UserLooksInBackground`, `UserAsks`, `UserReaps` |
| `handle_log_out` | `LogoutArrives`, `LogoutLooksForActive`, `LogoutTerminates` |
| `handle_login_report`, exit 0 | `LoginSucceeds` |
| a process that ends by itself | `ProcessDies` |
| `lock().unwrap()` on a poisoned mutex | `Panics` |

`TakeSlot` is `take_active_session`, `PutSlot` is `clients.insert` (it drops what
was there), `Release` is `drain_pending` + `forget` + `background_or_discard`,
and `ResolvesTo` is `resolve_client_key_by_ip`.

### What is abstracted, and why it is safe

* `handoff_to_user` takes whatever streams in the slot. A session that reported no
  user is then lost: the code goes on with the placeholder user name `"user"` and
  an empty password, taken here to be refused by the broker and to have no
  desktop, so `HandoffTakes` ends the handoff there.
* Desktops are spawned by the broker, so a desktop's exit is seen by asking it
  (`UserAsks`), never by a local child handle. The stand-alone mode is left out.
* A login process is taken to report the generation, and to draw on the frame
  socket, of the session that spawned it. `LoginSpawn` shows when that is so: as
  long as two spawns do not overlap (run `login_spawn`).
* The password check of a log-out (`Authenticate`) has succeeded when
  `LogoutArrives` fires; a refused one changes nothing. `handle_check_username`
  only reads.
* Pipelines, ping tokens, wait tasks, codec, bitrate and touches are left out.
  They change no slot and no map. `Capture`, `Streams` and `ControlChannel` have
  them.
* `std::thread::spawn(discard_running_session)` is the end of a session: its
  fate is decided when the thread is started.

## The module Desktops and the refinement

`Desktops` says what the manager promises: a desktop comes into being for a user
whose password a login screen accepted, it is the user's only one, it is shown
on one client at a time and only as the answer to a login of that user there, it
can be taken out, parked and shown again any number of times, it ends only when
its user has left or its processes are dead, and it is not in transit for ever.

`DesktopsRefinement` reads that off `SessionManager`: a desktop is *shown* when
a slot has it, *parked* when `background_sessions` has it, *leaving* when
`handle_log_out` has taken it, *moving* when any other task has it; the login
screen it answers is its origin's launch. `ImplementsDesktops == D!Spec` is a
property of `calm`, fairness included; its safety part `D!SafeSpec` is proved. The
mutant resumes a desktop where it was
shown last instead of where its user has just logged in.

## The module ControlChannel

| Variables | In the code |
| --- | --- |
| `registrations`, `nextEpoch`, `registering` | `ControlRegistry`; the last are calls of `register` between drawing the epoch and the insert |
| `place`, `origin`, `connected`, `incoming` | where each session is, its rikey, `SessionOrigin::connected`; `SessionManager` has the details |
| `active`, `held` | `active_touch_ids`, and what the compositor believes |
| `loop`, `regs`, `peer` | `serve_blocking`: where it is, its snapshot of the registrations, `PeerRikeyState` |
| `owner`, `link` | the client at the other end of a peer and its connection |

`Sweeps` is the head of the loop: it takes the snapshot and cuts stale and
overdue peers. `ServesConnect`, `ServesDisconnect`, `ServesMatched`,
`ServesPending` and `ServesNothing` are the outcomes of one `service` call.
Decryption succeeds when the sender's key is the one that is tried. Between
sweep and service everything else may run, which is what the epochs are for.

## The modules Streams and Packetizers

| Variables | In the code |
| --- | --- |
| `slot`, `parked`, `forgetting` | the clients' sessions, with the tasks that have one in their hands, and tokens on their way to `drain_pending` |
| `learned`, `queue` | `SharedState::addresses` and the socket's receive buffer |
| `window` | a client's streaming window: its port, the token SETUP gave it, whether it has had a packet |
| `tasks` | frames between the encoder callback and the socket |

PINGs of a closed window stay in the buffer and are learned late; a desktop
changes its origin, and so its token, at a handoff; a frame copies the origin
under the lock and is sent later. `Packetizers` has no state: `Packetize`,
`PacketizeAudio` and `AdaptBitrate` are checked over inputs at the boundaries
(frames that fill a shard exactly or by a byte more or less, 1 to 1023 shards,
numbers about to wrap, Opus frames of another length at every place of a group,
targets with the floor of 1000 kbps and above it). A payload is its length.

## The module Pairing

| Variables | In the code |
| --- | --- |
| `boot`, `idFiles`, `identity` | start of the server, the three files of `ServerIdentity` |
| `disk`, `persisting`, `paired` | paired-clients.json, a write that has truncated it, `ClientManager::state` |
| `pending`, `waits` | the one entry of `ClientManager::pending` (real clients share a uniqueid), and the getservercert requests that wait for its PIN |
| `device`, `net`, `relays` | the devices, their requests under way, and those of redfog-pair |

Each of the four phases is an action with the early returns of its handler; the
PIN wait can time out at any moment; `ServerCrashes` may come between and inside
the writes. A hash, a signature or a decryption stands for what it was made
from; decrypting with another key gives junk.

## The module LoginSpawn

One variable per thing the rendezvous is made of: what the path names, where
each `spawn_login_compositor` is, its process, each listener's backlog, and the
process whose frames a session shows. `RemovesStale`, `Binds`, `StartsProcess`,
`Accepts`, `GivesUp`, `Unlinks` are the function in order.

## The module Capture

| Variables | In the code |
| --- | --- |
| `desk`, `output`, `connected`, `lock` | the desktop's `RunningSession`, the compositor's size, its origin's flag, and the encoder that is joined while `shared` is locked |
| `refs` | who has a clone of the encoder's `Arc`: the session, the 700 ms keyframe task, a loss report |
| `enc`, `cap`, `open` | encoder thread (or frame pusher), capture thread with its channel, dup'd descriptors |
| `picture` | the encoder whose keyframe the attached client has |

Both kinds of consumer are modelled (`direct`). Frames carry the buffer they came
from and the size they were said to have; a consumer closes the descriptor of
every frame it does not import. `EncodingFails` is any driver error.

## The module Broker

| Variables | In the code |
| --- | --- |
| `broker`, `server` | the two services with their InvocationIDs |
| `active`, `job`, `term`, `ask` | `SessionManager::active`, and the requests of each id, step by step |
| `init`, `sig`, `logind`, `tree` | redfog-session-init, a signal it has not acted on, the logind session, the compositor's processes |
| `pw`, `cred`, `acl` | the session's PipeWire start, the credential socket, what redfog-server may reach |
| `dog` | the watchdog: last InvocationIDs, the reading in hand, whether it is about to list the sessions, the kills to do |
| `slipped` | history: sessions that a failed call may have let run on, until a sweep lists them again or the broker ends |

A request is cut where it awaits or calls systemd, so a crash of either service,
a signal, a log-out or a poll of the watchdog falls between any two steps.

Calls of `systemctl` and `loginctl` may fail, as `Fault` counts, wherever the code
branches on the result, and where it only logs a failed kill-session:

| Call | A failure in the code | In the model |
| --- | --- | --- |
| is-active, show (watchdog main.rs:96-115) | reads as "not active", or as an empty id | `Readings`, `Reads` |
| list-sessions (watchdog main.rs:153-170) | an empty list; the last readings have advanced all the same (71-72), so this crash is never swept for | `DogLists` |
| show-session, kill-session of the sweep (134-149, 171-177) | the session is passed over, for good | `DogKills` |
| show-session of `is_session_alive` (broker session.rs:971) | the session counts as gone: it leaves the table, its units are stopped, the server is told so | `AskLooksUp`, then `ServiceStops` for what systemd does to a session-init that still runs |
| signalling the unit (broker session.rs:1100) | the wait is skipped, kill-session follows | `TerminateSignals` |
| kill-session of `terminate` (1136-1144) | logged | `TerminateKills` |
| starting the units, the reports and sockets polled for | the request fails | `SpawnStartsUnits`, `SpawnReadsReport`, `SpawnFinishes` |

## Runs

Deadlock is not checked anywhere: the system may be idle, and stops at the
bounds.

| Run | Configuration | Checks |
| --- | --- | --- |
| `full` | 2 clients behind one address, 2 users, 2 requests at once, every failure, overlapping requests; symmetric; 786,024 states | the seven properties that hold under every overlap |
| `calm` | 2 clients, 2 users, 1 request, failures of login spawn, TerminateSession and IsSessionAlive, no overlapping requests; fair; 44,135 states | the three properties that need the restraint, liveness, and the refinement |
| `control` | 2 keys, 2 logins, 2 peer slots, 2 epochs, 2 connections, 2 messages, 1 contact; 438,715 states | peers and contacts, safety and liveness |
| `streams` | 2 clients, 2 launches, 2 windows, 2 PINGs in the buffer, 1 frame under way; 235,763 states | frames and PINGs, and the packet layouts |
| `pairing` | 2 devices, one of them paired by an older version, 2 attempts, 2 relayed PINs or updates, 2 starts; 622,638 states | pairing, files, crashes |
| `capture` | 1 buffer, 2 encoders in turn, 1 frame in the channel; 1,111,772 states | descriptors, order of encoders, keyframes |
| `broker` | 1 session id, 2 starts of each service, 1 crash or failed call; 417,210 states | orphans, grants, ends |
| `relaunch` | 1 client, overlapping requests | a launch during a handoff drops a live desktop |
| `two_handoffs` | 2 clients, 1 user, overlapping | two logins of one user make two desktops |
| `lost_watcher` | 1 client, no overlap | a desktop being parked or resumed loses its watcher |
| `stuck_build` | 1 client, the build may time out | the mutex is poisoned |
| `login_spawn` | 2 spawns | a session shows another one's login screen |

Why the bounds are enough for the cases they are meant for. `SessionManager`:
`MaxLaunches = 2`, and `MaxGen = 2 * MaxLaunches` sessions, since a launch makes
one login stage and a login stage at most one desktop; the first launch makes a
desktop, the second replaces, resumes, takes over or races it. `ControlChannel`:
the second key, epoch and connection displace the first, and two messages are a
contact and what follows it. `Streams`: the second window and token replace the
first while its PINGs are in the buffer. `Pairing`: the second attempt is that of
another device or of the same one again; a crash and a restart. `Capture`: one
buffer number suffices for a frame of a number that is imported already, and two
encoders for one that replaces another. `Broker`: session ids share nothing but
the table and the watchdog's list, which every step treats id by id; the second
start is the one after a crash or a stop (the last instance of the server may
crash, but is not stopped, so that the bound on starts does not end every run). One
fault is a crash and the sweep after it, or one failed call with clean stops and
starts of the services around it.

For `SessionManager`:
`ClientIp` is one shared address in `full`, where PLAY has to guess whose session
it starts, and one address each in `calm`.

`Failures` selects which awaited calls may fail. In `full` all may. In `calm` the
failures that end a handoff with an error (compositor, session, reconcile) are
off, since then a login rightly brings up no desktop; and so is the 15 s build
timeout, which poisons the mutex (`stuck_build`).

`Overlap = FALSE` restrains the environment, not the program: a client or user
starts nothing while an operation for the same client or user, or a poll of its
desktop by the broker, is in flight, and a client PLAYs once per launch and only
when the watcher of the login stage it has replaced is gone (a login stage takes
longer to come up than that watcher's 500 ms tick). Watchers, processes and other
clients are never restrained. What the code does without this restraint is what `relaunch` and
`two_handoffs` show.

### Properties

`SessionManager`:

* `OneHome`: a session is in one slot, or one background entry, or one task's
  hands.
* `BackgroundIsTheUsers`: a background entry is a live desktop of its user.
* `FramesReachTheAttachedClient`: an attached session's origin is its client's
  own and shared with no other attached session.
* `AttachedOnlyAfterLogin`: a client has a desktop only if its user's password
  was accepted on the login screen of that launch.
* `AttachedIsRegistered`: an attached session's rikey is registered, except
  inside a retried launch.
* `SpawningHasOwner`: a Spawning slot has a request that will replace it.
* `NoDesktopLost`, `OneDesktopPerUser`, `RegistryIsExact`: see above.
* `SpawningEnds`, `AcceptedLoginShowsDesktop`: liveness.
* `ImplementsDesktops`: the refinement.

`ControlChannel`:

* `ServedPeersAreCurrent`: what is handled for a peer was matched under the
  registration that the loop's snapshot holds.
* `NoUntrackedContact`: the compositor believes no contact down that the session
  has forgotten, and none at all in a session put aside.
* `OnlyTheOwnerTouches`: late packets of a replaced client move nothing.
* `StalePeersGo`, `EveryPeerSettles`: liveness of the sweeps.

`Streams`:

* `FramesGoToTheirClient`: a frame on its way goes to its session's client or to
  nobody.
* `PlayedWindowGetsPicture`: liveness, with late PINGs of closed windows in the
  buffer.
* `FramesReassemble`, `AudioGroupsRecover`, `BitrateSettles`: what a frame that is
  on its way, the audio that streams and a client's loss reports rely on in
  `Packetizers`. The first says for every size that there are as many shards as the
  advertised percentage asks for *or the block of 255 has room for*; that the
  percentage alone says what was generated does not hold (see the observations).

`Pairing`:

* `PairedByOwnPin`: a device is added only by the end of its own attempt, whose
  own PIN was relayed to its own entry.
* `DiskAgrees`, `PairingsAreKept`, `IdentityStays`: memory, file and identity
  through updates, migration and crashes.
* `HandshakeEnds`: liveness.

`Capture`: `FdsAreOwned` (descriptors, whenever a consumer ends),
`OldEncoderGoesFirst` (two encoders overlap only when a task had borrowed the
old one), `Progress` (a keyframe asked for arrives; an encoder nobody holds
ends).

`Broker`:

* `NoSilentOrphan`: processes that run are in the table, in a request's hands, or
  the watchdog's next business; or they belong to a spawn that failed or was lost
  with its broker, or have `slipped`.
* `GrantSurvives`: a successful spawn leaves the server able to reach PipeWire.
* `OrphansAreSwept`, `DeadMeansGone`, `TerminateEndsTree`: what a crash left behind,
  what was reported dead and what is being terminated ends, or has `slipped`.

The exception for `slipped` is what the code gives: nothing repeats a sweep or a
kill that failed, so "the watchdog sweeps after every crash" and "a terminated
session ends" hold only when those very calls work. A crash, a failed reading of
the watchdog, a failed signal, or the wrong answer "gone" by itself is no
exception.

Each module but `Packetizers`, `LoginSpawn`, `Desktops` and `Capture` has a type
invariant that a run checks (that of `Capture` is in `CaptureProofs`, and proved).
Each property of a passing run has a mutant in
`PROJECT.json`: an operator of the module, most of them marked "Mutant of",
replaces the real one, and TLC then finds the property violated.

### Fairness

* `SessionManager`: weak fairness of `Serve(t)` and `Watch(g)`. A request's
  thread that can take its next step takes it, and a watcher's timer fires. The
  mutexes are held for straight-line code only, and every awaited call is bounded
  by a timeout in the code. Nothing is asked of requests, users or processes.
* `Desktops`: a desktop in transit arrives. `calm` shows that the manager gives
  that.
* `ControlChannel`: the control thread goes round its loop, and a peer's time
  limit passes.
* `Streams`: tasks run. A client's repeated PING and the encoder's next frame get
  strong fairness: both come again and again, and the buffer and the task are
  free again and again.
* `Pairing`: writes and the PIN timer end. Requests get strong fairness, since a
  handler waits for a lock that others take and leave.
* `Capture`: threads and tasks run, and the desktop that is shown goes on
  drawing. The check for a request to stop gets strong fairness: it is made at
  the head of every round of the encoder's loop.
* `Broker`: the broker's tasks, session-init (with the systemd that stops it) and
  the whole round of the watchdog run. Nothing obliges a service to crash, a call
  to fail, or a service to be started again.

### Findings

1. `relaunch`: `clients.insert` drops a live desktop (session.rs:2108, :2751).
2. `two_handoffs`: check and create in `handoff_to_user` are separate steps
   (session.rs:2448).
3. `lost_watcher`: "in neither map" is also true of a desktop in transit
   (session.rs:2303).
4. `stuck_build`: an `expect` under the shared mutex poisons it
   (session.rs:2224).
5. `login_spawn`: all spawns of a login screen share one socket path, so two at
   about the same time get each other's process or none
   (session-backend lib.rs:498).

`PROJECT.json` quotes what the code's own comments promise for each.

### Observations

Met while modelling, kept as part of the models, and without a run of their own:

* `SessionOrigin::connected` is one flag per session. When a client reconnects
  under the same key, its old peer's Disconnect, serviced later, clears it, and
  the frame callbacks send nothing until another event sets it (session.rs:3610).
* The 700 ms keyframe task (session.rs:2070, 2136) and `on_loss_stats` (3573)
  hold clones of the encoder's `Arc`, so `cuda_direct_session = None` does not
  always end the old encoder before the new one is built (1597-1608).
* A watcher ends what is where it saw a dead session, without a second look. If a
  log-out and a new login of the same user leave two watchers for one user, both
  may ask about the same dead desktop, and the later answer ends the desktop that
  has been parked or attached there since (`watch_user_session_exit`,
  session.rs:2333-2360). The proof for `calm` found this; the restraint rules it
  out.
* `clients.insert` (2110, 2752) drops a session under `shared`; its encoder's
  `Drop` joins a thread that may be waiting for the same lock. `Progress` makes
  an exception of that state.
* The first IDR frame of a new encoder may come before its session is in a slot;
  only the 700 ms task repairs that.
* The frame pusher ends for good after 200 ms without a frame (redfog-core
  lib.rs:901), which the documentation of `next_frame` calls normal for an idle
  desktop (pipewire_capture.rs:487-491).
* A failure between the dup of a descriptor and the driver's taking it leaves it
  open, once per encoder (`lost` in `Capture`).
* A sweep after an ordinary restart of a service also ends sessions that the new
  instance has begun meanwhile (watchdog main.rs:92).
* The FEC percentage that is advertised is not lowered when a block of 255 shards
  has no room for the parity (video.rs:194), although the comment above it says
  that the field "must reflect what was actually generated" (174-177). At 20 percent
  that is so for every frame of more than 212 data shards: with 213 there are 42
  parity shards where the percentage says 43, from 255 on there are none. A client
  must know the limit of 255 to find the number (`TellsItsParity`).
* One failed list-sessions loses a sweep: the watchdog takes the new readings for the
  last ones whether or not it could list anything (watchdog main.rs:71-72, 153-164),
  and one failed show-session or kill-session passes a session over (134-149,
  171-177). A spawn that is in flight while the broker stops, a restart and one such
  failure leave a tree that nothing looks for until the next crash.
* `is_session_alive` takes any failure of `loginctl show-session` for "gone" (broker
  session.rs:971). The server then forgets a desktop in use, and its processes are
  ended by the stop of the unit; if systemd has to kill session-init for that, they
  go on in logind's scope, in no table (broker session.rs:972-990).
* `adapt_bitrate_kbps` has a floor of 1000 kbit/s, also for a target below it.
* Behind NAT, SETUP may answer with the token of another client's session
  (session.rs:2838-2843); `Streams` gives every client an address of its own.
* `spawn_payload` clears the environment, so redfog-session-init finds no
  credential and exits while SpawnPayload answers Ok. `is_session_alive` says yes
  of a logind session in state "closing".

## Proofs

Eight modules hold 35 theorems. Each is about every value of the constants that
satisfies the module's named assumption (`ConstantsAssumption`, `ControlBounds`,
`StreamBounds`, `PairingBounds`, `CaptureConstants`, `BrokerBounds`), which TLC
evaluates in every run of the module. They say that bounds are naturals, that
`Buffers` is finite, and that markers such as `"none"` are not members of the
sets they are told apart from. Nothing else is assumed: the sets of clients,
keys, devices or session ids may have any size. Every invariant that a passing run
checks is the subject of one of them.

The properties are not inductive as they stand, so each proof module defines an
`IInv` that is. TLC found each of these to hold on the run's instance
(`CaptureProofs` also with two buffers)
before it was proved. In each module one lemma per action, or group of
actions, says that `IInv` is preserved; a last one combines them.

### SessionManager

For any sets of clients, users and requests, any addresses, any bounds, any
failures and either value of `AllowConcurrentPerUser` and `Overlap`:

* `TypeCorrect`: `Spec => []TypeOK`
* `SessionsHaveOneHome`: `Spec => []OneHome`
* `ParkedDesktopsAreTheUsers`: `Spec => []BackgroundIsTheUsers`
* `FramesAreNotMisdirected`: `Spec => []FramesReachTheAttachedClient`
* `NoDesktopWithoutLogin`: `Spec => []AttachedOnlyAfterLogin`
* `SpawningSlotsHaveOwners`: `Spec => []SpawningHasOwner`
* `AttachedSessionsAreRegistered`: `Spec => []AttachedIsRegistered`

The invariant is
`IInv == TypeOK /\ Owned /\ Descent /\ Hands`:

* `Owned`: what a slot, a background entry or a task holds is live and has one
  home, and a slot's session carries an origin of the slot's client. It is
  needed because a session is torn down by whoever holds it, and two holders
  would end each other's.
* `Descent`: numbers not yet given out are unborn; a live session's origin was
  made by the launch of a login stage; a report that waits for a live session is a login stage's and names the user whose password it accepted; and
  one live session at most bears an origin. The last makes frames unambiguous
  after any number of takeovers: the login stage gives up its origin before the
  desktop gets it.
* `Hands`: for each task, what its program counter says of its local variables:
  a handoff that has taken the login stage holds that stage's origin, which
  nobody else bears, and `us` is the user who proved his password there; a
  request in `launch.insert` holds a login stage made for its own client.

The proof has a lemma for each way a session moves (slot to task, task to slot,
background to task, task releases, task makes), lemmas for steps that move
nothing, one lemma per action saying that it preserves `IInv`, and one that
combines them.

`SpawningHasOwner` is inductive given `IInv`: only a request makes a slot
Spawning, and it stays at a program point of `launch` until the slot is not.

`AttachedIsRegistered` needs a second invariant, `KInv == KeysApart /\ Registered`,
which is inductive given `IInv` and which TLC also finds to hold in `full`:

* `KeysApart`: every rikey belongs to one origin, or to one request whose session
  is not made yet. Without it, forgetting one session's rikey could forget
  another's.
* `Registered`: the rikey is registered, or a retried launch is about to register
  it, for every origin that is attached, that a task is about to attach, or that
  a handoff carries. The last two are the windows in which a session is in no
  slot and its rikey must survive. The places that forget a rikey
  (`Release`, `LogoutLooksForActive`, `HandoffDetaches`, `UserReaps`) each do it
  for an origin that by `OneBearer` nobody else needs.

#### Without overlapping requests

`SessionManagerCalmProofs` has what `calm` checks, for any sets of clients, users
and requests and any bounds:

* `NoLiveDesktopIsLost`: `Spec => []NoDesktopLost`
* `OneDesktopForEachUser`: `Spec => []OneDesktopPerUser`
* `NoRikeyOutlivesItsSession`: `Spec => []RegistryIsExact`
* `DesktopsAreImplemented`: `Spec => D!SafeSpec`

They assume `CalmRuns`: `Overlap` and `AllowConcurrentPerUser` are FALSE and the
15 s build timeout, which poisons the mutex, does not happen; the failures of
login spawn, compositor, session, reconcile, TerminateSession and IsSessionAlive
may. The third also assumes `KeyRuns`, that none of the three failures that end a
handoff happens: they leave the rikey of the login registered. The fourth assumes
`NoneGivenUp`: a failed spawn_session, or a failed encoder rebuild on a resume, ends
a desktop that is alive and that nobody left, which `Desktops` does not allow.

The code holds no lock across an operation, so each task acts on what it saw some
steps ago. The invariant `CInv` says why that is still true:

* `TaskOK`, for each task: the client it works on has the slot it left there
  (`SlotOf`), what it owns is of its user and its client (`Carries`), a handoff
  that goes on to spawn has seen that there is no desktop and there still is none
  (`Knows`), and a watcher that asks about a desktop finds that one or nothing
  where it saw it, and if the broker said so, dead (`Polls`).
* `Exclusive`: which two program points exclude each other for two tasks that have
  the same client or the same user. The restraint says that only of the moment a
  request arrives. The watchers are not restrained, and the steps that turn a
  watcher into a handoff or a reset are where it has to be shown.
* `DueAlone`: between the exit of the login screen and the handoff nobody works on
  the user who logged in, and no second screen has accepted his password.
* `Homed`: a live desktop is in a slot, parked or in a task's hands, so a handoff
  that finds none there may spawn one.
* `Unwatched`: a session that has not streamed has no watcher yet.

For a step of task x, `CalmStep` reduces the invariant to what x does to the slots
and sessions of others (`Respects`), whether it may be where it goes (`Alone`), and
what it knows there; one lemma per action shows these.

`Exact` is the invariant for the registry: every rikey in it is that of a session
in a slot, of one in the hands of a task at a point where it is not forgotten yet
(`RetainPcs`), or of an origin that a handoff carries. `KInv` is needed once more:
a new session has the rikey its `/launch` registers.

The refinement maps each action to a step of `Desktops` or to none. What
`Desktops` says of a desktop is computed from where it is, and that from all slots,
entries and tasks, so the proof first turns it round:

* `Places` reads `PlaceOf` and `ClientOf` off the one place that has the session,
  which `OneHome` says there is. With `Homed` it follows that a step moves no
  desktop that stays where it was (`PlaceStays`, `OthersKeepPlaces`), and that an
  action moves the session its task works on and no other (`Moves`).
* `Screens` is one more invariant: a login screen that runs has accepted nobody
  yet, and the origin that a handoff carries has been given to no desktop, alive
  or not. That is why one password opens or shows one desktop: `D!Opens` and
  `D!Shows` ask that no desktop has that screen.
* A parked desktop displaces none (`ReleasedIsParked`, from `OneDesktopPerUser`), a
  new one is its user's first (`HandoffOpens`, from `Knows`), a shown one finds the
  slot of its client empty (`HandoffShows`, from `SlotOf`), and one that ends is
  dead or logged out (`WatcherEnds`, from `Polls`).

### ControlChannel

`PeersAreCurrent`, `ContactsAreTracked`, `OwnersTouch` and `TypesHold`. The first
two are inductive together with the types; the third is an action property, and
needs `PeersAreTheirClients`: a slot that no client is behind is Free, and a
matched one has the key of the client behind it. Without it a packet could be
decrypted with one client's key while it came from another's connection.

### Streams

`FramesGoHome` and `TypesHold`. A frame carries a token, the socket maps the token
to an address, and both outlive the session. The invariant is that a token has
one client wherever it is met (`Holds`: slot, window, learned address, buffered
PING, frame under way) and that nothing holds a token that has not been drawn.
`Shape` ties a slot's and a window's fields to their phase.

The other theorems are about the operators of `Packetizers`, for every input:

* `EveryFrameReassembles`: any frame of up to 1023 shards, any start of the
  sequence numbers, any FEC percentage up to 255 (the header has eight bits for
  it; a larger `REDFOG_VIDEO_FEC_PERCENTAGE` would not fit). The parts are lemmas:
  the three fields of `fec_info` do not run into each other (`FecInfo`), the last
  shard's size is what remains (`DataShards`), and the percentage that the floor of
  two parity shards makes of the configured one gives two back (`Parity`). How many
  shards there are is stated for all sizes, with the limit of a block in it.
  `FramesAreWhole` states from it that `FramesReassemble` is an invariant.
* `EveryAudioGroupIsCovered`: streams of any length, with frames of any lengths and
  times. `AudioFollows` says what the packetizer keeps of the stream between two
  frames; `AudioStep` is the step of the induction. `AudioIsRecoverable` states from
  it that `AudioGroupsRecover` is an invariant.
* `BitrateFollowsTheClient` (one report) and `EveryBitrateSettles` (any number of
  them): any target of at least 1000 kbps and any bitrate between the floor and the
  target. While the client keeps up, each report adds a twentieth of any bitrate
  that was reached before (`Climbs`): twenty-one double it, twenty-one more double it
  again, and the target is at most four floors and 3 kbps. While it lags, each takes
  away 15 percent of the floor (`Falls`). `BitratesSettle` states from it that
  `BitrateSettles` is an invariant.

The induction is stated with sets, not operators: a set of numbers that has 0 and
with each number the next is `Nat` (`Induction`, from the well-foundedness of `<`).
From it, a first value and a step make a function (`RunsExist`), so the recursive
definitions of `AudioRun` and `Settled` denote the runs that the theorems are about.

### Pairing

`DiskFollows`, `OwnPinPairs`, `ListsSurvive`, `IdentityIsKept` and `TypesHold`; three
of them are action properties. The invariant has one part for each:

* `FileAgrees`: a file is the list in memory unless it is being written, and one
  that cannot be parsed lists nobody. `ListsSurvive` is that through a restart.
* `IdentityIsWhole`: all three identity files exist once the server is up or a
  device has reached it, so that no later start finds a part of them.
* `PinWasTold`: a key made from an attempt's own PIN, and a hash made with it, are
  in the pending entry only if a human relayed that PIN. The entry is shared and
  replaced, and a hash stays in it after the key is gone, so the two are
  separate facts.
* `AttemptsAreDevices`: an attempt that is met anywhere has a device.

### Capture

`DescriptorsAreOwned`, `OldOneIsGoneOrLent` and `TypesHold`, which also says that
the number of open descriptors never goes below zero. `Owns` says of each
encoder what its consumer still owns at the stage of its end it has reached:
nothing is imported any more once it unwinds, nothing is queued once it is
gone. `TurnOf` says that an encoder the desktop has not come to does not exist,
and one it has left behind and that still runs was lent to a task.

### Broker

`NoTreeForgotten`, `GrantsSurvive` and `TypesHold`. The invariant relates, for each
session id, the request (`SpawnOf`), the processes (`TreeOf`), the table
(`TableOf`) and, for a tree the table has lost, what will end it (`CoveredOf`): a
request that terminates it or has its unit stopped, a parent that is closing, or
the broker's new InvocationID, which the watchdog has not seen or is sweeping for;
or else that it has slipped through a failed call. A second part of `CoveredOf` is
about a tree whose session-init is gone already: stopping the unit is no cover for
that one. All this is
stronger than `NoSilentOrphan`, which may also rely on the server's
InvocationID. That a sweep lists everything that is left to it is `ListKeeps`: a
running session that logind does not know is closing, or a child in the table.
`DogIsBehind` keeps the watchdog's last reading from running ahead
of the broker.

### Only model-checked

* The liveness part of the refinement of `Desktops`.
* `LoginSpawn`, whose one property does not hold.
* All liveness properties: the prover does not handle fairness and ENABLED.

## Hazards

`PROJECT.json` lists what is hard to test in this code, each at its line, with
the properties that cover it. Those without a property have a note, since the code
does nothing about them, or promises nothing:

* a login that was replaced leaves its `pending_logins` entry behind;
* a reported failure of a resume ends a desktop;
* a spawn that fails in the broker after its unit was started, or that the server
  gives up waiting for, leaves a tree (`NoSilentOrphan` makes an exception of it);
* a TerminateSession that fails is only logged;
* the answer of IsSessionAlive is used after the await (the restraint of `calm` rules
  out that it is stale, `full` promises less);
* the frame pusher ends when the desktop is idle;
* `clients.insert` joins an encoder under the lock (`Progress` makes an exception);
* the `connected` flag above.

Three have a property that covers a part, and a note that says which: a sweep that
fails (`slipped`), a target below the floor of 1000 kbps, and a write of
paired-clients.json that is torn (`PairingsAreKept` makes an exception of it) or
fails.

## Not modelled

* Drawing, fonts and keymaps of the login screen, and its form: one thread, no
  promise beyond the exit status.
* What GStreamer, PipeWire, CUDA, Vulkan, NVENC, KWin and systemd do. A call
  into them succeeds, fails or is late; `Capture` and `Broker` keep the results
  that the code reads.
* Construction of pipeline strings, encoder and codec choice, SDP, XML and other
  formatting, and the parsing of messages beyond what keeps state.
* Keyboard, pointer and gamepad input, which keeps no state in the server.
* `on_announce`: the stream parameters are used by the driver calls only.
* mDNS, box art, configuration files, the viewer and test support.
* `reconfigure` of the direct encoder, which has no caller, and
  `rebuild_for_resume`, which does nothing.

Covered by a simplification only: several audio and video sockets (one stands for
all in `Streams`); several desktops (`ControlChannel` and `Capture` follow one);
several session ids (`Broker` follows one); clients that share an address, which
only `SessionManager` has.

## Plan

`Desktops` with a step for a desktop that a failed handoff gives up, so that its
theorem needs no `NoneGivenUp`.
