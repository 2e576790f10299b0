------------------------------- MODULE Streams -------------------------------
(***************************************************************************)
(* How a client's frames find it: RTSP SETUP and PLAY (rtsp.rs), the ping  *)
(* tokens and learned addresses of the shared UDP socket (udp_sender.rs),  *)
(* and the frame tasks of the encoder callback (session.rs).  The audio    *)
(* socket is another instance of the video one.                            *)
(*                                                                         *)
(* Simplifications.  Every client has an address of its own, so an RTSP    *)
(* request finds its client's session (SessionManager has the others), and *)
(* does not launch while a PLAY or a handoff of its own is under way.      *)
(* There is one user.  The control channel's `connected` stays true        *)
(* (ControlChannel).  The tasks that wait for a PING only log, and are     *)
(* left out.  A PING that is lost is one not sent yet: clients repeat it.  *)
(***************************************************************************)
EXTENDS Packetizers, FiniteSetsExt

CONSTANTS
    Clients,
    MaxLaunches, \* bound: launches, and so ping tokens
    MaxWindows,  \* bound: windows the clients open, each with a port of its own
    MaxQueue,    \* bound: datagrams in the socket's receive buffer
    MaxTasks     \* bound: frames between the callback and the socket

ASSUME StreamBounds == {MaxLaunches, MaxWindows, MaxQueue, MaxTasks} \subseteq Nat

Tokens == 1..MaxLaunches
None == 0
Nobody == <<>>
Addresses == Clients \X (1..MaxWindows)

VARIABLES
    slot,       \* Shared.clients, with what a task has taken out of it
    parked,     \* the desktop is in background_sessions
    launches,   \* tokens drawn so far
    forgetting, \* tokens whose session was taken, not yet forgotten
    learned,    \* SharedState.addresses: where a token's frames go
    queue,      \* PINGs in the socket's receive buffer
    window,     \* the window each client has open, or its last one
    tasks       \* frames looked up or to be sent: their token, and whose they were

sessions == <<slot, parked, launches, forgetting>>
network == <<learned, queue>>
vars == <<sessions, network, window, tasks>>

Idle == [state |-> "idle", token |-> None, desktop |-> FALSE]
Closed(port) == [port |-> port, phase |-> "closed", token |-> None, fed |-> FALSE]
States == {"idle", "spawning", "launched", "fresh", "retake", "retaken", "handoff", "streaming"}

Init ==
    /\ slot = [c \in Clients |-> Idle] /\ parked = FALSE
    /\ launches = 0 /\ forgetting = {}
    /\ learned = [t \in Tokens |-> Nobody] /\ queue = <<>>
    /\ window = [c \in Clients |-> Closed(0)]
    /\ tasks = {}

Attached(c) == slot[c].state \in {"launched", "streaming"}  \* ClientState::session
Becomes(c, state) == slot' = [slot EXCEPT ![c].state = state]

TakesUnchecked(c) ==
    /\ forgetting' = forgetting \cup {slot[c].token}
    /\ parked' = (parked \/ slot[c].desktop)

\* take_active_session, and what its callers do with what they took.
TakesActive(c) ==
    /\ forgetting' = forgetting \cup (IF Attached(c) THEN {slot[c].token} ELSE {})
    /\ parked' = (parked \/ (Attached(c) /\ slot[c].desktop))

\* drain_pending, after the lock was released.  Nobody attached has the token
\* by then, so it does not matter what its caller does meanwhile.
Forget(t) ==
    /\ t \in forgetting /\ forgetting' = forgetting \ {t}
    /\ learned' = [learned EXCEPT ![t] = Nobody]
    /\ UNCHANGED <<slot, parked, launches, queue, window, tasks>>

---------------------------------------------------------------------------
\* Sessions.

\* /launch claims the slot and spawns a login stage with a fresh origin.
LaunchClaims(c) ==
    /\ slot[c].state \in {"idle", "launched", "streaming"}
    /\ launches < MaxLaunches /\ launches' = launches + 1
    /\ TakesActive(c)
    /\ slot' = [slot EXCEPT ![c] = [state |-> "spawning", token |-> launches', desktop |-> FALSE]]
    /\ UNCHANGED <<network, window, tasks>>

LaunchEnds(c) ==
    /\ slot[c].state = "spawning"
    /\ Becomes(c, "launched") \/ slot' = [slot EXCEPT ![c] = Idle]
    /\ UNCHANGED <<parked, launches, forgetting, network, window, tasks>>

\* /cancel, the end of the session, a log-out.
Cancel(c) ==
    /\ Attached(c) /\ TakesActive(c)
    /\ slot' = [slot EXCEPT ![c] = Idle]
    /\ UNCHANGED <<launches, network, window, tasks>>

\* PLAY takes the session, to start it or, when it is streaming, to move its
\* senders to the window that plays now; it does nothing without a session.
PlayTakes(c) ==
    /\ window[c].phase = "setup" /\ slot[c].state # "spawning"
    /\ window' = [window EXCEPT ![c].phase = "played"]
    /\ \/ slot[c].state = "launched" /\ Becomes(c, "fresh")
       \/ slot[c].state = "streaming" /\ Becomes(c, "retake")
       \/ ~Attached(c) /\ UNCHANGED slot
    /\ UNCHANGED <<parked, launches, forgetting, network, tasks>>

\* spawn_done did not come within 15 s.
PlayGivesUp(c) ==
    /\ window[c].phase = "setup" /\ slot[c].state = "spawning"
    /\ window' = [window EXCEPT ![c].phase = "played"]
    /\ UNCHANGED <<sessions, network, tasks>>

RetakeForgets(c) ==
    /\ slot[c].state = "retake" /\ Becomes(c, "retaken")
    /\ learned' = [learned EXCEPT ![slot[c].token] = Nobody]
    /\ UNCHANGED <<parked, launches, forgetting, queue, window, tasks>>

PlayStreams(c) ==
    /\ slot[c].state \in {"fresh", "retaken"} /\ Becomes(c, "streaming")
    /\ UNCHANGED <<parked, launches, forgetting, network, window, tasks>>

\* The origin that the desktop's frames are sent by from now on: the login's,
\* which its client has played.
KeepsOrigin(c, d) == slot[d].token
HandedOrigin(c, d) == slot[c].token

\* An accepted login: its client gets the desktop, resumed from the background
\* or taken from the client d that has it (d = c: neither, or a fresh one).
HandoffTakes(c, d) ==
    /\ slot[c].state = "streaming" /\ ~slot[c].desktop
    /\ \/ d = c /\ forgetting' = forgetting
          /\ \A e \in Clients : ~(Attached(e) /\ slot[e].desktop)
       \/ d # c /\ ~parked /\ Attached(d) /\ slot[d].desktop
          /\ forgetting' = forgetting \cup {slot[d].token}
    /\ parked' = FALSE
    /\ slot' = [e \in Clients |->
                  IF e = c THEN [state |-> "handoff", token |-> HandedOrigin(c, d), desktop |-> TRUE]
                  ELSE IF e = d THEN Idle ELSE slot[e]]
    /\ UNCHANGED <<launches, network, window, tasks>>

\* start_streaming of the desktop, or an error; the token is not forgotten.
HandoffEnds(c) ==
    /\ slot[c].state = "handoff"
    /\ Becomes(c, "streaming") \/ slot' = [slot EXCEPT ![c] = Idle]
    /\ UNCHANGED <<parked, launches, forgetting, network, window, tasks>>

---------------------------------------------------------------------------
\* Windows of the clients, and their PINGs.

\* The answer to SETUP carries the token of the session, if there is one.
PingTokenFor(c) == IF Attached(c) THEN slot[c].token ELSE None

\* A client opens a window and sends SETUP; nothing depends on what is between.
SetupAnswers(c) ==
    LET port == 1 + Max({window[d].port : d \in Clients})
    IN /\ window[c].phase = "closed" /\ port <= MaxWindows
       /\ window' = [window EXCEPT ![c] =
                       [port |-> port, phase |-> "setup", token |-> PingTokenFor(c), fed |-> FALSE]]
       /\ UNCHANGED <<sessions, network, tasks>>

\* Gone without a goodbye: what it has sent stays in the buffer.
WindowCloses(c) ==
    /\ window[c].phase # "closed"
    /\ window' = [window EXCEPT ![c] = Closed(@.port)]
    /\ UNCHANGED <<sessions, network, tasks>>

\* A client pings until it has received its first packet; the server ignores a
\* PING without a token.
Pings(c) == window[c].phase \in {"setup", "played"} /\ window[c].token # None /\ ~window[c].fed

WindowPings(c) ==
    /\ Pings(c) /\ Len(queue) < MaxQueue
    /\ queue' = Append(queue, [token |-> window[c].token, from |-> <<c, window[c].port>>])
    /\ UNCHANGED <<sessions, learned, window, tasks>>

Teaches(ping) == [learned EXCEPT ![ping.token] = IF @ = Nobody THEN ping.from ELSE @]
Learns(ping) == [learned EXCEPT ![ping.token] = ping.from]

PingArrives ==
    /\ queue # <<>> /\ queue' = Tail(queue)
    /\ learned' = Learns(Head(queue))
    /\ UNCHANGED <<sessions, window, tasks>>

---------------------------------------------------------------------------
\* Frames.

\* on_video_access_unit finds the session by its generation and copies its
\* origin under the lock; the send is a task of its own.
FrameIsReady(c) ==
    /\ slot[c].state = "streaming" /\ Cardinality(tasks) < MaxTasks
    /\ tasks' = tasks \cup {[token |-> slot[c].token, owner |-> c]}
    /\ UNCHANGED <<sessions, network, window>>

\* send_shards to the address that the token has by now, if any: the window
\* behind it gets the packets, unless it has closed.
Reaches(task, c) == learned[task.token] = <<c, window[c].port>> /\ window[c].phase # "closed"

FrameIsSent(task) ==
    /\ task \in tasks /\ tasks' = tasks \ {task}
    /\ window' = [c \in Clients |-> IF Reaches(task, c) THEN [window[c] EXCEPT !.fed = TRUE] ELSE window[c]]
    /\ UNCHANGED <<sessions, network>>

---------------------------------------------------------------------------
SessionStep ==
    \/ \E t \in Tokens : Forget(t)
    \/ \E c \in Clients : LaunchClaims(c) \/ LaunchEnds(c) \/ Cancel(c) \/ PlayTakes(c) \/ PlayGivesUp(c)
                          \/ RetakeForgets(c) \/ PlayStreams(c) \/ HandoffEnds(c)
    \/ \E c, d \in Clients : HandoffTakes(c, d)
WindowStep == \E c \in Clients : SetupAnswers(c) \/ WindowCloses(c) \/ WindowPings(c)
SendStep == PingArrives \/ (\E c \in Clients : FrameIsReady(c)) \/ (\E task \in tasks : FrameIsSent(task))

Next == SessionStep \/ WindowStep \/ SendStep

\* The server's tasks run, a stage draws frames, and a window that pings goes
\* on; nobody has to launch, log in, cancel, open or close anything.
Fairness ==
    /\ WF_vars(PingArrives) /\ WF_vars(\E task \in tasks : FrameIsSent(task))
    /\ \A c \in Clients :
          /\ WF_vars(PlayTakes(c) \/ PlayGivesUp(c)) /\ WF_vars(LaunchEnds(c))
          /\ WF_vars(RetakeForgets(c)) /\ WF_vars(PlayStreams(c)) /\ WF_vars(HandoffEnds(c))
          /\ SF_vars(WindowPings(c)) /\ SF_vars(FrameIsReady(c))

Spec == Init /\ [][Next]_vars /\ Fairness

(***************************************************************************)
(* Properties.                                                             *)
(***************************************************************************)

\* What the variables hold.
TypeOK ==
    /\ slot \in [Clients -> [state : States, token : {None} \cup Tokens, desktop : BOOLEAN]]
    /\ parked \in BOOLEAN /\ launches \in 0..MaxLaunches /\ forgetting \subseteq Tokens
    /\ learned \in [Tokens -> {Nobody} \cup Addresses]
    /\ queue \in Seq([token : Tokens, from : Addresses]) /\ Len(queue) <= MaxQueue
    /\ window \in [Clients -> [port : 0..MaxWindows, phase : {"closed", "setup", "played"},
                               token : {None} \cup Tokens, fed : BOOLEAN]]
    /\ tasks \subseteq [token : Tokens, owner : Clients]

\* A frame only ever goes to a window of the client that its session was
\* attached to when the encoder delivered it, although tokens, learned
\* addresses and late PINGs outlive parked, replaced and taken sessions.
FramesGoToTheirClient ==
    \A task \in tasks : learned[task.token] = Nobody \/ learned[task.token][1] = task.owner

\* Whatever size a frame that is on its way has, and wherever its numbers
\* start, its client can put it together from the headers of its shards and sees
\* no gap before the next frame.  How many parity shards to wait for it computes
\* from the advertised percentage and the limit of 255 shards in a block; the
\* percentage alone promises too many for a frame that fills its block.
FramesReassemble == \A task \in tasks : EverySizeReassembles

\* In the audio that streams, every FEC packet stands for the four data packets
\* right before it, also where the 16-bit numbers wrap, and is never made from
\* frames of different lengths.
AudioGroupsRecover == \A c \in Clients : slot[c].state = "streaming" => EveryAudioGroupRecovers

\* A client that streams and keeps up climbs back to exactly the bitrate that
\* it asked for, whatever it reported before; it never gets more than that, and
\* never less than the floor.
BitrateSettles == \A c \in Clients : slot[c].state = "streaming" => EveryRateSettles

\* A window that has played the session it was set up for gets its picture,
\* also when the PINGs of a closed window are still in the socket's buffer:
\* unless it closes, or its client's session ends or makes way for another.
PlayedWindowGetsPicture ==
    \A c \in Clients :
       LET Plays == /\ window[c].phase = "played"
                    /\ window[c].token # None /\ window[c].token = slot[c].token
       IN Plays ~> window[c].fed \/ ~Plays

=============================================================================
