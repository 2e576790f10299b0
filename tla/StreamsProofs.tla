---------------------------- MODULE StreamsProofs ----------------------------
(***************************************************************************)
(* Proofs about Streams for every set of clients and every bound, and      *)
(* about what the packetizers make of every input.                         *)
(*                                                                         *)
(* That a frame goes to a window of its own client is not inductive: the   *)
(* address a token's frames are sent to was learned from a PING that may   *)
(* have been sent long before, by a window that has closed since, with the *)
(* token of a session that was replaced since.  What is inductive is that  *)
(* everything that says whose a token is (slots, windows, PINGs under way, *)
(* learned addresses, frames under way) says the same, and that none of it *)
(* knows a token that was not drawn yet.                                   *)
(***************************************************************************)
EXTENDS Streams, TLAPS, WellFoundedInduction, SequenceTheorems

\* Something in the server or on the network says that t is a token of c.
Holds(c, t) ==
    \/ slot[c].token = t
    \/ window[c].token = t
    \/ learned[t] # Nobody /\ learned[t][1] = c
    \/ \E i \in 1..Len(queue) : queue[i].token = t /\ queue[i].from[1] = c
    \/ [token |-> t, owner |-> c] \in tasks

OneClientPerToken ==
    \A t \in Tokens : \A c, d \in Clients : Holds(c, t) /\ Holds(d, t) => c = d

OnlyDrawnTokens == \A t \in Tokens, c \in Clients : Holds(c, t) => t <= launches

\* A slot has a token exactly when it is not idle; an open window has a port.
Shape ==
    /\ \A c \in Clients : slot[c].token = None <=> slot[c].state = "idle"
    /\ \A c \in Clients : window[c].phase # "closed" => window[c].port # 0

IInv == TypeOK /\ Shape /\ OneClientPerToken /\ OnlyDrawnTokens

-----------------------------------------------------------------------------
\* The shapes of the records, and the abbreviations of Streams for an action's effect.
SlotType == [state : States, token : {None} \cup Tokens, desktop : BOOLEAN]
WindowType == [port : 0..MaxWindows, phase : {"closed", "setup", "played"},
               token : {None} \cup Tokens, fed : BOOLEAN]
PingType == [token : Tokens, from : Addresses]

\* No token is the missing one.
LEMMA TokenFacts == None \notin Tokens /\ Tokens \subseteq Nat /\ MaxLaunches \in Nat
BY StreamBounds DEF Tokens, None, StreamBounds

\* Of some numbers up to a bound, one is the largest (the ports that windows have had).
LEMMA MaxOfBounded ==
  ASSUME NEW n \in Nat, NEW S \in SUBSET (0..n), S # {}
  PROVE  Max(S) \in S /\ \A y \in S : Max(S) >= y
<1> DEFINE T == {n - s : s \in S}
<1>1. T \subseteq Nat /\ T # {}  OBVIOUS
<1>2. PICK m \in T : \A y \in T : ~ (<<y, m>> \in OpToRel(<, Nat))
  BY <1>1, NatLessThanWellFounded, WFMin
<1>3. \A y \in T : ~ (y < m)  BY <1>1, <1>2 DEF OpToRel
<1>4. PICK x \in S : m = n - x  OBVIOUS
<1>5. \A y \in S : x >= y
  <2> SUFFICES ASSUME NEW y \in S PROVE x >= y  OBVIOUS
  <2>1. n - y \in T  OBVIOUS
  <2>2. ~ (n - y < n - x)  BY <1>3, <1>4, <2>1
  <2> QED BY <2>2
<1>6. \E z \in S : \A y \in S : z >= y  BY <1>5
<1> QED BY <1>6 DEF Max

-----------------------------------------------------------------------------
(***************************************************************************)
(* Types.                                                                  *)
(***************************************************************************)

Typed == TypeOK /\ Shape

\* Initially the types hold.
LEMMA InitTyped == ASSUME Init PROVE Typed
<1>1. Idle \in SlotType /\ Closed(0) \in WindowType
  BY StreamBounds DEF Idle, Closed, SlotType, WindowType, States, StreamBounds
<1>2. slot \in [Clients -> SlotType] /\ window \in [Clients -> WindowType]  BY <1>1 DEF Init
<1>3. parked \in BOOLEAN /\ forgetting \subseteq Tokens  BY DEF Init
<1>7. launches \in 0..MaxLaunches  BY TokenFacts DEF Init
<1>4. learned \in [Tokens -> {Nobody} \cup Addresses] /\ tasks \subseteq [token : Tokens, owner : Clients]
  BY DEF Init
<1>5. queue \in Seq(PingType) /\ Len(queue) <= MaxQueue
  BY StreamBounds DEF Init, StreamBounds
<1>6. Shape  BY DEF Init, Shape, Idle, Closed, None
<1> QED BY <1>2, <1>3, <1>4, <1>5, <1>6, <1>7 DEF Typed, TypeOK, SlotType, WindowType, PingType

\* What Becomes does to a slot.
LEMMA BecomesEffect ==
  ASSUME slot \in [Clients -> SlotType], NEW c \in Clients, NEW s \in States, Becomes(c, s)
  PROVE  /\ slot' \in [Clients -> SlotType]
         /\ slot'[c].state = s /\ slot'[c].token = slot[c].token
         /\ \A d \in Clients : d # c => slot'[d] = slot[d]
BY DEF Becomes, SlotType

\* Every step of a session keeps the types.
LEMMA SessionTyped == ASSUME Typed, SessionStep PROVE Typed'
<1> USE TokenFacts
<1> DEFINE SlotOK == slot \in [Clients -> SlotType] /\ \A c \in Clients : slot[c].token = None <=> slot[c].state = "idle"
           Rest == /\ parked \in BOOLEAN /\ launches \in 0..MaxLaunches /\ forgetting \subseteq Tokens
                   /\ learned \in [Tokens -> {Nobody} \cup Addresses]
           Others == /\ queue \in Seq(PingType) /\ Len(queue) <= MaxQueue
                     /\ window \in [Clients -> WindowType]
                     /\ \A c \in Clients : window[c].phase # "closed" => window[c].port # 0
                     /\ tasks \subseteq [token : Tokens, owner : Clients]
<1>1. SlotOK /\ Rest /\ Others
  BY DEF Typed, TypeOK, Shape, SlotType, WindowType, PingType
<1>2. SlotOK' /\ Rest' /\ Others' => Typed'
  BY DEF Typed, TypeOK, Shape, SlotType, WindowType, PingType
<1> HIDE DEF SlotOK, Rest, Others
<1>3. ASSUME NEW t \in Tokens, Forget(t) PROVE Typed'
  <2>1. SlotOK' /\ Rest'  BY <1>1, <1>3 DEF Forget, SlotOK, Rest
  <2>2. Others'  BY <1>1, <1>3 DEF Forget, Others
  <2> QED BY <2>1, <2>2, <1>2
<1>4. ASSUME NEW c \in Clients, LaunchClaims(c) PROVE Typed'
  <2>1. Attached(c) => slot[c].token \in Tokens
    BY <1>1 DEF SlotOK, SlotType, Attached
  <2>2. launches' \in 0..MaxLaunches /\ launches' \in Tokens
    BY <1>1, <1>4 DEF Rest, LaunchClaims, Tokens
  <2>3. SlotOK'  BY <1>1, <1>4, <2>2 DEF SlotOK, SlotType, LaunchClaims, States
  <2>4. Rest'  BY <1>1, <1>4, <2>1, <2>2 DEF Rest, SlotOK, SlotType, LaunchClaims, TakesActive, network
  <2>5. Others'  BY <1>1, <1>4 DEF Others, LaunchClaims, network
  <2> QED BY <2>3, <2>4, <2>5, <1>2
<1>5. ASSUME NEW c \in Clients, LaunchEnds(c) \/ HandoffEnds(c) PROVE Typed'
  <2> DEFINE Goes == \E s \in {"launched", "streaming"} : Becomes(c, s)
  <2>3. slot[c].state # "idle" /\ (Goes \/ slot' = [slot EXCEPT ![c] = Idle])
    BY <1>5 DEF LaunchEnds, HandoffEnds
  <2>4. ASSUME Goes PROVE SlotOK'
    <3>1. PICK s \in {"launched", "streaming"} : Becomes(c, s)  BY <2>4
    <3> QED BY <1>1, <2>3, <3>1, BecomesEffect DEF SlotOK, States
  <2>5. ASSUME slot' = [slot EXCEPT ![c] = Idle] PROVE SlotOK'
    BY <1>1, <2>5 DEF SlotOK, SlotType, Idle, States
  <2>1. SlotOK'  BY <2>3, <2>4, <2>5
  <2>2. Rest' /\ Others'  BY <1>1, <1>5 DEF Rest, Others, LaunchEnds, HandoffEnds, network
  <2> QED BY <2>1, <2>2, <1>2
<1>6. ASSUME NEW c \in Clients, Cancel(c) PROVE Typed'
  <2>1. slot[c].token \in Tokens  BY <1>1, <1>6 DEF SlotOK, SlotType, Attached, Cancel
  <2>2. SlotOK'  BY <1>1, <1>6 DEF SlotOK, SlotType, Cancel, Idle, States
  <2>3. Rest'  BY <1>1, <1>6, <2>1 DEF Rest, SlotOK, SlotType, Cancel, TakesActive, network
  <2>4. Others'  BY <1>1, <1>6 DEF Others, Cancel, network
  <2> QED BY <2>2, <2>3, <2>4, <1>2
<1>7. ASSUME NEW c \in Clients, PlayTakes(c) \/ PlayGivesUp(c) PROVE Typed'
  <2>1. SlotOK'
    BY <1>1, <1>7 DEF SlotOK, SlotType, PlayTakes, PlayGivesUp, sessions, Becomes, States
  <2>2. Rest'  BY <1>1, <1>7 DEF Rest, PlayTakes, PlayGivesUp, sessions, network
  <2>3. Others'  BY <1>1, <1>7 DEF Others, WindowType, PlayTakes, PlayGivesUp, network
  <2> QED BY <2>1, <2>2, <2>3, <1>2
<1>8. ASSUME NEW c \in Clients, RetakeForgets(c) \/ PlayStreams(c) PROVE Typed'
  <2>1. SlotOK'
    BY <1>1, <1>8 DEF SlotOK, SlotType, RetakeForgets, PlayStreams, Becomes, States
  <2>2. Rest'  BY <1>1, <1>8 DEF Rest, RetakeForgets, PlayStreams, network
  <2>3. Others'  BY <1>1, <1>8 DEF Others, RetakeForgets, PlayStreams, network
  <2> QED BY <2>1, <2>2, <2>3, <1>2
<1>9. ASSUME NEW c \in Clients, NEW d \in Clients, HandoffTakes(c, d) PROVE Typed'
  <2>1. Idle \in SlotType /\ Idle.token = None /\ Idle.state = "idle"
    BY DEF Idle, SlotType, States
  <2>2. slot[c].token \in Tokens  BY <1>1, <1>9 DEF SlotOK, SlotType, HandoffTakes
  <2>3. SlotOK'  BY <1>1, <1>9, <2>1, <2>2 DEF SlotOK, SlotType, HandoffTakes, HandedOrigin, States
  <2>4. d # c /\ Attached(d) => slot[d].token \in Tokens  BY <1>1 DEF SlotOK, SlotType, Attached
  <2>5. Rest'  BY <1>1, <1>9, <2>4 DEF Rest, HandoffTakes, network
  <2>6. Others'  BY <1>1, <1>9 DEF Others, HandoffTakes, network
  <2> QED BY <2>3, <2>5, <2>6, <1>2
<1> QED BY <1>3, <1>4, <1>5, <1>6, <1>7, <1>8, <1>9 DEF SessionStep

\* What SetupAnswers draws is the next port.
LEMMA SetupPort ==
  ASSUME Typed, NEW c \in Clients
  PROVE  Max({window[d].port : d \in Clients}) \in 0..MaxWindows
<1>1. MaxWindows \in Nat  BY StreamBounds DEF StreamBounds
<1>2. {window[d].port : d \in Clients} \in SUBSET (0..MaxWindows)
  BY DEF Typed, TypeOK
<1>3. {window[d].port : d \in Clients} # {}  OBVIOUS
<1> QED BY <1>1, <1>2, <1>3, MaxOfBounded

\* Every step of a window keeps the types.
LEMMA WindowTyped == ASSUME Typed, WindowStep PROVE Typed'
<1> DEFINE WindowOK == /\ window \in [Clients -> WindowType]
                       /\ \A c \in Clients : window[c].phase # "closed" => window[c].port # 0
           QueueOK == queue \in Seq(PingType) /\ Len(queue) <= MaxQueue
           Others == /\ slot \in [Clients -> SlotType]
                     /\ \A c \in Clients : slot[c].token = None <=> slot[c].state = "idle"
                     /\ parked \in BOOLEAN /\ launches \in 0..MaxLaunches /\ forgetting \subseteq Tokens
                     /\ learned \in [Tokens -> {Nobody} \cup Addresses]
                     /\ tasks \subseteq [token : Tokens, owner : Clients]
<1>1. WindowOK /\ QueueOK /\ Others
  BY DEF Typed, TypeOK, Shape, SlotType, WindowType, PingType
<1>2. WindowOK' /\ QueueOK' /\ Others' => Typed'
  BY DEF Typed, TypeOK, Shape, SlotType, WindowType, PingType
<1> HIDE DEF WindowOK, QueueOK, Others
<1>3. ASSUME NEW c \in Clients, SetupAnswers(c) PROVE Typed'
  <2> DEFINE port == 1 + Max({window[d].port : d \in Clients})
  <2>1. port \in 1..MaxWindows
    <3>1. port <= MaxWindows  BY <1>3 DEF SetupAnswers
    <3> QED BY <3>1, SetupPort, StreamBounds DEF StreamBounds
  <2>2. PingTokenFor(c) \in {None} \cup Tokens
    BY <1>1 DEF Others, SlotType, PingTokenFor
  <2>3. window' = [window EXCEPT ![c] =
                     [port |-> port, phase |-> "setup", token |-> PingTokenFor(c), fed |-> FALSE]]
    BY <1>3 DEF SetupAnswers
  <2> HIDE DEF port
  <2>4. WindowOK'  BY <1>1, <2>1, <2>2, <2>3 DEF WindowOK, WindowType
  <2>5. QueueOK' /\ Others'  BY <1>1, <1>3 DEF QueueOK, Others, SetupAnswers, sessions, network
  <2> QED BY <1>2, <2>4, <2>5
<1>4. ASSUME NEW c \in Clients, WindowCloses(c) PROVE Typed'
  <2>1. window' = [window EXCEPT ![c] = Closed(window[c].port)]  BY <1>4 DEF WindowCloses
  <2>2. WindowOK'  BY <1>1, <2>1 DEF WindowOK, WindowType, Closed
  <2>3. QueueOK' /\ Others'  BY <1>1, <1>4 DEF QueueOK, Others, WindowCloses, sessions, network
  <2> QED BY <1>2, <2>2, <2>3
<1>5. ASSUME NEW c \in Clients, WindowPings(c) PROVE Typed'
  <2> DEFINE ping == [token |-> window[c].token, from |-> <<c, window[c].port>>]
  <2>1. window[c].token \in Tokens /\ window[c].port \in 1..MaxWindows
    BY <1>1, <1>5, StreamBounds DEF WindowOK, WindowType, WindowPings, Pings, StreamBounds
  <2>2. ping \in PingType  BY <2>1 DEF PingType, Addresses
  <2>3. queue' = Append(queue, ping) /\ Len(queue) < MaxQueue  BY <1>5 DEF WindowPings
  <2> HIDE DEF ping
  <2>4. QueueOK'  BY <1>1, <2>2, <2>3, StreamBounds DEF QueueOK, StreamBounds
  <2>5. WindowOK' /\ Others'  BY <1>1, <1>5 DEF WindowOK, Others, WindowPings, sessions
  <2> QED BY <1>2, <2>4, <2>5
<1> QED BY <1>3, <1>4, <1>5 DEF WindowStep

\* Every step of a PING or a frame keeps the types.
LEMMA SendTyped == ASSUME Typed, SendStep PROVE Typed'
<1> DEFINE WindowOK == /\ window \in [Clients -> WindowType]
                       /\ \A c \in Clients : window[c].phase # "closed" => window[c].port # 0
           QueueOK == queue \in Seq(PingType) /\ Len(queue) <= MaxQueue
           LearnedOK == learned \in [Tokens -> {Nobody} \cup Addresses]
           TasksOK == tasks \subseteq [token : Tokens, owner : Clients]
           Others == /\ slot \in [Clients -> SlotType]
                     /\ \A c \in Clients : slot[c].token = None <=> slot[c].state = "idle"
                     /\ parked \in BOOLEAN /\ launches \in 0..MaxLaunches /\ forgetting \subseteq Tokens
<1>1. WindowOK /\ QueueOK /\ LearnedOK /\ TasksOK /\ Others
  BY DEF Typed, TypeOK, Shape, SlotType, WindowType, PingType
<1>2. WindowOK' /\ QueueOK' /\ LearnedOK' /\ TasksOK' /\ Others' => Typed'
  BY DEF Typed, TypeOK, Shape, SlotType, WindowType, PingType
<1> HIDE DEF WindowOK, QueueOK, LearnedOK, TasksOK, Others
<1>3. CASE PingArrives
  <2>1. Head(queue) \in PingType /\ Tail(queue) \in Seq(PingType) /\ Len(Tail(queue)) <= MaxQueue
    BY <1>1, <1>3, StreamBounds DEF QueueOK, PingArrives, StreamBounds
  <2>2. QueueOK'  BY <1>3, <2>1 DEF QueueOK, PingArrives
  <2>3. LearnedOK'  BY <1>1, <1>3, <2>1 DEF LearnedOK, PingArrives, Learns, PingType
  <2>4. WindowOK' /\ TasksOK' /\ Others'
    BY <1>1, <1>3 DEF WindowOK, TasksOK, Others, PingArrives, sessions
  <2> QED BY <1>2, <2>2, <2>3, <2>4
<1>4. ASSUME NEW c \in Clients, FrameIsReady(c) PROVE Typed'
  <2>1. slot[c].token \in Tokens  BY <1>1, <1>4 DEF Others, SlotType, FrameIsReady
  <2>2. TasksOK'  BY <1>1, <1>4, <2>1 DEF TasksOK, FrameIsReady
  <2>3. WindowOK' /\ QueueOK' /\ LearnedOK' /\ Others'
    BY <1>1, <1>4 DEF WindowOK, QueueOK, LearnedOK, Others, FrameIsReady, sessions, network
  <2> QED BY <1>2, <2>2, <2>3
<1>5. ASSUME NEW task \in tasks, FrameIsSent(task) PROVE Typed'
  <2>1. WindowOK'
    <3>1. \A c \in Clients : [window[c] EXCEPT !.fed = TRUE] \in WindowType
                             /\ [window[c] EXCEPT !.fed = TRUE].phase = window[c].phase
                             /\ [window[c] EXCEPT !.fed = TRUE].port = window[c].port
      BY <1>1 DEF WindowOK, WindowType
    <3> QED BY <1>1, <1>5, <3>1 DEF WindowOK, FrameIsSent
  <2>2. TasksOK'  BY <1>1, <1>5 DEF TasksOK, FrameIsSent
  <2>3. QueueOK' /\ LearnedOK' /\ Others'
    BY <1>1, <1>5 DEF QueueOK, LearnedOK, Others, FrameIsSent, sessions, network
  <2> QED BY <1>2, <2>1, <2>2, <2>3
<1> QED BY <1>3, <1>4, <1>5 DEF SendStep

\* Every step keeps the types.
LEMMA NextTyped == ASSUME Typed, [Next]_vars PROVE Typed'
<1>1. CASE UNCHANGED vars
  BY <1>1 DEF vars, sessions, network, Typed, TypeOK, Shape
<1> QED BY <1>1, SessionTyped, WindowTyped, SendTyped DEF Next

-----------------------------------------------------------------------------
(***************************************************************************)
(* Whose a token is.                                                       *)
(***************************************************************************)

\* A step that tells nobody of a token what was not known of it before.
NothingNew == \A x \in Clients, t \in Tokens : Holds(x, t)' => Holds(x, t)

Ownership == OneClientPerToken /\ OnlyDrawnTokens

\* Such a step leaves every token to its client.
LEMMA NothingNewKeeps ==
  ASSUME Typed, Typed', Ownership, NothingNew, launches' >= launches
  PROVE  Ownership'
<1>1. OneClientPerToken'  BY DEF Ownership, OneClientPerToken, NothingNew
<1>2. \A t \in Tokens, c \in Clients : Holds(c, t)' => t <= launches'
  <2> SUFFICES ASSUME NEW t \in Tokens, NEW c \in Clients, Holds(c, t)' PROVE t <= launches'
    OBVIOUS
  <2>1. t <= launches  BY DEF Ownership, OnlyDrawnTokens, NothingNew
  <2>2. t \in Nat /\ launches \in Nat /\ launches' \in Nat
    BY TokenFacts DEF Typed, TypeOK
  <2> QED BY <2>1, <2>2
<1> QED BY <1>1, <1>2 DEF Ownership, OnlyDrawnTokens

\* Only slots change, none of them to a token that it had not before.
LEMMA SlotsOnly ==
  ASSUME Typed, UNCHANGED <<queue, tasks>>,
         \A x \in Clients : slot'[x].token = slot[x].token \/ slot'[x].token = None,
         \A x \in Clients : window'[x].token = window[x].token \/ window'[x].token = None,
         \A t \in Tokens : learned'[t] = learned[t] \/ learned'[t] = Nobody
  PROVE  NothingNew
BY TokenFacts DEF NothingNew, Holds

\* A launch gives its client a token that nobody has.
LEMMA LaunchOwns ==
  ASSUME Typed, Typed', Ownership, NEW c \in Clients, LaunchClaims(c)
  PROVE  Ownership'
<1>1. launches \in Nat /\ launches' = launches + 1  BY TokenFacts DEF Typed, TypeOK, LaunchClaims
<1>2. slot'[c].token = launches + 1 /\ \A d \in Clients : d # c => slot'[d] = slot[d]
  BY DEF Typed, TypeOK, LaunchClaims
<1>3. UNCHANGED <<queue, tasks, window, learned>>  BY DEF LaunchClaims, network
<1>4. \A x \in Clients, t \in Tokens : Holds(x, t)' => Holds(x, t) \/ (x = c /\ t = launches + 1)
  BY <1>2, <1>3 DEF Holds
<1>5. \A x \in Clients, t \in Tokens : Holds(x, t) => t <= launches
  BY DEF Ownership, OnlyDrawnTokens
<1>6. ~ (launches + 1 <= launches)  BY <1>1
<1>7. OneClientPerToken'
  <2> SUFFICES ASSUME NEW t \in Tokens, NEW x \in Clients, NEW y \in Clients, Holds(x, t)', Holds(y, t)'
               PROVE  x = y
    BY DEF OneClientPerToken
  <2>1. (Holds(x, t) \/ (x = c /\ t = launches + 1)) /\ (Holds(y, t) \/ (y = c /\ t = launches + 1))
    BY <1>4
  <2> QED BY <2>1, <1>5, <1>6 DEF Ownership, OneClientPerToken
<1>8. OnlyDrawnTokens'
  <2> SUFFICES ASSUME NEW t \in Tokens, NEW x \in Clients, Holds(x, t)' PROVE t <= launches'
    BY DEF OnlyDrawnTokens
  <2>1. t \in Nat  BY TokenFacts
  <2>2. t <= launches \/ t = launches + 1  BY <1>4, <1>5
  <2> QED BY <1>1, <2>1, <2>2
<1> QED BY <1>7, <1>8 DEF Ownership

\* Every step of a session leaves every token to its client.
LEMMA SessionOwns ==
  ASSUME Typed, Typed', Ownership, SessionStep
  PROVE  Ownership'
<1>1. slot \in [Clients -> SlotType] /\ window \in [Clients -> WindowType]
      /\ learned \in [Tokens -> {Nobody} \cup Addresses]
      /\ launches \in Nat
  BY TokenFacts DEF Typed, TypeOK, SlotType, WindowType
<1>2. ASSUME NEW t \in Tokens, Forget(t) PROVE Ownership'
  <2>1. NothingNew  BY <1>1, <1>2, SlotsOnly DEF Forget
  <2> QED BY <2>1, <1>1, <1>2, NothingNewKeeps DEF Forget
<1>3. ASSUME NEW c \in Clients, LaunchClaims(c) PROVE Ownership'
  BY <1>3, LaunchOwns
<1>4. ASSUME NEW c \in Clients, LaunchEnds(c) \/ HandoffEnds(c) \/ Cancel(c) PROVE Ownership'
  <2>1. \A x \in Clients : slot'[x].token = slot[x].token \/ slot'[x].token = None
    BY <1>1, <1>4 DEF LaunchEnds, HandoffEnds, Cancel, Becomes, Idle, SlotType
  <2>2. UNCHANGED <<queue, tasks, window, learned, launches>>
    BY <1>4 DEF LaunchEnds, HandoffEnds, Cancel, network
  <2>3. NothingNew  BY <2>1, <2>2, SlotsOnly
  <2> QED BY <2>2, <2>3, <1>1, NothingNewKeeps
<1>5. ASSUME NEW c \in Clients, PlayTakes(c) \/ PlayGivesUp(c) PROVE Ownership'
  <2>1. \A x \in Clients : slot'[x].token = slot[x].token
    BY <1>1, <1>5 DEF PlayTakes, PlayGivesUp, Becomes, SlotType, sessions
  <2>2. \A x \in Clients : window'[x].token = window[x].token
    BY <1>1, <1>5 DEF PlayTakes, PlayGivesUp, WindowType
  <2>3. UNCHANGED <<queue, tasks, learned, launches>>
    BY <1>5 DEF PlayTakes, PlayGivesUp, network, sessions
  <2>4. NothingNew  BY <2>1, <2>2, <2>3, SlotsOnly
  <2> QED BY <2>3, <2>4, <1>1, NothingNewKeeps
<1>6. ASSUME NEW c \in Clients, RetakeForgets(c) \/ PlayStreams(c) PROVE Ownership'
  <2>1. \A x \in Clients : slot'[x].token = slot[x].token
    BY <1>1, <1>6 DEF RetakeForgets, PlayStreams, Becomes, SlotType
  <2>2. \A t \in Tokens : learned'[t] = learned[t] \/ learned'[t] = Nobody
    BY <1>1, <1>6 DEF RetakeForgets, PlayStreams, network
  <2>3. UNCHANGED <<queue, tasks, window, launches>>
    BY <1>6 DEF RetakeForgets, PlayStreams, network
  <2>4. NothingNew  BY <2>1, <2>2, <2>3, SlotsOnly
  <2> QED BY <2>3, <2>4, <1>1, NothingNewKeeps
<1>7. ASSUME NEW c \in Clients, NEW d \in Clients, HandoffTakes(c, d) PROVE Ownership'
  <2>1. \A x \in Clients : slot'[x].token = slot[x].token \/ slot'[x].token = None
    BY <1>1, <1>7 DEF HandoffTakes, HandedOrigin, Idle
  <2>2. UNCHANGED <<queue, tasks, window, learned, launches>>  BY <1>7 DEF HandoffTakes, network
  <2>3. NothingNew  BY <2>1, <2>2, SlotsOnly
  <2> QED BY <2>2, <2>3, <1>1, NothingNewKeeps
<1> QED BY <1>2, <1>3, <1>4, <1>5, <1>6, <1>7 DEF SessionStep

\* Every step of a window leaves every token to its client.
LEMMA WindowOwns ==
  ASSUME Typed, Typed', Ownership, WindowStep
  PROVE  Ownership'
<1>1. window \in [Clients -> WindowType] /\ launches \in Nat /\ queue \in Seq(PingType)
  BY TokenFacts DEF Typed, TypeOK, WindowType, PingType
<1>2. ASSUME NEW c \in Clients, SetupAnswers(c) PROVE Ownership'
  <2>1. window'[c].token = slot[c].token \/ window'[c].token = None
    BY <1>1, <1>2 DEF SetupAnswers, PingTokenFor
  <2>2. \A x \in Clients : x # c => window'[x] = window[x]  BY <1>1, <1>2 DEF SetupAnswers
  <2>3. UNCHANGED <<slot, queue, tasks, learned, launches>>
    BY <1>2 DEF SetupAnswers, network, sessions
  <2>4. NothingNew  BY <2>1, <2>2, <2>3, TokenFacts DEF NothingNew, Holds
  <2> QED BY <2>3, <2>4, <1>1, NothingNewKeeps
<1>3. ASSUME NEW c \in Clients, WindowCloses(c) PROVE Ownership'
  <2>1. \A x \in Clients : window'[x].token = window[x].token \/ window'[x].token = None
    BY <1>1, <1>3 DEF WindowCloses, Closed
  <2>2. UNCHANGED <<slot, queue, tasks, learned, launches>>
    BY <1>3 DEF WindowCloses, network, sessions
  <2>3. NothingNew  BY <2>1, <2>2, SlotsOnly
  <2> QED BY <2>2, <2>3, <1>1, NothingNewKeeps
<1>4. ASSUME NEW c \in Clients, WindowPings(c) PROVE Ownership'
  <2> DEFINE ping == [token |-> window[c].token, from |-> <<c, window[c].port>>]
  <2>1. UNCHANGED <<slot, window, tasks, learned, launches>>
    BY <1>4 DEF WindowPings, sessions
  <2>2. queue' = Append(queue, ping)  BY <1>4 DEF WindowPings
  <2>3. ping.token = window[c].token /\ ping.from[1] = c  OBVIOUS
  <2>4. \A i \in 1..Len(queue') : (i \in 1..Len(queue) /\ queue'[i] = queue[i]) \/ queue'[i] = ping
    <3> HIDE DEF ping
    <3> QED BY <1>1, <2>2
  <2>5. NothingNew  BY <2>1, <2>3, <2>4 DEF NothingNew, Holds
  <2> QED BY <2>1, <2>5, <1>1, NothingNewKeeps
<1> QED BY <1>2, <1>3, <1>4 DEF WindowStep

\* Every step of a PING or a frame leaves every token to its client: a token learns an
\* address from a PING with that token only, and a frame has the token of its session.
LEMMA SendOwns ==
  ASSUME Typed, Typed', Ownership, SendStep
  PROVE  Ownership'
<1>1. window \in [Clients -> WindowType] /\ launches \in Nat /\ queue \in Seq(PingType)
      /\ learned \in [Tokens -> {Nobody} \cup Addresses]
  BY TokenFacts DEF Typed, TypeOK, WindowType, PingType
<1>2. CASE PingArrives
  <2>1. UNCHANGED <<slot, window, tasks, launches>>  BY <1>2 DEF PingArrives, sessions
  <2>2. queue # <<>> /\ queue' = Tail(queue)  BY <1>2 DEF PingArrives
  <2>3. 1 \in 1..Len(queue) /\ Head(queue) = queue[1]  BY <1>1, <2>2
  <2>4. \A i \in 1..Len(queue') : i + 1 \in 1..Len(queue) /\ queue'[i] = queue[i + 1]
    BY <1>1, <2>2
  <2>5. \A t \in Tokens : \/ learned'[t] = learned[t]
                          \/ queue[1].token = t /\ learned'[t] = queue[1].from
    BY <1>1, <1>2, <2>3 DEF PingArrives, Learns
  <2>6. NothingNew  BY <2>1, <2>3, <2>4, <2>5 DEF NothingNew, Holds
  <2> QED BY <2>1, <2>6, <1>1, NothingNewKeeps
<1>3. ASSUME NEW c \in Clients, FrameIsReady(c) PROVE Ownership'
  <2>1. UNCHANGED <<slot, window, queue, learned, launches>>
    BY <1>3 DEF FrameIsReady, sessions, network
  <2>2. tasks' = tasks \cup {[token |-> slot[c].token, owner |-> c]}  BY <1>3 DEF FrameIsReady
  <2>3. \A x \in Clients, t \in Tokens : [token |-> t, owner |-> x] \in tasks' =>
          [token |-> t, owner |-> x] \in tasks \/ (x = c /\ t = slot[c].token)
    BY <2>2
  <2>4. NothingNew  BY <2>1, <2>3 DEF NothingNew, Holds
  <2> QED BY <2>1, <2>4, <1>1, NothingNewKeeps
<1>4. ASSUME NEW task \in tasks, FrameIsSent(task) PROVE Ownership'
  <2>1. \A x \in Clients : window'[x].token = window[x].token
    BY <1>1, <1>4 DEF FrameIsSent, WindowType
  <2>2. UNCHANGED <<slot, queue, learned, launches>> /\ tasks' \subseteq tasks
    BY <1>4 DEF FrameIsSent, sessions, network
  <2>3. NothingNew  BY <2>1, <2>2 DEF NothingNew, Holds
  <2> QED BY <2>2, <2>3, <1>1, NothingNewKeeps
<1> QED BY <1>2, <1>3, <1>4 DEF SendStep

-----------------------------------------------------------------------------
(***************************************************************************)
(* The invariant and what it implies.                                      *)
(***************************************************************************)

\* Initially nobody has a token.
LEMMA InitOwns == ASSUME Init PROVE Ownership
<1>1. \A c \in Clients, t \in Tokens : ~Holds(c, t)
  BY TokenFacts DEF Init, Holds, Idle, Closed
<1> QED BY <1>1 DEF Ownership, OneClientPerToken, OnlyDrawnTokens

\* The invariant holds in every reachable state.
LEMMA Invariance == Spec => [](Typed /\ Ownership)
<1>1. Init => Typed /\ Ownership  BY InitTyped, InitOwns
<1>2. Typed /\ Ownership /\ [Next]_vars => (Typed /\ Ownership)'
  <2> SUFFICES ASSUME Typed, Ownership, [Next]_vars PROVE (Typed /\ Ownership)'  OBVIOUS
  <2>1. Typed'  BY NextTyped
  <2>2. CASE Next
    BY <2>1, <2>2, SessionOwns, WindowOwns, SendOwns DEF Next
  <2>3. CASE UNCHANGED vars
    BY <2>1, <2>3 DEF vars, sessions, network, Ownership, OneClientPerToken, OnlyDrawnTokens, Holds
  <2> QED BY <2>2, <2>3
<1> QED BY <1>1, <1>2, PTL DEF Spec

\* The variables have their types: the slots, the addresses learned, the PINGs in the
\* buffer, the windows and the frames on their way, through every interleaving of them.
THEOREM TypesHold == Spec => []TypeOK
<1>1. Typed /\ Ownership => TypeOK  BY DEF Typed
<1> QED BY <1>1, Invariance, PTL

\* A frame never goes to another client than the one whose session the encoder's callback
\* found (on_video_access_unit), whatever became of that session before send_shards runs.
THEOREM FramesGoHome == Spec => []FramesGoToTheirClient
<1>1. Typed /\ Ownership => FramesGoToTheirClient
  <2> SUFFICES ASSUME Typed, Ownership, NEW task \in tasks, learned[task.token] # Nobody
               PROVE  learned[task.token][1] = task.owner
    BY DEF FramesGoToTheirClient
  <2>1. task \in [token : Tokens, owner : Clients] /\ learned \in [Tokens -> {Nobody} \cup Addresses]
    BY DEF Typed, TypeOK
  <2>2. task = [token |-> task.token, owner |-> task.owner]  BY <2>1
  <2>3. learned[task.token] \in Addresses /\ learned[task.token][1] \in Clients
    BY <2>1 DEF Addresses
  <2>4. Holds(task.owner, task.token) /\ Holds(learned[task.token][1], task.token)
    BY <2>2, <2>3 DEF Holds
  <2> QED BY <2>1, <2>3, <2>4 DEF Ownership, OneClientPerToken
<1> QED BY <1>1, Invariance, PTL

-----------------------------------------------------------------------------
(***************************************************************************)
(* What the wire carries (Packetizers), for every input.                   *)
(* The shards of a video frame.                                            *)
(***************************************************************************)

\* What the header's fields can say, and the frames whose shards they can count.
ShardTotals == 1..1023
ShardPlaces == 0..1023
Percents == 0..255
FrameSizes == {size \in Nat : size <= Fits(1023)}

\* What a client needs to put a frame of `size` bytes together, from the shards alone.
Reassembles(size, seq, configured, frame, nextFrame) ==
    LET shards == Packetize(size, seq, frame, configured)
        following == Packetize(0, seq + Len(shards), nextFrame, configured)
        n == Total(shards[1])
    IN /\ TellsItsPlace(shards, n) /\ TellsItsSize(shards, n, size) /\ TellsItsParity(shards, n)
       /\ n \in ShardTotals /\ n <= Len(shards) /\ Percentage(shards[1]) \in Percents
       /\ HasNoGap(shards \o following)

\* The powers of two at which the numbers on the wire wrap.
LEMMA Powers == 2^16 = 65536 /\ 2^20 = 1048576 /\ 2^12 = 4096 /\ 2^24 = 16777216
OBVIOUS

\* The three fields of a shard's fec_info are read as they were written.
IsRead(shard, n, i, percentage) ==
    Total(shard) = n /\ Index(shard) = i /\ Percentage(shard) = percentage

\* encode_fec_info packs the three fields without one running into another, as long as
\* the counts fit their ten bits and the percentage its eight.
LEMMA FecInfo ==
  ASSUME NEW n \in ShardTotals, NEW i \in ShardPlaces, NEW p \in Percents,
         NEW shard, shard.info = EncodeFecInfo(n, i, p)
  PROVE  IsRead(shard, n, i, p)
<1>1. PICK info : info = EncodeFecInfo(n, i, p)  OBVIOUS
<1>2. info.high = n * 1024 + i /\ info.low = p * 16
  BY <1>1, Powers DEF EncodeFecInfo, ShardTotals, ShardPlaces, Percents
<1>3. (n * 1024 + i) \div 1024 = n /\ (n * 1024 + i) % 1024 = i /\ (p * 16) \div 16 = p
  BY DEF ShardTotals, ShardPlaces, Percents
<1>4. shard.info = info  BY <1>1
<1> QED BY <1>2, <1>3, <1>4 DEF IsRead, Total, Index, Percentage

\* The data shards of a frame.
ShardCount(size) == Most(CeilDiv(VideoFrameHeaderSize + size, RequestedShardPayloadSize), 1)

\* n pieces, all full but the last, make len bytes.
PiecesFit(len, n) ==
    /\ n \in ShardTotals
    /\ (n - 1) * RequestedShardPayloadSize + LastShardSize(len) = len
    /\ LastShardSize(len) \in 1..RequestedShardPayloadSize

\* A frame that the ten bits can count is cut into 1 to 1023 pieces, all full but the
\* last, whose size the frame header gives (also where it is exactly full).
LEMMA DataShards ==
  ASSUME NEW size \in FrameSizes
  PROVE  PiecesFit(VideoFrameHeaderSize + size, ShardCount(size))
BY DEF FrameSizes, Fits, PiecesFit, ShardTotals, ShardCount, VideoFrameHeaderSize,
       RequestedShardPayloadSize, Most, CeilDiv, LastShardSize

\* The percentage that is advertised and the parity shards that are sent agree, as far
\* as the block has room.
FecIsSound(n, fec) ==
    /\ fec.percentage \in Percents
    /\ fec.parity \in Nat
    /\ n + fec.parity = Least(n + CeilDiv(n * fec.percentage, 100), Most(n, MaxShardsPerFecBlock))
    /\ n + fec.parity <= 1023

\* The policy of packetize: raising the parity to the floor raises the advertised
\* percentage to one that gives exactly the floor back, whatever was configured.
LEMMA Parity ==
  ASSUME NEW n \in ShardTotals, NEW configured \in Percents
  PROVE  FecIsSound(n, FecPolicy(n, configured))
<1> DEFINE asked == CeilDiv(n * configured, 100)
           room == IF n > 255 THEN 0 ELSE 255 - n
<1> USE DEF ShardTotals, Percents
<1>0. n * configured \in Nat  OBVIOUS
<1>1. asked \in Nat  BY <1>0 DEF CeilDiv
<1>2. CASE asked # 1
  <2>1. FecPolicy(n, configured) = [parity |-> Least(asked, room), percentage |-> configured]
    BY <1>1, <1>2 DEF FecPolicy, MinRequiredFecPackets, MaxShardsPerFecBlock
  <2> HIDE DEF asked
  <2>2. n + Least(asked, room) = Least(n + asked, Most(n, 255)) /\ Least(asked, room) \in Nat
    BY <1>1 DEF Least, Most
  <2>3. n + Least(asked, room) <= 1023
    BY <1>1 DEF Least
  <2> QED BY <2>1, <2>2, <2>3 DEF FecIsSound, MaxShardsPerFecBlock, asked
<1>3. CASE asked = 1
  <2>1. FecPolicy(n, configured) = [parity |-> Least(2, room), percentage |-> (100 * 2) \div n]
    BY <1>3 DEF FecPolicy, MinRequiredFecPackets, MaxShardsPerFecBlock
  <2>2. 0 < n * configured /\ n * configured <= 100  BY <1>0, <1>3 DEF CeilDiv
  <2>3. configured >= 1  BY <2>2
  <2>4. n <= 100  BY <2>2, <2>3
  <2>5. CeilDiv(n * (200 \div n), 100) = 2 /\ 200 \div n \in 0..255
    BY <2>4 DEF CeilDiv
  <2>6. Least(2, room) = 2 BY <2>4 DEF Least
  <2>7. n + 2 = Least(n + 2, Most(n, 255)) BY <2>4 DEF Least, Most
  <2> QED BY <2>1, <2>4, <2>5, <2>6, <2>7 DEF FecIsSound, MaxShardsPerFecBlock
<1> QED BY <1>2, <1>3

\* The next number of a wrapping counter is one more, wrapped.
LEMMA NextNumber ==
  ASSUME NEW k \in Nat
  PROVE  /\ (k + 1) % 2^16 = ((k % 2^16) + 1) % 2^16
         /\ (k + 1) % 2^24 = ((k % 2^24) + 1) % 2^24
BY Powers

\* The shards of one frame, described one by one instead of by the function that makes them.
Numbered(s, seq) ==
    \A i \in 1..Len(s) : s[i].rtp = (seq + i - 1) % 2^16 /\ s[i].stream = (seq + i - 1) % 2^24

Labelled(s, n, percentage, last) ==
    \A i \in 1..Len(s) :
       /\ IsRead(s[i], n, i - 1, percentage)
       /\ s[i].start <=> i = 1
       /\ s[i].end <=> i = n
       /\ s[i].last = last

\* A function on 1..k is a sequence of k elements.
LEMMA FunctionIsSeq ==
  ASSUME NEW k \in Nat, NEW f, DOMAIN f = 1..k, f = [i \in 1..k |-> f[i]]
  PROVE  /\ Len(f) = k
         /\ f \in Seq({f[i] : i \in 1..k})
<1>1. f \in [1..k -> {f[i] : i \in 1..k}]  OBVIOUS
<1>2. f \in Seq({f[i] : i \in 1..k})  BY <1>1, SeqDef, Zenon
<1>3. Len(f) \in Nat /\ 1..Len(f) = 1..k  BY <1>2, LenProperties
<1>4. Len(f) = k  BY <1>3, SMT
<1> QED BY <1>2, <1>4

IsFrame(s, size, seq, configured) ==
    LET n == ShardCount(size)
        fec == FecPolicy(n, configured)
    IN /\ \E S : s \in Seq(S)
       /\ Len(s) = n + fec.parity /\ n \in 1..Len(s)
       /\ Numbered(s, seq)
       /\ Labelled(s, n, fec.percentage, LastShardSize(VideoFrameHeaderSize + size))

\* What packetize makes is such a frame.
LEMMA ShardsOf ==
  ASSUME NEW size \in FrameSizes, NEW seq \in Nat, NEW frame, NEW configured \in Percents
  PROVE  IsFrame(Packetize(size, seq, frame, configured), size, seq, configured)
<1>1. PICK n : n = ShardCount(size)  OBVIOUS
<1>2. PICK fec : fec = FecPolicy(n, configured)  OBVIOUS
<1>3. PICK last : last = LastShardSize(VideoFrameHeaderSize + size)  OBVIOUS
<1>4. PICK s : s = Packetize(size, seq, frame, configured)  OBVIOUS
<1> DEFINE Shard(i) == [rtp    |-> (seq + i - 1) % 2^16,
                        stream |-> (seq + i - 1) % 2^24,
                        frame  |-> frame,
                        start  |-> i = 1,
                        end    |-> i = n,
                        info   |-> EncodeFecInfo(n, i - 1, fec.percentage),
                        last   |-> last]
           k == n + fec.parity
<1>5. n \in ShardTotals
  <2>1. PiecesFit(VideoFrameHeaderSize + size, n)  BY <1>1, DataShards, Zenon
  <2> QED BY <2>1, Zenon DEF PiecesFit
<1>6. /\ fec.parity \in Nat /\ k \in Nat /\ k <= 1023 /\ n \in 1..k
      /\ fec.percentage \in Percents
  <2>1. FecIsSound(n, fec)  BY <1>2, <1>5, Parity, Zenon
  <2> QED BY <1>5, <2>1 DEF FecIsSound, ShardTotals
<1>7. s = [i \in 1..k |-> Shard(i)]  BY <1>1, <1>2, <1>3, <1>4, Zenon DEF Packetize, ShardCount
<1>8. \A i \in 1..k : s[i] = Shard(i)  BY <1>7, Zenon
<1> HIDE DEF k
<1>9. DOMAIN s = 1..k /\ s = [i \in 1..k |-> s[i]]
  <2> HIDE DEF Shard
  <2>1. DOMAIN s = 1..k  BY <1>7
  <2>2. s = [i \in 1..k |-> s[i]]  BY <1>7, <1>8, Zenon
  <2> QED BY <2>1, <2>2
<1>10. Len(s) = k /\ s \in Seq({s[i] : i \in 1..k})
  <2>1. k \in Nat  BY <1>6
  <2> QED BY <1>9, <2>1, FunctionIsSeq, Zenon
<1>11. Numbered(s, seq)
  <2> SUFFICES ASSUME NEW i \in 1..k
      PROVE  s[i].rtp = (seq + i - 1) % 2^16 /\ s[i].stream = (seq + i - 1) % 2^24
    BY <1>10, Zenon DEF Numbered
  <2>1. s[i] = Shard(i)  BY <1>8, Zenon
  <2> QED BY <2>1
<1>12. Labelled(s, n, fec.percentage, last)
  <2> SUFFICES ASSUME NEW i \in 1..k
      PROVE  /\ IsRead(s[i], n, i - 1, fec.percentage)
             /\ s[i].start <=> i = 1
             /\ s[i].end <=> i = n
             /\ s[i].last = last
    BY <1>10, Zenon DEF Labelled
  <2>1. s[i] = Shard(i)  BY <1>8, Zenon
  <2>2. s[i].info = EncodeFecInfo(n, i - 1, fec.percentage) /\ s[i].last = last
    BY <2>1
  <2>3. s[i].start = (i = 1) /\ s[i].end = (i = n)  BY <2>1
  <2>4. i - 1 \in ShardPlaces  BY <1>6 DEF ShardPlaces
  <2>5. fec.percentage \in Percents  BY <1>6
  <2>6. IsRead(s[i], n, i - 1, fec.percentage)
    BY <1>5, <2>2, <2>4, <2>5, FecInfo, Zenon
  <2> QED BY <2>2, <2>3, <2>6
<1>13. Len(s) = n + fec.parity /\ n \in 1..Len(s)  BY <1>6, <1>10 DEF k
<1>14. \E S : s \in Seq(S)  BY <1>10, Zenon
<1> QED BY <1>1, <1>2, <1>3, <1>4, <1>11, <1>12, <1>13, <1>14, Zenon DEF IsFrame

\* Two runs of shards of which one goes on where the other ends are one run without a gap.
LEMMA NoGap ==
  ASSUME NEW seq \in Nat, NEW S, NEW T, NEW s \in Seq(S), NEW t \in Seq(T),
         Numbered(s, seq), Numbered(t, seq + Len(s)),
         NEW w, w = s \o t
  PROVE  HasNoGap(w)
<1>1. s \in Seq(S \cup T) /\ t \in Seq(S \cup T)  BY SeqMonotonic
<1>2. /\ Len(s) \in Nat /\ Len(t) \in Nat /\ Len(w) = Len(s) + Len(t)
      /\ \A i \in 1..(Len(s) + Len(t)) : w[i] = IF i <= Len(s) THEN s[i] ELSE t[i - Len(s)]
  BY <1>1, ConcatProperties, LenProperties
<1>3. ASSUME NEW i \in 1..Len(w)
      PROVE  w[i].rtp = (seq + i - 1) % 2^16 /\ w[i].stream = (seq + i - 1) % 2^24
  <2>1. CASE i <= Len(s)
    <3>1. w[i] = s[i] /\ i \in 1..Len(s)  BY <1>2, <2>1
    <3> QED BY <3>1 DEF Numbered
  <2>2. CASE i > Len(s)
    <3>1. w[i] = t[i - Len(s)]  BY <1>2, <2>2
    <3>2. i - Len(s) \in 1..Len(t) /\ seq + Len(s) + (i - Len(s)) - 1 = seq + i - 1
      BY <1>2, <2>2
    <3> QED BY <3>1, <3>2 DEF Numbered
  <2> QED BY <1>2, <2>1, <2>2
<1>4. ASSUME NEW i \in 1..(Len(w) - 1)
      PROVE  w[i + 1].rtp = (w[i].rtp + 1) % 2^16 /\ w[i + 1].stream = (w[i].stream + 1) % 2^24
  <2>1. i \in 1..Len(w) /\ i + 1 \in 1..Len(w)  BY <1>2
  <2>2. /\ w[i].rtp = (seq + i - 1) % 2^16 /\ w[i].stream = (seq + i - 1) % 2^24
        /\ w[i + 1].rtp = (seq + (i + 1) - 1) % 2^16 /\ w[i + 1].stream = (seq + (i + 1) - 1) % 2^24
    BY <1>3, <2>1
  <2>3. seq + i - 1 \in Nat /\ seq + (i + 1) - 1 = (seq + i - 1) + 1  OBVIOUS
  <2> QED BY <2>2, <2>3, NextNumber
<1> QED BY <1>4 DEF HasNoGap

\* Whatever the size of an encoded frame (up to the 1023 shards that the headers can count),
\* wherever the sequence numbers start and whatever FEC percentage up to 255 is configured,
\* the shards of packetize tell their place and the frame's exact size, and the next frame
\* follows without a gap.  The parity shards are as many as the advertised percentage asks
\* for, or as the block of 255 has room for if that is less: a client that trusts the
\* percentage alone would wait for shards that were never generated.
THEOREM EveryFrameReassembles ==
  ASSUME NEW size \in FrameSizes, NEW seq \in Nat,
         NEW frame, NEW nextFrame, NEW configured \in Percents
  PROVE  Reassembles(size, seq, configured, frame, nextFrame)
<1> DEFINE len == VideoFrameHeaderSize + size
           s == Packetize(size, seq, frame, configured)
           t == Packetize(0, seq + Len(s), nextFrame, configured)
           total == Total(s[1])
<1>1. IsFrame(s, size, seq, configured)  BY ShardsOf
<1> HIDE DEF s, t
<1>2. PICK n : n = ShardCount(size)  OBVIOUS
<1>3. PICK fec : fec = FecPolicy(n, configured)  OBVIOUS
<1>4. /\ \E S : s \in Seq(S)
      /\ Len(s) = n + fec.parity /\ n \in 1..Len(s)
      /\ Numbered(s, seq) /\ Labelled(s, n, fec.percentage, LastShardSize(len))
  BY <1>1, <1>2, <1>3, Zenon DEF IsFrame
<1>5. PICK S : s \in Seq(S)  BY <1>4
<1>6. Len(s) \in Nat /\ 1 \in 1..Len(s)  BY <1>4, <1>5, LenProperties
<1>7. 0 \in FrameSizes /\ seq + Len(s) \in Nat
  BY <1>6 DEF FrameSizes, Fits, RequestedShardPayloadSize, VideoFrameHeaderSize
<1>8. Numbered(t, seq + Len(s)) /\ \E T : t \in Seq(T)
  <2>1. IsFrame(t, 0, seq + Len(s), configured)  BY <1>7, ShardsOf, Zenon DEF t
  <2> QED BY <2>1, Zenon DEF IsFrame
<1>9. HasNoGap(s \o t)
  <2>1. PICK T : t \in Seq(T)  BY <1>8
  <2> QED BY <1>4, <1>5, <1>8, <2>1, NoGap, Zenon
<1>10. PiecesFit(len, n)  BY <1>2, DataShards, Zenon
<1>11. n \in ShardTotals  BY <1>10, Zenon DEF PiecesFit
<1>12. FecIsSound(n, fec)  BY <1>3, <1>11, Parity, Zenon
<1>13. total = n /\ Percentage(s[1]) = fec.percentage /\ s[1].last = LastShardSize(len)
  BY <1>4, <1>6 DEF Labelled, IsRead
<1> HIDE DEF total
<1>14. TellsItsPlace(s, total)  BY <1>4, <1>13 DEF Labelled, IsRead, TellsItsPlace
<1>15. TellsItsSize(s, total, size)  BY <1>10, <1>13 DEF PiecesFit, TellsItsSize
<1>16. TellsItsParity(s, total)  BY <1>4, <1>12, <1>13 DEF TellsItsParity, FecIsSound
<1>17. total \in ShardTotals /\ Percentage(s[1]) \in Percents
  BY <1>11, <1>12, <1>13, Zenon DEF FecIsSound
<1>18. total <= Len(s)  BY <1>4, <1>13
<1> QED BY <1>9, <1>14, <1>15, <1>16, <1>17, <1>18, Zenon DEF Reassembles, s, t, total

\* In particular for the sizes, starts and percentages that the runs try.
LEMMA SizesReassemble == EverySizeReassembles
<1> SUFFICES ASSUME NEW size \in Sizes, NEW seq \in Starts, NEW configured \in {0, 20}
    PROVE  LET shards == Packetize(size, seq, 7, configured)
               following == Packetize(0, seq + Len(shards), 8, configured)
               n == Total(shards[1])
           IN /\ TellsItsPlace(shards, n) /\ TellsItsSize(shards, n, size) /\ TellsItsParity(shards, n)
              /\ HasNoGap(shards \o following)
  BY Zenon DEF EverySizeReassembles
<1> DEFINE s == Packetize(size, seq, 7, configured)
           t == Packetize(0, seq + Len(s), 8, configured)
           n == Total(s[1])
<1>1. size \in FrameSizes
  BY DEF FrameSizes, Sizes, Counts, Fits, RequestedShardPayloadSize, VideoFrameHeaderSize
<1>2. seq \in Nat /\ configured \in Percents  BY Powers DEF Starts, Percents
<1>3. Reassembles(size, seq, configured, 7, 8)  BY <1>1, <1>2, EveryFrameReassembles
<1>4. /\ TellsItsPlace(s, n) /\ TellsItsSize(s, n, size) /\ TellsItsParity(s, n)
      /\ HasNoGap(s \o t)
  BY <1>3, Zenon DEF Reassembles
<1> QED BY <1>4, Zenon DEF n, s, t

\* Whatever frame is on its way, its client can put it together from its shards, and finds
\* how many of them to wait for: the advertised percentage of parity shards, cut at 255
\* shards in all.  For a frame that fills its block the percentage alone says more than
\* packetize generated, against the comment that it reflects what was actually generated.
THEOREM FramesAreWhole == Spec => []FramesReassemble
<1>1. FramesReassemble  BY SizesReassemble DEF FramesReassemble
<1> QED BY <1>1, PTL

-----------------------------------------------------------------------------
(***************************************************************************)
(* Induction over numbers, stated with a set; and what it says of the runs *)
(* below: the function that starts with `start` and goes on with `next`    *)
(* exists, so it is the one that the recursive definition denotes.         *)
(***************************************************************************)

\* A set of numbers that has 0 and, with each number, the next, has them all.
LEMMA Induction ==
  ASSUME NEW S \in SUBSET Nat, 0 \in S, \A k \in S : k + 1 \in S
  PROVE  S = Nat
<1> SUFFICES ASSUME S # Nat PROVE FALSE  OBVIOUS
<1> DEFINE T == Nat \ S
<1>1. T \subseteq Nat /\ T # {}  OBVIOUS
<1>2. PICK m \in T : \A y \in T : ~ (<<y, m>> \in OpToRel(<, Nat))
  BY <1>1, NatLessThanWellFounded, WFMin
<1>3. m \in Nat /\ m # 0  BY <1>1, <1>2
<1>4. m - 1 \in Nat /\ m - 1 < m  BY <1>3
<1>5. m - 1 \notin T  BY <1>2, <1>3, <1>4 DEF OpToRel
<1>6. m - 1 \in S  BY <1>4, <1>5
<1> QED BY <1>3, <1>6


IsRun(f, n, start, next) == f = [i \in 0..n |-> IF i = 0 THEN start ELSE next[i][f[i - 1]]]

\* Every first value and every step make a run of n steps.
LEMMA RunsExist ==
  ASSUME NEW X, NEW start \in X, NEW next \in [Nat -> [X -> X]], NEW n \in Nat
  PROVE  \E f \in [0..n -> X] : IsRun(f, n, start, next)
<1> DEFINE S == {k \in Nat : \E f \in [0..k -> X] : IsRun(f, k, start, next)}
<1>1. 0 \in S
  <2> DEFINE f == [i \in 0..0 |-> start]
  <2>1. f \in [0..0 -> X]  OBVIOUS
  <2>2. IsRun(f, 0, start, next)  BY DEF IsRun
  <2> QED BY <2>1, <2>2
<1>2. ASSUME NEW k \in S PROVE k + 1 \in S
  <2>1. PICK f \in [0..k -> X] : IsRun(f, k, start, next)  OBVIOUS
  <2> DEFINE g == [i \in 0..(k + 1) |-> IF i <= k THEN f[i] ELSE next[k + 1][f[k]]]
  <2>2. k \in Nat /\ f[k] \in X  BY <2>1
  <2>3. g \in [0..(k + 1) -> X]
    <3>1. next[k + 1][f[k]] \in X  BY <2>2
    <3>2. \A i \in 0..k : f[i] \in X  OBVIOUS
    <3>3. \A i \in 0..(k + 1) : i <= k => i \in 0..k  BY <2>2
    <3> QED BY <3>1, <3>2, <3>3
  <2>4. ASSUME NEW i \in 0..(k + 1) PROVE g[i] = IF i = 0 THEN start ELSE next[i][g[i - 1]]
    <3>1. CASE i <= k
      <4>1. g[i] = f[i] /\ i \in 0..k  BY <2>2, <3>1
      <4>2. f[i] = IF i = 0 THEN start ELSE next[i][f[i - 1]]  BY <2>1, <4>1 DEF IsRun
      <4>3. i # 0 => g[i - 1] = f[i - 1]  BY <2>2, <3>1
      <4> QED BY <4>1, <4>2, <4>3
    <3>2. CASE i = k + 1
      <4>1. g[i] = next[k + 1][f[k]] /\ g[i - 1] = f[k] /\ i # 0  BY <2>2, <3>2
      <4> QED BY <3>2, <4>1
    <3> QED BY <2>2, <3>1, <3>2
  <2> HIDE DEF g
  <2>5. IsRun(g, k + 1, start, next)
    <3>1. g = [i \in 0..(k + 1) |-> g[i]]  BY <2>3
    <3> QED BY <2>4, <3>1 DEF IsRun
  <2> QED BY <2>2, <2>3, <2>5
<1>3. S = Nat
  <2>1. S \subseteq Nat  OBVIOUS
  <2> HIDE DEF S
  <2> QED BY <1>1, <1>2, <2>1, Induction
<1>4. n \in S  BY <1>3
<1> QED BY <1>4

-----------------------------------------------------------------------------
(***************************************************************************)
(* Audio.  `lens` and `times` are the whole stream of Opus frames.         *)
(***************************************************************************)

\* The first frame of the group that frame k belongs to.
GroupOf(k) == k - (k % 4)

\* The packetizer has the next number and, of the group it is in, the lengths and the first
\* time.
AudioFollows(state, lens, times, k) ==
    /\ state.seq = k % 2^16
    /\ state.group \in [0..3 -> Nat]
    /\ \A j \in 0..3 : j < k % 4 => state.group[j] = lens[GroupOf(k) + j]
    /\ k % 4 # 0 => state.base = times[GroupOf(k)]

AudioState == [seq : Nat, base : Nat, group : [0..3 -> Nat]]

\* The packets for frame k: data under its own number; and exactly after the last of four
\* frames of one length two FEC packets that stand for those four (their first number, also
\* where the 16-bit numbers wrap) and carry the time of the first.
IsCovered(packets, lens, times, k) ==
    LET covered == k % 4 = 3 /\ \A j \in 1..3 : lens[k - j] = lens[k]
        fec(i) == [type |-> "fec", seq |-> (k + 1 + i) % 2^16,
                   shard |-> i, of |-> (k - 3) % 2^16, base |-> times[k - 3]]
        data == [type |-> "data", seq |-> k % 2^16, time |-> times[k]]
    IN packets = IF covered THEN <<data, fec(0), fec(1)>> ELSE <<data>>

\* One frame of any stream, when the packetizer follows it: its packets are right, and the
\* packetizer follows the stream again.
LEMMA AudioStep ==
  ASSUME NEW lens \in [Nat -> Nat], NEW times \in [Nat -> Nat], NEW k \in Nat,
         NEW state \in [seq : Nat, base : Nat, group : [0..3 -> Nat]], AudioFollows(state, lens, times, k)
  PROVE  LET step == PacketizeAudio(state, lens[k], times[k])
         IN /\ step.state \in [seq : Nat, base : Nat, group : [0..3 -> Nat]]
            /\ AudioFollows(step.state, lens, times, k + 1)
            /\ IsCovered(step.packets, lens, times, k)
<1> DEFINE index == state.seq % AudioDataShards
           base == IF index = 0 THEN times[k] ELSE state.base
           group == [state.group EXCEPT ![index] = lens[k]]
           next == (state.seq + 1) % 2^16
           covered == k % 4 = 3 /\ \A j \in 1..3 : lens[k - j] = lens[k]
           full == index = AudioDataShards - 1 /\ \A i \in DOMAIN group : group[i] = group[0]
<1>1. /\ state.seq = k % 65536 /\ index = k % 4 /\ index \in 0..3
      /\ next = (k + 1) % 65536
  BY Powers DEF AudioFollows, AudioDataShards
<1>2. group \in [0..3 -> Nat] /\ group[index] = lens[k] /\ \A j \in 0..3 : j # index => group[j] = state.group[j]
  BY <1>1
<1>3. ASSUME NEW j \in 0..3, j <= k % 4 PROVE group[j] = lens[GroupOf(k) + j]
  <2>1. CASE j = index
    <3>1. GroupOf(k) + j = k  BY <1>1, <2>1 DEF GroupOf
    <3> QED BY <1>2, <2>1, <3>1
  <2>2. CASE j # index
    <3>1. j < k % 4  BY <1>1, <1>3, <2>2
    <3>2. state.group[j] = lens[GroupOf(k) + j]  BY <3>1, Zenon DEF AudioFollows
    <3> QED BY <1>2, <2>2, <3>2, Zenon
  <2> QED BY <2>1, <2>2
<1>4. base = times[GroupOf(k)]
  <2>1. CASE k % 4 = 0
    <3>1. GroupOf(k) = k  BY <2>1 DEF GroupOf
    <3> QED BY <1>1, <2>1, <3>1
  <2>2. CASE k % 4 # 0  BY <1>1, <2>2 DEF AudioFollows
  <2> QED BY <2>1, <2>2
<1>5. full <=> covered
  <2>1. CASE k % 4 = 3
    <3>1. group[0] = lens[k - 3] /\ group[1] = lens[k - 2] /\ group[2] = lens[k - 1] /\ group[3] = lens[k]
      BY <1>3, <2>1 DEF GroupOf
    <3>2. full <=> group[1] = group[0] /\ group[2] = group[0] /\ group[3] = group[0]
      <4>1. DOMAIN group = 0..3  BY <1>2
      <4>2. index = AudioDataShards - 1  BY <1>1, <2>1 DEF AudioDataShards
      <4> QED BY <4>1, <4>2
    <3>3. covered <=> lens[k - 1] = lens[k] /\ lens[k - 2] = lens[k] /\ lens[k - 3] = lens[k]
      BY <2>1
    <3> QED BY <3>1, <3>2, <3>3
  <2>2. CASE k % 4 # 3  BY <1>1, <2>2 DEF AudioDataShards
  <2> QED BY <2>1, <2>2
<1> DEFINE fec(i) == [type |-> "fec", seq |-> (k + 1 + i) % 2^16,
                      shard |-> i, of |-> (k - 3) % 2^16, base |-> times[k - 3]]
           data == [type |-> "data", seq |-> k % 2^16, time |-> times[k]]
           sent(i) == [type |-> "fec", seq |-> (next + i) % 2^16,
                       shard |-> i, of |-> BaseSequenceNumber(next), base |-> base]
           now == [type |-> "data", seq |-> state.seq, time |-> times[k]]
<1>6. PacketizeAudio(state, lens[k], times[k])
         = [state |-> [seq |-> next, base |-> base, group |-> group],
            packets |-> IF full THEN <<now, sent(0), sent(1)>> ELSE <<now>>]
  BY Zenon DEF PacketizeAudio
<1>7. now = data  BY <1>1, Powers
<1>8. ASSUME full, NEW i \in {0, 1} PROVE sent(i) = fec(i)
  <2>1. k % 4 = 3 /\ k >= 3 /\ GroupOf(k) = k - 3  BY <1>5, <1>8 DEF GroupOf
  <2>2. (next + i) % 2^16 = (k + 1 + i) % 2^16  BY <1>1, Powers
  <2>3. BaseSequenceNumber(next) = (k - 3) % 2^16
    BY <1>1, <2>1, Powers DEF BaseSequenceNumber, AudioDataShards
  <2> QED BY <1>4, <2>1, <2>2, <2>3
<1>9. AudioFollows([seq |-> next, base |-> base, group |-> group], lens, times, k + 1)
  <2>1. next = (k + 1) % 2^16  BY <1>1, Powers
  <2>2. ASSUME NEW j \in 0..3, j < (k + 1) % 4 PROVE group[j] = lens[GroupOf(k + 1) + j]
    <3>1. j <= k % 4 /\ GroupOf(k + 1) = GroupOf(k)  BY <2>2 DEF GroupOf
    <3> QED BY <1>3, <3>1
  <2>3. (k + 1) % 4 # 0 => base = times[GroupOf(k + 1)]
    BY <1>4 DEF GroupOf
  <2> QED BY <1>2, <2>1, <2>2, <2>3 DEF AudioFollows
<1> HIDE DEF full, covered, now, data, sent, fec, next, base, group
<1>10. (IF full THEN <<now, sent(0), sent(1)>> ELSE <<now>>)
         = (IF covered THEN <<data, fec(0), fec(1)>> ELSE <<data>>)
  <2>1. full => sent(0) = fec(0) /\ sent(1) = fec(1)  BY <1>8
  <2> QED BY <1>5, <1>7, <2>1
<1>11. [seq |-> next, base |-> base, group |-> group] \in [seq : Nat, base : Nat, group : [0..3 -> Nat]]
  <2>1. next \in Nat  BY <1>1 DEF next
  <2>2. base \in Nat
    <3>1. GroupOf(k) \in Nat  BY DEF GroupOf
    <3> QED BY <1>4, <3>1
  <2>3. group \in [0..3 -> Nat]  BY <1>2
  <2> QED BY <2>1, <2>2, <2>3
<1>12. IsCovered(IF full THEN <<now, sent(0), sent(1)>> ELSE <<now>>, lens, times, k)
  BY <1>10, Zenon DEF IsCovered, covered, data, fec
<1> QED BY <1>6, <1>9, <1>11, <1>12


\* `state[i]` is what the packetizer keeps after i frames of a stream, from frame `from` on.
IsAudioRun(state, n, lens, times, from) ==
    \A i \in 1..n : state[i] = PacketizeAudio(state[i - 1], lens[from + (i - 1)], times[from + (i - 1)]).state

\* However long the stream, of frames of any lengths and times: the packets for every frame
\* are right.  A fresh packetizer starts `from` 0; any multiple of four will do, whatever is
\* in its group.
THEOREM EveryAudioGroupIsCovered ==
  ASSUME NEW lens \in [Nat -> Nat], NEW times \in [Nat -> Nat], NEW from \in Nat, from % 4 = 0,
         NEW n \in Nat, NEW state, IsAudioRun(state, n, lens, times, from),
         state[0] \in AudioState, state[0].seq = from % 2^16
  PROVE  \A i \in 1..n :
            IsCovered(PacketizeAudio(state[i - 1], lens[from + (i - 1)], times[from + (i - 1)]).packets,
                      lens, times, from + (i - 1))
<1> DEFINE Follows(i) == state[i] \in AudioState /\ AudioFollows(state[i], lens, times, from + i)
           S == {i \in Nat : i <= n => Follows(i)}
<1>1. 0 \in S
  <2>1. from + 0 = from  OBVIOUS
  <2>2. AudioFollows(state[0], lens, times, from)
    BY DEF AudioFollows, AudioState, AudioDataShards
  <2>3. Follows(0)  BY <2>1, <2>2
  <2> HIDE DEF Follows
  <2> QED BY <2>3
<1>2. ASSUME NEW i \in 1..n, Follows(i - 1)
      PROVE  /\ Follows(i)
             /\ IsCovered(PacketizeAudio(state[i - 1], lens[from + (i - 1)], times[from + (i - 1)]).packets,
                          lens, times, from + (i - 1))
  <2> DEFINE k == from + (i - 1)
  <2>1. k \in Nat /\ k + 1 = from + i  OBVIOUS
  <2>2. state[i] = PacketizeAudio(state[i - 1], lens[k], times[k]).state  BY Zenon DEF IsAudioRun
  <2>3. state[i - 1] \in AudioState /\ AudioFollows(state[i - 1], lens, times, k)  BY <1>2
  <2> HIDE DEF k
  <2>4. /\ PacketizeAudio(state[i - 1], lens[k], times[k]).state \in AudioState
        /\ AudioFollows(PacketizeAudio(state[i - 1], lens[k], times[k]).state, lens, times, k + 1)
        /\ IsCovered(PacketizeAudio(state[i - 1], lens[k], times[k]).packets, lens, times, k)
    BY <2>1, <2>3, AudioStep DEF AudioState
  <2> QED BY <2>1, <2>2, <2>4, Zenon DEF k
<1> HIDE DEF Follows
<1>3. ASSUME NEW i \in S PROVE i + 1 \in S
  <2> SUFFICES ASSUME i + 1 <= n PROVE Follows(i + 1)  OBVIOUS
  <2>1. i + 1 \in 1..n /\ (i + 1) - 1 = i /\ Follows(i)  OBVIOUS
  <2>2. Follows((i + 1) - 1)  BY <2>1, Zenon
  <2> QED BY <1>2, <2>1, <2>2, Zenon
<1>4. S = Nat
  <2>1. S \subseteq Nat  OBVIOUS
  <2> HIDE DEF S
  <2> QED BY <1>1, <1>3, <2>1, Induction
<1>5. ASSUME NEW i \in 1..n PROVE Follows(i - 1)
  <2>1. i - 1 \in Nat /\ i - 1 <= n  OBVIOUS
  <2>2. i - 1 \in S  BY <1>4, <2>1, Zenon
  <2> QED BY <2>1, <2>2
<1> QED BY <1>2, <1>5

\* What the runs' twelve frames make of a packetizer.
LEMMA RunsAudio ==
  ASSUME NEW seq \in AudioNumbers, NEW odd \in 0..8
  PROVE  /\ AudioRun(seq, odd)[0] = [FreshAudio EXCEPT !.seq = seq]
         /\ \A i \in 1..OpusFrames : AudioRun(seq, odd)[i]
                              = PacketizeAudio(AudioRun(seq, odd)[i - 1], OpusLength(i, odd), 10 * i).state
<1> DEFINE X == AudioState
           start == [FreshAudio EXCEPT !.seq = seq]
           next == [i \in Nat |-> [s \in X |-> PacketizeAudio(s, OpusLength(i, odd), 10 * i).state]]
           run == AudioRun(seq, odd)
<1>1. start \in X  BY Powers DEF FreshAudio, AudioState, AudioDataShards, AudioNumbers
<1>2. ASSUME NEW s \in AudioState, NEW len \in Nat, NEW time \in Nat
      PROVE  PacketizeAudio(s, len, time).state \in AudioState
  <2> DEFINE index == s.seq % AudioDataShards
             base == IF index = 0 THEN time ELSE s.base
             group == [s.group EXCEPT ![index] = len]
             after == (s.seq + 1) % 2^16
  <2>1. after \in Nat /\ base \in Nat /\ group \in [0..3 -> Nat]
    BY Powers DEF AudioState, AudioDataShards
  <2>2. PacketizeAudio(s, len, time).state = [seq |-> after, base |-> base, group |-> group]
    BY Zenon DEF PacketizeAudio
  <2> HIDE DEF after, base, group
  <2> QED BY <2>1, <2>2 DEF AudioState
<1>3. next \in [Nat -> [X -> X]]  BY <1>2 DEF OpusLength
<1>4. \A i \in Nat, s \in X : next[i][s] = PacketizeAudio(s, OpusLength(i, odd), 10 * i).state  OBVIOUS
<1> HIDE DEF next, start, X
<1>5. OpusFrames \in Nat  BY DEF OpusFrames
<1>6. PICK f \in [0..OpusFrames -> X] : IsRun(f, OpusFrames, start, next)  BY <1>1, <1>3, <1>5, RunsExist
<1>7. ASSUME NEW i \in 0..OpusFrames, i # 0
      PROVE  next[i][f[i - 1]] = PacketizeAudio(f[i - 1], OpusLength(i, odd), 10 * i).state
  <2>1. i \in Nat /\ i - 1 \in 0..OpusFrames  BY <1>5, <1>7
  <2>2. f[i - 1] \in X  BY <2>1
  <2> QED BY <1>4, <2>1, <2>2, Zenon
<1>8. f = [i \in 0..OpusFrames |-> IF i = 0 THEN start ELSE PacketizeAudio(f[i - 1], OpusLength(i, odd), 10 * i).state]
  BY <1>6, <1>7 DEF IsRun
<1>9. run = [i \in 0..OpusFrames |-> IF i = 0 THEN start ELSE PacketizeAudio(run[i - 1], OpusLength(i, odd), 10 * i).state]
  BY <1>8, Zenon DEF AudioRun, start
<1> HIDE DEF run
<1>10. 0 \in 0..OpusFrames /\ \A i \in 1..OpusFrames : i \in 0..OpusFrames /\ i # 0  BY <1>5
<1> QED BY <1>9, <1>10 DEF run, start

\* In particular the frames, numbers and odd lengths that the runs try.
LEMMA AudioGroups == EveryAudioGroupRecovers
<1> SUFFICES ASSUME NEW seq \in AudioNumbers, NEW odd \in 0..8, NEW i \in 1..OpusFrames
    PROVE Recoverable(SentAudio(seq, odd), seq, odd, i)
  BY Zenon DEF EveryAudioGroupRecovers
<1>0. seq \in Nat /\ seq % 2^16 = seq /\ seq % 4 = 0 /\ OpusFrames \in Nat
  BY Powers DEF AudioNumbers, OpusFrames
<1> DEFINE run == AudioRun(seq, odd)
           sent == SentAudio(seq, odd)
           lens == [k \in Nat |-> OpusLength((k - seq) + 1, odd)]
           times == [k \in Nat |-> IF k >= seq THEN 10 * ((k - seq) + 1) ELSE 0]
<1>1. lens \in [Nat -> Nat] /\ times \in [Nat -> Nat]  BY <1>0 DEF OpusLength
<1>2. \A j \in 1..OpusFrames : lens[seq + (j - 1)] = OpusLength(j, odd) /\ times[seq + (j - 1)] = 10 * j
  <2> SUFFICES ASSUME NEW j \in 1..OpusFrames
               PROVE  lens[seq + (j - 1)] = OpusLength(j, odd) /\ times[seq + (j - 1)] = 10 * j
    OBVIOUS
  <2>1. seq + (j - 1) \in Nat /\ ((seq + (j - 1)) - seq) + 1 = j /\ seq + (j - 1) >= seq  BY <1>0
  <2> QED BY <2>1
<1>3. run[0] \in AudioState /\ run[0].seq = seq % 2^16
  <2>1. run[0] = [FreshAudio EXCEPT !.seq = seq]  BY RunsAudio, Zenon
  <2> HIDE DEF run
  <2> QED BY <1>0, <2>1 DEF FreshAudio, AudioState, AudioDataShards
<1> HIDE DEF lens, times
<1>4. IsAudioRun(run, OpusFrames, lens, times, seq)
  <2>1. \A j \in 1..OpusFrames : run[j] = PacketizeAudio(run[j - 1], OpusLength(j, odd), 10 * j).state  BY RunsAudio, Zenon
  <2> HIDE DEF run
  <2> QED BY <1>2, <2>1 DEF IsAudioRun
<1> HIDE DEF run
<1>5. ASSUME NEW j \in 1..OpusFrames PROVE IsCovered(sent[j], lens, times, seq + (j - 1))
  <2>1. sent[j] = PacketizeAudio(run[j - 1], lens[seq + (j - 1)], times[seq + (j - 1)]).packets
    BY <1>2 DEF SentAudio, run
  <2>3. IsCovered(PacketizeAudio(run[j - 1], lens[seq + (j - 1)], times[seq + (j - 1)]).packets,
                  lens, times, seq + (j - 1))
    BY <1>0, <1>1, <1>3, <1>4, EveryAudioGroupIsCovered, Zenon
  <2> QED BY <2>1, <2>3
<1> HIDE DEF sent
<1> DEFINE raw(j) == [type |-> "data", seq |-> (seq + (j - 1)) % 2^16, time |-> times[seq + (j - 1)]]
           data(j) == [type |-> "data", seq |-> (seq + (j - 1)) % 2^16, time |-> 10 * j]
           k == seq + (i - 1)
           covered == k % 4 = 3 /\ \A j \in 1..3 : lens[k - j] = lens[k]
           fec(p) == [type |-> "fec", seq |-> (k + 1 + p) % 2^16,
                      shard |-> p, of |-> (k - 3) % 2^16, base |-> times[k - 3]]
<1>6. ASSUME NEW j \in 1..OpusFrames PROVE raw(j) = data(j) /\ sent[j][1] = data(j)
  <2>1. raw(j) = data(j)  BY <1>2
  <2>2. PICK a, b : sent[j] = <<raw(j), a, b>> \/ sent[j] = <<raw(j)>>
    BY <1>5, Zenon DEF IsCovered
  <2> HIDE DEF data, raw
  <2> QED BY <2>1, <2>2
<1>7. sent[i] = IF covered THEN <<data(i), fec(0), fec(1)>> ELSE <<data(i)>>
  <2>1. sent[i] = IF covered THEN <<raw(i), fec(0), fec(1)>> ELSE <<raw(i)>>
    BY <1>5, Zenon DEF IsCovered
  <2> HIDE DEF covered, data, raw, fec
  <2> QED BY <1>6, <2>1
<1>8. covered <=> i % 4 = 0 /\ odd \notin (i - 3)..i
  <2>1. k % 4 = 3 <=> i % 4 = 0  BY <1>0
  <2>2. ASSUME i % 4 = 0
        PROVE  (\A j \in 1..3 : lens[k - j] = lens[k]) <=> odd \notin (i - 3)..i
    <3>1. /\ lens[k] = OpusLength(i, odd) /\ lens[k - 1] = OpusLength(i - 1, odd)
          /\ lens[k - 2] = OpusLength(i - 2, odd) /\ lens[k - 3] = OpusLength(i - 3, odd)
      <4>1. i - 1 \in 1..OpusFrames /\ i - 2 \in 1..OpusFrames /\ i - 3 \in 1..OpusFrames  BY <1>0, <2>2
      <4>2. /\ seq + ((i - 1) - 1) = k - 1 /\ seq + ((i - 2) - 1) = k - 2 /\ seq + ((i - 3) - 1) = k - 3
        BY <1>0
      <4> HIDE DEF k
      <4>3. lens[k] = OpusLength(i, odd)  BY <1>2, Zenon DEF k
      <4> QED BY <1>2, <4>1, <4>2, <4>3
    <3> HIDE DEF k
    <3>2. odd \notin (i - 3)..i <=> odd # i /\ odd # i - 1 /\ odd # i - 2 /\ odd # i - 3  OBVIOUS
    <3>3. (\A j \in 1..3 : lens[k - j] = lens[k])
            <=> lens[k - 1] = lens[k] /\ lens[k - 2] = lens[k] /\ lens[k - 3] = lens[k]
      OBVIOUS
    <3> QED BY <3>1, <3>2, <3>3 DEF OpusLength
  <2> QED BY <2>1, <2>2
<1>9. ASSUME covered
      PROVE  /\ i - 3 \in 1..OpusFrames /\ (k - 3) % 2^16 = data(i - 3).seq /\ times[k - 3] = data(i - 3).time
             /\ \A p \in {0, 1} : fec(p).of = data(i - 3).seq /\ fec(p).base = data(i - 3).time
  <2>1. i - 3 \in 1..OpusFrames /\ seq + ((i - 3) - 1) = k - 3
    <3>1. k % 4 = 3  BY <1>9
    <3> QED BY <1>0, <3>1
  <2>2. times[k - 3] = 10 * (i - 3)  BY <1>2, <2>1
  <2> HIDE DEF k
  <2> QED BY <2>1, <2>2
<1>10. data(i).seq % AudioDataShards = (i - 1) % AudioDataShards
  BY <1>0, Powers DEF AudioDataShards
<1>11. \A p \in {0, 1} : fec(p).type = "fec"  OBVIOUS
<1>12. Len(sent[i]) = IF covered THEN 3 ELSE 1
  <2> HIDE DEF covered, data, fec
  <2> QED BY <1>7
<1>13. ASSUME NEW p \in 2..Len(sent[i])
       PROVE  /\ sent[i][p].type = "fec"
              /\ sent[i][p].of = sent[i - 3][1].seq
              /\ sent[i][p].base = sent[i - 3][1].time
  <2>1. covered /\ p \in {2, 3}
    <3> HIDE DEF covered
    <3> QED BY <1>12
  <2>2. sent[i][p] = fec(p - 2)
    <3> HIDE DEF covered, data, fec
    <3> QED BY <1>7, <2>1
  <2>3. sent[i - 3][1] = data(i - 3)
    <3> HIDE DEF covered, data
    <3> QED BY <1>6, <1>9, <2>1
  <2>4. p - 2 \in {0, 1}  BY <2>1
  <2> HIDE DEF covered, data, fec
  <2> QED BY <1>9, <1>11, <2>1, <2>2, <2>3, <2>4
<1>14. sent[i][1] = data(i)  BY <1>6
<1> HIDE DEF covered, data, raw, fec
<1>15. Len(sent[i]) = IF i % 4 = 0 /\ odd \notin (i - 3)..i THEN 3 ELSE 1  BY <1>8, <1>12
<1> QED BY <1>10, <1>13, <1>14, <1>15, Zenon DEF sent, data, Recoverable

\* Whatever audio streams, a lost packet of every full group can be recovered.
THEOREM AudioIsRecoverable == Spec => []AudioGroupsRecover
<1>1. AudioGroupsRecover  BY AudioGroups DEF AudioGroupsRecover
<1> QED BY <1>1, PTL

-----------------------------------------------------------------------------
\* on_loss_stats, for every client that asks for at least 1000 kbps: the bitrate stays between
\* the floor and what the client asked for, rises after every report of a client that keeps
\* up until it has reached exactly that, and falls after every report of one that is more
\* than three frames behind until it has reached the floor.
THEOREM BitrateFollowsTheClient ==
  ASSUME NEW target \in Nat, target >= 1000, NEW current \in FloorKbps(target)..target,
         NEW nextFrame \in Nat, NEW lastGood \in Nat
  PROVE  LET next == AdaptAfterReport(current, target, nextFrame, lastGood)
         IN /\ next \in FloorKbps(target)..target
            /\ nextFrame <= lastGood + 1 => IF current = target THEN next = target ELSE next > current
            /\ nextFrame > lastGood + 3 => IF current = FloorKbps(target) THEN next = current ELSE next < current
BY DEF AdaptAfterReport, AdaptBitrate, FloorKbps, Most, Least


\* `rate[i]` is a session's bitrate after i loss reports, when the client was `behind[i]`
\* frames behind in the i-th; it starts with what the client asked for, or anywhere below
\* that down to the floor.
IsRate(rate, n, target, behind) ==
    /\ rate[0] \in FloorKbps(target)..target
    /\ \A i \in 1..n : rate[i] = AdaptBitrate(rate[i - 1], target, behind[i])

\* The least that a client may ask for here; a twentieth of a bitrate; 15 percent of one.
Enough(kbps) == kbps >= 1000
Gain(kbps) == kbps \div 20
Cut(kbps) == (kbps * 15) \div 100

\* One report of a client that keeps up adds at least a twentieth of any bitrate b that the
\* present one has reached.
LEMMA Climb ==
  ASSUME NEW target \in Nat, NEW c \in Nat, NEW b \in Nat, NEW g \in Nat, NEW h \in Nat, NEW behind \in {0, 1},
         g = Gain(b), c <= target, c >= Least(b + h, target)
  PROVE  AdaptBitrate(c, target, behind) >= Least(b + (h + g), target)
<1>1. AdaptBitrate(c, target, behind) = Least((c * 105) \div 100, target)  BY DEF AdaptBitrate
<1>2. 20 * g <= b  BY DEF Gain
<1>3. PICK d \in Nat : d = (c * 105) \div 100 /\ 100 * d <= 105 * c /\ 105 * c <= 100 * d + 99  OBVIOUS
<1>4. c >= b + h \/ c = target  BY DEF Least
<1>5. d >= b + (h + g) \/ d >= target  BY <1>2, <1>3, <1>4
<1> QED BY <1>1, <1>2, <1>3, <1>5 DEF Least

\* One report of a client that lags takes at least 15 percent of the floor from the bitrate
\* or leaves it at the floor.
LEMMA Fall ==
  ASSUME NEW target \in Nat, NEW c \in Nat, NEW f \in Nat, NEW g \in Nat, NEW h \in Nat, NEW behind \in Nat,
         f = FloorKbps(target), g = Cut(f), behind > 3, c >= f, c <= Most(target - h, f)
  PROVE  AdaptBitrate(c, target, behind) <= Most(target - (h + g), f)
<1>1. AdaptBitrate(c, target, behind) = Most((c * 85) \div 100, f)  BY DEF AdaptBitrate
<1>2. 100 * g <= 15 * f  BY DEF Cut
<1>3. PICK d \in Nat : d = (c * 85) \div 100 /\ 100 * d <= 85 * c  OBVIOUS
<1>4. c = f \/ c <= target - h  BY DEF Most
<1>5. d <= f \/ d <= target - (h + g)  BY <1>2, <1>3, <1>4
<1> QED BY <1>1, <1>2, <1>3, <1>5 DEF Most

\* No report takes the bitrate below the floor or above the target.
LEMMA RateInBounds ==
  ASSUME NEW target \in Nat, Enough(target), NEW n \in Nat, NEW behind \in [1..n -> Nat],
         NEW rate, IsRate(rate, n, target, behind)
  PROVE  \A i \in 0..n : rate[i] \in FloorKbps(target)..target
<1> DEFINE Bounds == FloorKbps(target)..target
           S == {i \in Nat : i <= n => rate[i] \in Bounds}
<1>1. 0 \in S  BY Zenon DEF IsRate, S
<1>2. ASSUME NEW c \in Bounds, NEW late \in Nat PROVE AdaptBitrate(c, target, late) \in Bounds
  BY DEF AdaptBitrate, FloorKbps, Most, Least, Enough
<1>3. ASSUME NEW i \in S PROVE i + 1 \in S
  <2> SUFFICES ASSUME i + 1 <= n PROVE rate[i + 1] \in Bounds  OBVIOUS
  <2>1. rate[i] \in Bounds /\ i + 1 \in 1..n /\ (i + 1) - 1 = i
    <3> HIDE DEF Bounds
    <3> QED OBVIOUS
  <2>2. rate[i + 1] = AdaptBitrate(rate[i], target, behind[i + 1]) /\ behind[i + 1] \in Nat
    BY <2>1, Zenon DEF IsRate
  <2> QED BY <1>2, <2>1, <2>2, Zenon
<1>4. S = Nat
  <2>1. S \subseteq Nat  OBVIOUS
  <2> HIDE DEF S
  <2> QED BY <1>1, <1>3, <2>1, Induction
<1> HIDE DEF Bounds
<1>5. \A i \in 0..n : i \in S /\ i <= n  BY <1>4
<1> QED BY <1>5 DEF Bounds

\* As long as the client keeps up, every report adds a twentieth of any bitrate b that has
\* been reached before, up to the target.
LEMMA Climbs ==
  ASSUME NEW target \in Nat, Enough(target), NEW n \in Nat, NEW behind \in [1..n -> Nat],
         NEW rate, IsRate(rate, n, target, behind), \A i \in 1..n : behind[i] <= 1,
         NEW from \in 0..n, NEW b \in Nat, NEW g \in Nat, g = Gain(b), rate[from] >= Least(b, target)
  PROVE  \A i \in 0..(n - from) : rate[from + i] >= Least(b + i * g, target)
<1> DEFINE Reached(i) == rate[from + i] >= Least(b + i * g, target)
           S == {i \in Nat : from + i <= n => Reached(i)}
<1>1. 0 \in S
  <2>1. from + 0 = from /\ b + 0 * g = b  OBVIOUS
  <2>2. Reached(0)  BY <2>1, Zenon
  <2> HIDE DEF Reached
  <2> QED BY <2>2
<1>2. ASSUME NEW i \in S PROVE i + 1 \in S
  <2> HIDE DEF Reached
  <2> SUFFICES ASSUME from + (i + 1) <= n PROVE Reached(i + 1)  OBVIOUS
  <2>1. i \in Nat /\ from + i <= n /\ Reached(i)  OBVIOUS
  <2> HIDE DEF S
  <2>2. PICK k \in 1..n : k = from + (i + 1) /\ k - 1 = from + i /\ k - 1 \in 0..n  BY <2>1
  <2>3. rate[k - 1] \in FloorKbps(target)..target  BY <2>2, RateInBounds
  <2>4. PICK c \in Nat : c = rate[k - 1] /\ c <= target  BY <2>3 DEF FloorKbps, Most
  <2>5. rate[k] = AdaptBitrate(c, target, behind[k]) /\ behind[k] \in {0, 1}
    <3>1. rate[k] = AdaptBitrate(rate[k - 1], target, behind[k])  BY <2>2, Zenon DEF IsRate
    <3>2. behind[k] \in Nat /\ behind[k] <= 1  BY <2>2
    <3> QED BY <2>4, <3>1, <3>2
  <2>6. PICK h \in Nat : h = i * g  BY <2>1
  <2>7. (i + 1) * g = h + g  BY <2>1, <2>6
  <2>8. c >= Least(b + h, target)  BY <2>1, <2>2, <2>4, <2>6, Zenon DEF Reached
  <2>9. AdaptBitrate(c, target, behind[k]) >= Least(b + (h + g), target)
    BY <2>4, <2>5, <2>8, Climb, Zenon
  <2> QED BY <2>2, <2>5, <2>7, <2>9, Zenon DEF Reached
<1>3. S = Nat
  <2>1. S \subseteq Nat  OBVIOUS
  <2> HIDE DEF S
  <2> QED BY <1>1, <1>2, <2>1, Induction
<1> HIDE DEF Reached
<1>4. \A i \in 0..(n - from) : i \in S /\ from + i <= n  BY <1>3
<1> QED BY <1>4 DEF Reached

\* As long as it lags, every report takes away 15 percent of the floor.
LEMMA Falls ==
  ASSUME NEW target \in Nat, Enough(target), NEW n \in Nat, NEW behind \in [1..n -> Nat],
         NEW rate, IsRate(rate, n, target, behind), \A i \in 1..n : behind[i] > 3,
         NEW f \in Nat, f = FloorKbps(target), NEW g \in Nat, g = Cut(f)
  PROVE  \A i \in 0..n : rate[i] <= Most(target - i * g, f)
<1> DEFINE Fallen(i) == rate[i] <= Most(target - i * g, f)
           S == {i \in Nat : i <= n => Fallen(i)}
<1>1. 0 \in S
  <2>1. rate[0] <= target /\ rate[0] \in Nat  BY DEF IsRate, FloorKbps, Most
  <2>2. target - 0 * g = target  OBVIOUS
  <2>3. Fallen(0)  BY <2>1, <2>2 DEF Most
  <2> HIDE DEF Fallen
  <2> QED BY <2>3
<1>2. ASSUME NEW i \in S PROVE i + 1 \in S
  <2> HIDE DEF Fallen
  <2> SUFFICES ASSUME i + 1 <= n PROVE Fallen(i + 1)  OBVIOUS
  <2>1. i \in Nat /\ i <= n /\ Fallen(i)  OBVIOUS
  <2> HIDE DEF S
  <2>2. PICK k \in 1..n : k = i + 1 /\ k - 1 = i /\ k - 1 \in 0..n  BY <2>1
  <2>3. rate[k - 1] \in f..target  BY <2>2, RateInBounds
  <2>4. PICK c \in Nat : c = rate[k - 1] /\ c >= f  BY <2>3
  <2>5. rate[k] = AdaptBitrate(c, target, behind[k]) /\ behind[k] \in Nat /\ behind[k] > 3
    <3>1. rate[k] = AdaptBitrate(rate[k - 1], target, behind[k])  BY <2>2, Zenon DEF IsRate
    <3>2. behind[k] \in Nat /\ behind[k] > 3  BY <2>2
    <3> QED BY <2>4, <3>1, <3>2
  <2>6. PICK h \in Nat : h = i * g  BY <2>1
  <2>7. (i + 1) * g = h + g  BY <2>1, <2>6
  <2>8. c <= Most(target - h, f)  BY <2>1, <2>2, <2>4, <2>6, Zenon DEF Fallen
  <2>9. AdaptBitrate(c, target, behind[k]) <= Most(target - (h + g), f)
    BY <2>4, <2>5, <2>8, Fall, Zenon
  <2> QED BY <2>2, <2>5, <2>7, <2>9, Zenon DEF Fallen
<1>3. S = Nat
  <2>1. S \subseteq Nat  OBVIOUS
  <2> HIDE DEF S
  <2> QED BY <1>1, <1>2, <2>1, Induction
<1> HIDE DEF Fallen
<1>4. ASSUME NEW i \in 0..n PROVE Fallen(i)
  <2>1. i \in Nat /\ i <= n  OBVIOUS
  <2>2. i \in S  BY <1>3, <2>1, Zenon
  <2> QED BY <2>1, <2>2
<1> QED BY <1>4, Zenon DEF Fallen

\* Twenty-one times 15 percent of the floor is all that can be above it.
LEMMA Thirds ==
  ASSUME NEW f \in Nat, Enough(f), NEW target \in Nat, target <= 4 * f + 3
  PROVE  Cut(f) \in Nat /\ target - Stretch * Cut(f) <= f
BY DEF Cut, Enough, Stretch

\* Twenty-one times a twentieth is more than the whole.
LEMMA Doubles ==
  ASSUME NEW f \in Nat, Enough(f)
  PROVE  Gain(f) \in Nat /\ 2 * f + 3 <= f + Stretch * Gain(f)
BY DEF Gain, Enough, Stretch

\* A product grows with its factor.
LEMMA Product ==
  ASSUME NEW a \in Nat, NEW b \in Nat, a >= b, NEW g \in Nat
  PROVE  a * g \in Nat /\ a * g >= b * g
OBVIOUS

\* The rates of n reports stay between floor and target; 21 reports of a client that lags
\* take them to the floor and 42 of one that keeps up to the target, and there they stay.
RateSettles(rate, n, target, behind) ==
    /\ \A i \in 0..n : rate[i] \in FloorKbps(target)..target
    /\ (\A i \in 1..n : behind[i] > 3) => \A i \in Stretch..n : rate[i] = FloorKbps(target)
    /\ (\A i \in 1..n : behind[i] <= 1) => \A i \in (Stretch + Stretch)..n : rate[i] = target

\* However long the session, for any target of at least 1000 kbps.
THEOREM EveryBitrateSettles ==
  ASSUME NEW target \in Nat, Enough(target), NEW n \in Nat, NEW behind \in [1..n -> Nat],
         NEW rate, IsRate(rate, n, target, behind)
  PROVE  RateSettles(rate, n, target, behind)
<1> DEFINE f == FloorKbps(target)
           TooLate == \A i \in 1..n : behind[i] > 3
           KeepsUp == \A i \in 1..n : behind[i] <= 1
<1>0. Stretch \in Nat  BY DEF Stretch
<1>1. f \in Nat /\ Enough(f) /\ f <= target /\ target <= 4 * f + 3
  BY DEF FloorKbps, Most, Enough
<1>2. \A i \in 0..n : rate[i] \in f..target  BY RateInBounds
<1>3. ASSUME TooLate, NEW i \in Stretch..n PROVE rate[i] = f
  <2> DEFINE g == Cut(f)
  <2> HIDE DEF f
  <2>1. g \in Nat /\ target - Stretch * g <= f  BY <1>1, Thirds, Zenon
  <2>2. \A j \in 0..n : rate[j] <= Most(target - j * g, f)
    <3>1. g \in Nat  BY <2>1
    <3> QED BY <1>1, <1>3, <3>1, Falls, Zenon DEF f
  <2> HIDE DEF g, TooLate
  <2>3. i \in 0..n /\ i \in Nat /\ i >= Stretch  BY <1>0
  <2>4. rate[i] \in f..target  BY <1>2, <2>3
  <2>5. rate[i] <= Most(target - i * g, f)  BY <2>2, <2>3, Zenon
  <2>6. i * g \in Nat /\ i * g >= Stretch * g  BY <1>0, <2>1, <2>3, Product, Zenon
  <2>7. target - i * g <= f  BY <1>0, <1>1, <2>1, <2>6
  <2>8. Most(target - i * g, f) = f  BY <1>1, <2>6, <2>7 DEF Most
  <2> QED BY <1>1, <2>4, <2>5, <2>8
<1>4. ASSUME KeepsUp, NEW i \in (Stretch + Stretch)..n PROVE rate[i] = target
  <2> DEFINE g == Gain(f)
             e == 2 * f
             m == Gain(e)
  <2> HIDE DEF f
  <2>1. g \in Nat /\ e + 3 <= f + Stretch * g  BY <1>1, Doubles
  <2>2. e \in Nat /\ Enough(e)  BY <1>1 DEF Enough
  <2> HIDE DEF e
  <2>3. m \in Nat /\ 2 * e + 3 <= e + Stretch * m  BY <2>2, Doubles, Zenon
  <2> HIDE DEF g, m
  <2>4. /\ 0 \in 0..n /\ Stretch \in 0..n /\ Stretch \in 0..(n - 0) /\ 0 + Stretch = Stretch
        /\ i \in 0..n /\ i - Stretch \in 0..(n - Stretch) /\ Stretch + (i - Stretch) = i
        /\ i - Stretch \in Nat /\ i - Stretch >= Stretch /\ i \in Nat
    BY <1>0
  <2>5. rate[0] >= Least(f, target)  BY <1>1, <1>2, <2>4 DEF Least
  <2>6. \A j \in 0..(n - 0) : rate[0 + j] >= Least(f + j * g, target)
    BY <1>1, <1>4, <2>1, <2>4, <2>5, Climbs, Zenon DEF g
  <2> HIDE DEF KeepsUp
  <2>7. rate[Stretch] >= Least(f + Stretch * g, target)  BY <2>4, <2>6, Zenon
  <2>8. rate[Stretch] >= Least(e, target)
    <3>1. rate[Stretch] \in f..target  BY <1>2, <2>4
    <3> QED BY <1>0, <1>1, <2>1, <2>2, <2>7, <3>1 DEF Least
  <2>9. \A j \in 0..(n - Stretch) : rate[Stretch + j] >= Least(e + j * m, target)
    BY <1>4, <2>2, <2>3, <2>4, <2>8, Climbs, Zenon DEF m, KeepsUp
  <2>10. rate[i] >= Least(e + (i - Stretch) * m, target)  BY <2>4, <2>9, Zenon
  <2>11. (i - Stretch) * m \in Nat /\ (i - Stretch) * m >= Stretch * m  BY <1>0, <2>3, <2>4, Product, Zenon
  <2>12. 2 * e = 4 * f  BY <1>1 DEF e
  <2>13. target <= 2 * e + 3  BY <1>1, <2>12
  <2>14. rate[i] \in f..target  BY <1>2, <2>4
  <2>15. e + (i - Stretch) * m >= target /\ e + (i - Stretch) * m \in Nat
    BY <1>0, <2>2, <2>3, <2>11, <2>13
  <2> QED BY <2>10, <2>14, <2>15 DEF Least
<1> QED BY <1>2, <1>3, <1>4, Zenon DEF RateSettles, f, TooLate, KeepsUp

\* A client that is equally far behind in every report, which the runs try.
LEMMA SettledIsRate ==
  ASSUME NEW target \in Nat, Enough(target), NEW start \in FloorKbps(target)..target, NEW behind \in {1, 4}
  PROVE  /\ IsRate(Settled(target, start, behind), Stretch, target, [i \in 1..Stretch |-> behind])
         /\ Settled(target, start, behind)[0] = start
<1> DEFINE X == Nat
           next == [i \in Nat |-> [c \in X |-> AdaptAfterReport(c, target, 10, 10 - behind)]]
           rate == Settled(target, start, behind)
<1>1. start \in X  BY DEF FloorKbps, Most, Enough
<1>2. next \in [Nat -> [X -> X]]
  BY DEF AdaptAfterReport, AdaptBitrate, Most, Least, FloorKbps
<1>3. \A i \in Nat, c \in X : next[i][c] = AdaptAfterReport(c, target, 10, 10 - behind)  OBVIOUS
<1> HIDE DEF next, X
<1>4. Stretch \in Nat /\ Stretch > 0  BY DEF Stretch
<1>5. PICK f \in [0..Stretch -> X] : IsRun(f, Stretch, start, next)  BY <1>1, <1>2, <1>4, RunsExist
<1>6. ASSUME NEW i \in 0..Stretch, i # 0
      PROVE  next[i][f[i - 1]] = AdaptAfterReport(f[i - 1], target, 10, 10 - behind)
  <2>1. i \in Nat /\ i - 1 \in 0..Stretch  BY <1>4, <1>6
  <2>2. f[i - 1] \in X  BY <2>1
  <2> QED BY <1>3, <2>1, <2>2, Zenon
<1>7. f = [i \in 0..Stretch |-> IF i = 0 THEN start ELSE AdaptAfterReport(f[i - 1], target, 10, 10 - behind)]
  BY <1>5, <1>6 DEF IsRun
<1>8. rate = [i \in 0..Stretch |-> IF i = 0 THEN start ELSE AdaptAfterReport(rate[i - 1], target, 10, 10 - behind)]
  BY <1>7, Zenon DEF Settled
<1> HIDE DEF rate
<1>9. rate[0] = start
  <2>1. 0 \in 0..Stretch  BY <1>4
  <2> QED BY <1>8, <2>1
<1>10. ASSUME NEW i \in 1..Stretch
       PROVE  rate[i] = AdaptBitrate(rate[i - 1], target, [k \in 1..Stretch |-> behind][i])
  <2>1. i \in 0..Stretch /\ i # 0  BY <1>4
  <2>2. rate[i] = AdaptAfterReport(rate[i - 1], target, 10, 10 - behind)  BY <1>8, <2>1
  <2>3. (IF 10 > 10 - behind THEN 10 - (10 - behind) ELSE 0) = behind  OBVIOUS
  <2> QED BY <2>2, <2>3 DEF AdaptAfterReport
<1> QED BY <1>9, <1>10 DEF rate, IsRate

\* In particular for the targets that the runs try, from wherever the client has fallen to.
LEMMA RatesSettle == EveryRateSettles
<1> SUFFICES ASSUME NEW target \in Targets
    PROVE  /\ FallsToTheFloor(target)
           /\ \A drop \in {0, 1, 7, Stretch} : RisesToTheTarget(target, Settled(target, target, 4)[drop])
  BY DEF EveryRateSettles
<1> DEFINE Bounds == FloorKbps(target)..target
           falling == Settled(target, target, 4)
           Twice == Stretch + Stretch
<1>0. Stretch \in Stretch..Stretch /\ Twice \in Twice..Twice /\ Stretch \in Nat /\ Stretch > 0
  BY DEF Stretch
<1>1. target \in Nat /\ Enough(target)  BY DEF Targets, Enough
<1>2. target \in Bounds  BY <1>1 DEF FloorKbps, Most, Enough
<1>3. ASSUME NEW start \in Bounds, NEW late \in {1, 4}
      PROVE  /\ IsRate(Settled(target, start, late), Stretch, target, [i \in 1..Stretch |-> late])
             /\ Settled(target, start, late)[0] = start
             /\ \A i \in 0..Stretch : Settled(target, start, late)[i] \in Bounds
  <2>1. /\ IsRate(Settled(target, start, late), Stretch, target, [i \in 1..Stretch |-> late])
        /\ Settled(target, start, late)[0] = start
    BY <1>1, SettledIsRate
  <2>2. [i \in 1..Stretch |-> late] \in [1..Stretch -> Nat] /\ Stretch \in Nat  BY <1>0
  <2>3. RateSettles(Settled(target, start, late), Stretch, target, [i \in 1..Stretch |-> late])
    BY <1>1, <2>1, <2>2, EveryBitrateSettles, Zenon
  <2> QED BY <2>1, <2>3, Zenon DEF RateSettles
<1>4. falling[Stretch] = FloorKbps(target)
  <2> DEFINE late == [i \in 1..Stretch |-> 4]
  <2>1. IsRate(falling, Stretch, target, late)  BY <1>2, <1>3
  <2>2. late \in [1..Stretch -> Nat] /\ (\A i \in 1..Stretch : late[i] > 3) /\ Stretch \in Stretch..Stretch /\ Stretch \in Nat  BY <1>0
  <2> HIDE DEF late, falling
  <2>3. RateSettles(falling, Stretch, target, late)  BY <1>1, <2>1, <2>2, EveryBitrateSettles, Zenon
  <2> QED BY <2>2, <2>3 DEF RateSettles
<1>5. \A drop \in {0, 1, 7, Stretch} : falling[drop] \in Bounds
  <2>1. \A drop \in {0, 1, 7, Stretch} : drop \in 0..Stretch  BY DEF Stretch
  <2> HIDE DEF Bounds
  <2> QED BY <1>2, <1>3, <2>1
<1> HIDE DEF falling, Bounds
<1>6. ASSUME NEW start \in Bounds
      PROVE  RisesToTheTarget(target, start)
  <2> DEFINE rising == Settled(target, start, 1)
             risen == Settled(target, rising[Stretch], 1)
             rate == [i \in 0..Twice |-> IF i <= Stretch THEN rising[i] ELSE risen[i - Stretch]]
             late == [i \in 1..Twice |-> 1]
             once == [i \in 1..Stretch |-> 1]
  <2>1. IsRate(rising, Stretch, target, once) /\ \A i \in 0..Stretch : rising[i] \in Bounds  BY <1>3
  <2>2. Stretch \in 0..Stretch /\ 0 \in 0..Stretch  BY <1>0
  <2>3. rising[Stretch] \in Bounds  BY <2>1, <2>2
  <2> HIDE DEF rising
  <2>4. IsRate(risen, Stretch, target, once) /\ \A i \in 0..Stretch : risen[i] \in Bounds  BY <1>3, <2>3
  <2>5. risen[0] = rising[Stretch]  BY <1>3, <2>3
  <2> HIDE DEF risen
  <2>6. IsRate(rate, Twice, target, late)
    <3>1. \A i \in 1..Stretch : rising[i] = AdaptBitrate(rising[i - 1], target, 1)
                           /\ risen[i] = AdaptBitrate(risen[i - 1], target, 1)
      BY <2>1, <2>4 DEF IsRate
    <3>2. rate[0] \in Bounds  BY <2>1, <2>2
    <3>3. ASSUME NEW i \in 1..Twice PROVE rate[i] = AdaptBitrate(rate[i - 1], target, late[i])
      <4>1. late[i] = 1  OBVIOUS
      <4>2. CASE i <= Stretch
        <5>1. i \in 1..Stretch /\ i \in 0..Twice /\ i - 1 \in 0..Twice /\ i - 1 <= Stretch  BY <1>0, <4>2
        <5> HIDE DEF Twice, late, once
        <5>2. rate[i] = rising[i]  BY <4>2, <5>1
        <5>3. rate[i - 1] = rising[i - 1]  BY <5>1
        <5> HIDE DEF rate
        <5> QED BY <3>1, <4>1, <5>1, <5>2, <5>3
      <4>3. CASE i = Stretch + 1
        <5>1. /\ i \in 0..Twice /\ ~ (i <= Stretch) /\ i - Stretch = 1 /\ i - 1 = Stretch
              /\ Stretch \in 0..Twice /\ Stretch <= Stretch /\ 1 - 1 = 0 /\ 1 \in 1..Stretch
          BY <1>0, <4>3
        <5> HIDE DEF Twice, late, once
        <5>2. rate[i] = risen[1]  BY <5>1
        <5>3. rate[i - 1] = risen[1 - 1]  BY <2>5, <5>1
        <5> HIDE DEF rate
        <5> QED BY <3>1, <4>1, <5>1, <5>2, <5>3
      <4>4. CASE i > Stretch + 1
        <5>1. /\ i \in 0..Twice /\ ~ (i <= Stretch) /\ i - Stretch \in 1..Stretch
              /\ i - 1 \in 0..Twice /\ ~ (i - 1 <= Stretch) /\ (i - 1) - Stretch = (i - Stretch) - 1
          BY <1>0, <4>4
        <5> HIDE DEF Twice, late, once
        <5>2. rate[i] = risen[i - Stretch]  BY <5>1
        <5>3. rate[i - 1] = risen[(i - Stretch) - 1]  BY <5>1
        <5> HIDE DEF rate
        <5> QED BY <3>1, <4>1, <5>1, <5>2, <5>3
      <4> QED BY <1>0, <4>2, <4>3, <4>4
    <3> HIDE DEF rate, late
    <3> QED BY <3>2, <3>3 DEF IsRate, Bounds
  <2>7. late \in [1..Twice -> Nat] /\ (\A i \in 1..Twice : late[i] <= 1) /\ Twice \in Twice..Twice /\ Twice \in Nat  BY <1>0
  <2>8. rate[Twice] = risen[Stretch]
    <3>1. Twice \in 0..Twice /\ ~ (Twice <= Stretch) /\ Twice - Stretch = Stretch  BY <1>0
    <3> HIDE DEF Twice
    <3> QED BY <3>1
  <2> HIDE DEF rate, late
  <2>9. rate[Twice] = target
    <3>1. RateSettles(rate, Twice, target, late)  BY <1>1, <2>6, <2>7, EveryBitrateSettles, Zenon
    <3> QED BY <2>7, <3>1 DEF RateSettles
  <2>10. StaysWithin(rising, target) /\ StaysWithin(risen, target) /\ risen[Stretch] = target
    BY <2>1, <2>4, <2>8, <2>9, Zenon DEF StaysWithin, Bounds
  <2> QED BY <2>10 DEF RisesToTheTarget, rising, risen
<1> QED BY <1>4, <1>5, <1>6, Zenon DEF falling, FallsToTheFloor

\* Every client that streams and keeps up gets back to exactly the bitrate it asked for.
THEOREM BitratesSettle == Spec => []BitrateSettles
<1>1. BitrateSettles  BY RatesSettle DEF BitrateSettles
<1> QED BY <1>1, PTL

=============================================================================
