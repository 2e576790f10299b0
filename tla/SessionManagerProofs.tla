------------------------ MODULE SessionManagerProofs ------------------------
(***************************************************************************)
(* Proofs about SessionManager for every number of clients, users,         *)
(* concurrent requests, launches and sessions, every address map, every    *)
(* set of failures, and with requests overlapping or not.                  *)
(*                                                                         *)
(* None of the properties is inductive by itself.  That a slot's session   *)
(* belongs to its client needs to know where the origin of every session   *)
(* and of every handoff in flight came from, which needs the ownership of  *)
(* sessions, which needs the types.  IInv puts the parts together.         *)
(***************************************************************************)
EXTENDS SessionManager, TLAPS

\* Program points at which a task owns a session.
HoldPcs ==
  {"launch.replace", "launch.register", "launch.insert", "cancel.release", "play.fresh",
   "play.retake", "handoff.detach", "handoff.resume", "handoff.start", "logout.terminate"}

\* Program points at which a handoff carries the origin of the login stage it ended.
CarryPcs ==
  {"handoff.background", "handoff.active", "handoff.detach", "handoff.resume", "handoff.spawn"}

\* Program points at which a task works on the client cl.
ClientPcs ==
  {"launch.wait", "launch.replace", "launch.spawn", "launch.register", "launch.insert",
   "launch.fail", "login.watch", "handoff.take", "cancel.take"}

\* Program points of a /launch that has its rikey.
LaunchPcs ==
  {"launch.wait", "launch.replace", "launch.spawn", "launch.register", "launch.insert",
   "launch.fail", "launch.adopt"}

\* A slot holds a session exactly when it is Launched or Streaming.
SlotShape == \A c \in Clients : ses[c] = 0 <=> st[c] \in {"Idle", "Spawning"}

\* A generation not yet handed out is used nowhere.
Unborn ==
  \A g \in Gens : g >= nextGen =>
    kind[g] = "none" /\ fate[g] = "none" /\ pending[g] = "none"

\* Every owned session is alive: nothing that was torn down is still reachable.
OwnedIsLive ==
  /\ \A c \in Clients : ses[c] # 0 => fate[ses[c]] = "live"
  /\ \A u \in Users : background[u] # 0 => fate[background[u]] = "live"
  /\ \A x \in Tasks : held[x] # 0 => fate[held[x]] = "live"

\* The origin of a live session was made by a /launch of some client; a desktop's user is
\* who was authenticated on that launch's login screen.
Lineage ==
  \A g \in Gens : fate[g] = "live" =>
    /\ origin[g] \in Gens
    /\ kind[origin[g]] = "login"
    /\ client[origin[g]] \in Clients
    /\ \/ kind[g] = "login" /\ origin[g] = g
       \/ kind[g] \in Users /\ authed[origin[g]] = kind[g]

\* What an accepted login left for the handoff is what was authenticated.
Reported ==
  \A g \in Gens : fate[g] = "live" /\ pending[g] # "none" =>
    kind[g] = "login" /\ pending[g] = authed[g]

\* No origin has two bearers.
OneBearer ==
  /\ \A g, h \in Gens : fate[g] = "live" /\ fate[h] = "live" /\ origin[g] = origin[h] => g = h
  /\ \A g \in Gens, x \in Tasks : fate[g] = "live" /\ pc[x] \in CarryPcs => origin[g] # ref[x]
  /\ \A x, y \in Tasks : pc[x] \in CarryPcs /\ pc[y] \in CarryPcs /\ ref[x] = ref[y] => x = y

\* An attached session's origin was made by a launch of the slot's client.
SlotIsTheClients == \A c \in Clients : ses[c] # 0 => client[origin[ses[c]]] = c

\* What a task in the middle of an operation has in its hands.
HandsOf(x) ==
  /\ pc[x] \in HoldPcs => held[x] # 0
  /\ pc[x] \in ClientPcs => cl[x] \in Clients
  /\ pc[x] \in LaunchPcs => rk[x] \in Keys
  /\ pc[x] \in {"launch.register", "launch.insert"} => client[origin[held[x]]] = cl[x]
  /\ pc[x] \in CarryPcs =>
       /\ ref[x] \in Gens /\ fate[ref[x]] # "live"
       /\ kind[ref[x]] = "login" /\ client[ref[x]] \in Clients
       /\ us[x] \in Users /\ authed[ref[x]] = us[x]
  /\ pc[x] \in {"handoff.detach", "handoff.resume"} => kind[held[x]] = us[x]
  /\ pc[x] = "logout.active" => us[x] \in Users
  /\ pc[x] \in UserWatchPcs => x \in Gens /\ kind[x] \in Users

Hands == \A x \in Tasks : HandsOf(x)

Owned == SlotShape /\ OwnedIsLive /\ OneHome /\ BackgroundIsTheUsers /\ SlotIsTheClients
Descent == Unborn /\ Lineage /\ Reported /\ OneBearer

IInv == TypeOK /\ Owned /\ Descent /\ Hands

-----------------------------------------------------------------------------
USE DEF Gens, Tasks

\* The task-local variables of y are as they were.
Same(y) ==
  /\ pc'[y] = pc[y] /\ held'[y] = held[y] /\ cl'[y] = cl[y]
  /\ us'[y] = us[y] /\ ref'[y] = ref[y] /\ rk'[y] = rk[y]

LocalTypes ==
  /\ pc \in [Tasks -> Pcs]
  /\ held \in [Tasks -> 0..MaxGen]
  /\ cl \in [Tasks -> Clients \cup {"none"}]
  /\ us \in [Tasks -> Users \cup {"none"}]
  /\ ref \in [Tasks -> 0..MaxGen]
  /\ rk \in [Tasks -> 0..MaxLaunches]

\* A session number other than 0 is a generation.
LEMMA SomeSession == ASSUME NEW n \in 0..MaxGen, n # 0 PROVE n \in Gens
  BY ConstantsAssumption DEF ConstantsAssumption

\* A task that returns is idle when it is a request, stopped when it is a watcher.
LEMMA RestPcs == ASSUME NEW x \in Tasks PROVE Rest(x) \in {"idle", "stopped"}
  BY DEF Rest

\* A task that returns keeps nothing, and no other task changes.
LEMMA ReturnEffect ==
  ASSUME TypeOK, NEW x \in Tasks, Return(x)
  PROVE  /\ LocalTypes'
         /\ pc'[x] \in {"idle", "stopped"} /\ held'[x] = 0
         /\ \A y \in Tasks : y # x => Same(y)
<1>1. Rest(x) \in Pcs  BY RestPcs DEF Pcs, RequestPcs, WatcherPcs
<1>2. 0 \in 0..MaxGen /\ 0 \in 0..MaxLaunches  BY ConstantsAssumption DEF ConstantsAssumption
<1>3. pc' \in [Tasks -> Pcs]  BY <1>1 DEF TypeOK, Return, Goto
<1>4. held' \in [Tasks -> 0..MaxGen] /\ ref' \in [Tasks -> 0..MaxGen]
  BY <1>2 DEF TypeOK, Return
<1>5. rk' \in [Tasks -> 0..MaxLaunches]  BY <1>2 DEF TypeOK, Return
<1>6. cl' \in [Tasks -> Clients \cup {"none"}] /\ us' \in [Tasks -> Users \cup {"none"}]
  BY DEF TypeOK, Return
<1>7. pc'[x] \in {"idle", "stopped"} /\ held'[x] = 0
  BY RestPcs DEF TypeOK, Return, Goto
<1>8. \A y \in Tasks : y # x => Same(y)
  BY DEF TypeOK, Return, Goto, Same
<1> QED BY <1>3, <1>4, <1>5, <1>6, <1>7, <1>8 DEF LocalTypes

\* Removing sessions from where they are, and ending the one that is nowhere any more.
LEMMA FewerOwned ==
  ASSUME TypeOK, Owned, UNCHANGED <<kind, origin, client>>,
         \A c \in Clients : ses'[c] = ses[c] \/ ses'[c] = 0,
         \A u \in Users : background'[u] = background[u] \/ background'[u] = 0,
         \A x \in Tasks : held'[x] = held[x] \/ held'[x] = 0,
         \A c \in Clients : ses'[c] = 0 <=> st'[c] \in {"Idle", "Spawning"},
         \A g \in Gens : fate'[g] # fate[g] =>
           /\ \A c \in Clients : ses'[c] # g
           /\ \A u \in Users : background'[u] # g
           /\ \A x \in Tasks : held'[x] # g
  PROVE  Owned'
<1>1. \A c \in Clients : ses[c] \in 0..MaxGen  BY DEF TypeOK
<1>2. \A u \in Users : background[u] \in 0..MaxGen  BY DEF TypeOK
<1>3. \A x \in Tasks : held[x] \in 0..MaxGen  BY DEF TypeOK
<1>4. SlotShape'  BY DEF SlotShape
<1>5. OwnedIsLive'
  <2>1. \A c \in Clients : ses'[c] # 0 => fate'[ses'[c]] = "live"
    BY <1>1, SomeSession DEF Owned, OwnedIsLive
  <2>2. \A u \in Users : background'[u] # 0 => fate'[background'[u]] = "live"
    BY <1>2, SomeSession DEF Owned, OwnedIsLive
  <2>3. \A x \in Tasks : held'[x] # 0 => fate'[held'[x]] = "live"
    BY <1>3, SomeSession DEF Owned, OwnedIsLive
  <2> QED BY <2>1, <2>2, <2>3 DEF OwnedIsLive
<1>6. OneHome'  BY DEF Owned, OneHome
<1>7. BackgroundIsTheUsers'  BY <1>5 DEF Owned, BackgroundIsTheUsers, OwnedIsLive
<1>8. SlotIsTheClients'  BY DEF Owned, SlotIsTheClients
<1> QED BY <1>4, <1>5, <1>6, <1>7, <1>8 DEF Owned

\* take_active_session moves a session from a slot to a task.
LEMMA SlotToTask ==
  ASSUME TypeOK, Owned, UNCHANGED <<kind, origin, client, background, fate>>,
         NEW c \in Clients, NEW x \in Tasks,
         st'[c] \in {"Idle", "Spawning"}, ses'[c] = 0, held'[x] = ses[c],
         \A d \in Clients : d # c => st'[d] = st[d] /\ ses'[d] = ses[d],
         \A y \in Tasks : y # x => held'[y] = held[y]
  PROVE  Owned'
<1>1. SlotShape'  BY DEF Owned, SlotShape
<1>2. OwnedIsLive'  BY DEF Owned, OwnedIsLive
<1>3. OneHome'  BY DEF Owned, OneHome
<1>4. BackgroundIsTheUsers'  BY DEF Owned, BackgroundIsTheUsers
<1>5. SlotIsTheClients'  BY DEF Owned, SlotIsTheClients
<1> QED BY <1>1, <1>2, <1>3, <1>4, <1>5 DEF Owned

\* A task takes a user's entry out of background_sessions.
LEMMA BackgroundToTask ==
  ASSUME TypeOK, Owned, UNCHANGED <<kind, origin, client, slots, fate>>,
         NEW u \in Users, NEW x \in Tasks,
         background'[u] = 0, held'[x] = background[u],
         \A v \in Users : v # u => background'[v] = background[v],
         \A y \in Tasks : y # x => held'[y] = held[y]
  PROVE  Owned'
<1>1. SlotShape'  BY DEF Owned, SlotShape, slots
<1>2. OwnedIsLive'  BY DEF Owned, OwnedIsLive, slots
<1>3. OneHome'  BY DEF Owned, OneHome, slots
<1>4. BackgroundIsTheUsers'  BY DEF Owned, BackgroundIsTheUsers
<1>5. SlotIsTheClients'  BY DEF Owned, SlotIsTheClients, slots
<1> QED BY <1>1, <1>2, <1>3, <1>4, <1>5 DEF Owned

\* A task puts the session it owns into a slot; what was there is dropped.
LEMMA TaskToSlot ==
  ASSUME TypeOK, Owned, UNCHANGED <<kind, client, background>>,
         NEW c \in Clients, NEW x \in Tasks, held[x] # 0,
         st'[c] \in {"Launched", "Streaming"}, ses'[c] = held[x], held'[x] = 0,
         \A d \in Clients : d # c => st'[d] = st[d] /\ ses'[d] = ses[d],
         \A y \in Tasks : y # x => held'[y] = held[y],
         \A g \in Gens : g # ses[c] => fate'[g] = fate[g],
         \A g \in Gens : g # held[x] => origin'[g] = origin[g],
         client[origin'[held[x]]] = c
  PROVE  Owned'
<1>1. \A d \in Clients : ses[d] \in 0..MaxGen  BY DEF TypeOK
<1>2. \A u \in Users : background[u] \in 0..MaxGen  BY DEF TypeOK
<1>3. \A y \in Tasks : held[y] \in 0..MaxGen  BY DEF TypeOK
<1>4. SlotShape'  BY DEF Owned, SlotShape
<1>5. OneHome'  BY DEF Owned, OneHome
<1>6. OwnedIsLive'
  <2>1. \A d \in Clients : ses'[d] # 0 => fate'[ses'[d]] = "live"
    BY <1>1, <1>3, SomeSession DEF Owned, OwnedIsLive, OneHome
  <2>2. \A u \in Users : background'[u] # 0 => fate'[background'[u]] = "live"
    BY <1>2, SomeSession DEF Owned, OwnedIsLive, OneHome
  <2>3. \A y \in Tasks : held'[y] # 0 => fate'[held'[y]] = "live"
    BY <1>3, SomeSession DEF Owned, OwnedIsLive, OneHome
  <2> QED BY <2>1, <2>2, <2>3 DEF OwnedIsLive
<1>7. BackgroundIsTheUsers'  BY <1>6 DEF Owned, BackgroundIsTheUsers, OwnedIsLive
<1>8. SlotIsTheClients'
  BY <1>1, <1>3, SomeSession DEF Owned, SlotIsTheClients, OneHome
<1> QED BY <1>4, <1>5, <1>6, <1>7, <1>8 DEF Owned

\* background_or_discard: the session of task x is parked or torn down.
LEMMA TaskReleases ==
  ASSUME TypeOK, Owned, UNCHANGED <<kind, origin, client, slots>>,
         NEW x \in Tasks, held[x] # 0, Release(held[x]), held'[x] = 0,
         \A y \in Tasks : y # x => held'[y] = held[y]
  PROVE  Owned'
<1> DEFINE s == held[x]
<1>1. s \in Gens  BY SomeSession DEF TypeOK
<1>4. \A d \in Clients : ses[d] \in 0..MaxGen  BY DEF TypeOK
<1>5. \A v \in Users : background[v] \in 0..MaxGen  BY DEF TypeOK
<1>6. \A y \in Tasks : held[y] \in 0..MaxGen  BY DEF TypeOK
<1>2. CASE ~IsDesktop(s)
  <2>1. UNCHANGED background /\ \A g \in Gens : g # s => fate'[g] = fate[g]
    BY <1>2 DEF Release, Ended
  <2>2. /\ \A c \in Clients : ses'[c] # s
        /\ \A u \in Users : background'[u] # s
        /\ \A y \in Tasks : held'[y] # s
    BY <1>1, <2>1 DEF Owned, OneHome, slots
  <2>3. \A c \in Clients : ses'[c] = 0 <=> st'[c] \in {"Idle", "Spawning"}
    BY DEF Owned, SlotShape, slots
  <2> QED BY <2>1, <2>2, <2>3, FewerOwned DEF slots
<1>3. CASE IsDesktop(s)
  <2> DEFINE u == kind[s]
  <2>1. u \in Users  BY <1>3 DEF IsDesktop
  <2>2. /\ background'[u] = s
        /\ \A v \in Users : v # u => background'[v] = background[v]
        /\ \A g \in Gens : g # background[u] => fate'[g] = fate[g]
    BY <1>3, <2>1 DEF Release, Ended, TypeOK
  <2>3. SlotShape' /\ SlotIsTheClients'  BY DEF Owned, SlotShape, SlotIsTheClients, slots
  <2>4. OneHome'  BY <2>1, <2>2 DEF Owned, OneHome, slots
  <2>5. OwnedIsLive'
    <3>1. \A d \in Clients : ses'[d] # 0 => fate'[ses'[d]] = "live"
      BY <2>1, <2>2, <1>4, SomeSession DEF Owned, OwnedIsLive, OneHome, slots
    <3>2. \A v \in Users : background'[v] # 0 => fate'[background'[v]] = "live"
      <4> SUFFICES ASSUME NEW v \in Users, background'[v] # 0
                   PROVE  fate'[background'[v]] = "live"
        OBVIOUS
      <4>1. CASE v = u  BY <1>1, <2>1, <2>2, <4>1 DEF Owned, OwnedIsLive, OneHome
      <4>2. CASE v # u
        BY <2>1, <2>2, <1>5, <4>2, SomeSession DEF Owned, OwnedIsLive, OneHome
      <4> QED BY <4>1, <4>2
    <3>3. \A y \in Tasks : held'[y] # 0 => fate'[held'[y]] = "live"
      BY <2>1, <2>2, <1>6, SomeSession DEF Owned, OwnedIsLive, OneHome
    <3> QED BY <3>1, <3>2, <3>3 DEF OwnedIsLive
  <2>6. BackgroundIsTheUsers'  BY <2>1, <2>2, <2>5 DEF Owned, BackgroundIsTheUsers, OwnedIsLive
  <2> QED BY <2>3, <2>4, <2>5, <2>6 DEF Owned
<1> QED BY <1>2, <1>3

\* A new session in the hands of the task that made it.
LEMMA TaskMakes ==
  ASSUME TypeOK, Owned, Unborn, UNCHANGED <<slots, background>>,
         NEW x \in Tasks, NEW n \in Gens, n = nextGen,
         held'[x] = n \/ held'[x] = 0, held'[x] = n => fate'[n] = "live",
         \A y \in Tasks : y # x => held'[y] = held[y],
         \A g \in Gens : g # n =>
           /\ kind'[g] = kind[g] /\ origin'[g] = origin[g] /\ fate'[g] = fate[g],
         \A g \in Gens : fate[g] = "live" => client'[origin[g]] = client[origin[g]]
  PROVE  Owned'
<1>1. \A d \in Clients : ses[d] \in 0..MaxGen  BY DEF TypeOK
<1>2. \A v \in Users : background[v] \in 0..MaxGen  BY DEF TypeOK
<1>3. \A y \in Tasks : held[y] \in 0..MaxGen  BY DEF TypeOK
<1>4. fate[n] = "none"  BY DEF Unborn
<1>5. \A d \in Clients : ses[d] # n  BY <1>4 DEF Owned, OwnedIsLive
<1>6. \A v \in Users : background[v] # n  BY <1>4 DEF Owned, OwnedIsLive
<1>7. \A y \in Tasks : held[y] # n  BY <1>4 DEF Owned, OwnedIsLive
<1>8. SlotShape'  BY DEF Owned, SlotShape, slots
<1>9. OneHome'  BY <1>5, <1>6, <1>7 DEF Owned, OneHome, slots
<1>10. OwnedIsLive'
  <2>1. \A d \in Clients : ses'[d] # 0 => fate'[ses'[d]] = "live"
    BY <1>1, <1>5, SomeSession DEF Owned, OwnedIsLive, slots
  <2>2. \A v \in Users : background'[v] # 0 => fate'[background'[v]] = "live"
    BY <1>2, <1>6, SomeSession DEF Owned, OwnedIsLive
  <2>3. \A y \in Tasks : held'[y] # 0 => fate'[held'[y]] = "live"
    BY <1>3, <1>7, SomeSession DEF Owned, OwnedIsLive
  <2> QED BY <2>1, <2>2, <2>3 DEF OwnedIsLive
<1>11. BackgroundIsTheUsers'
  BY <1>2, <1>6, <1>10, SomeSession DEF Owned, BackgroundIsTheUsers, OwnedIsLive
<1>12. SlotIsTheClients'
  <2> SUFFICES ASSUME NEW c \in Clients, ses[c] # 0 PROVE client'[origin'[ses[c]]] = c
    BY DEF SlotIsTheClients, slots
  <2>1. ses[c] \in Gens /\ ses[c] # n /\ fate[ses[c]] = "live"
    BY <1>1, <1>5, SomeSession DEF Owned, OwnedIsLive
  <2> QED BY <2>1 DEF Owned, SlotIsTheClients
<1> QED BY <1>8, <1>9, <1>10, <1>11, <1>12 DEF Owned

\* Ending and moving sessions makes no new bearer of an origin.
LEMMA KeepsDescent ==
  ASSUME Descent, UNCHANGED <<kind, origin, client, authed, nextGen>>,
         \A g \in Gens : fate'[g] = "live" => fate[g] = "live",
         \A g \in Gens : fate[g] = "none" => fate'[g] = "none",
         \A g \in Gens : pending'[g] \in {pending[g], "none"},
         \A x \in Tasks : pc'[x] \in CarryPcs => pc[x] \in CarryPcs /\ ref'[x] = ref[x]
  PROVE  Descent'
<1>1. Unborn'  BY DEF Descent, Unborn
<1>2. Lineage'  BY DEF Descent, Lineage
<1>3. Reported'  BY DEF Descent, Reported
<1>4. OneBearer'  BY DEF Descent, OneBearer
<1> QED BY <1>1, <1>2, <1>3, <1>4 DEF Descent

\* A step of x that makes no session and changes none of the facts tasks rely on.
LEMMA KeepsHands ==
  ASSUME TypeOK, Hands, UNCHANGED <<kind, origin, client, authed>>, NEW x \in Tasks,
         \A g \in Gens : fate'[g] = "live" => fate[g] = "live",
         \A y \in Tasks : y # x => Same(y) \/ HandsOf(y)',
         HandsOf(x)'
  PROVE  Hands'
<1> SUFFICES ASSUME NEW y \in Tasks, Same(y) PROVE HandsOf(y)'
  BY DEF Hands
<1>1. HandsOf(y)  BY DEF Hands
<1> QED BY <1>1 DEF HandsOf, Same

\* A task at rest has nothing to answer for.
LEMMA AtRest ==
  ASSUME NEW x \in Tasks, pc'[x] \in {"idle", "stopped"} PROVE HandsOf(x)' /\ pc'[x] \notin CarryPcs
  BY DEF HandsOf, HoldPcs, ClientPcs, LaunchPcs, CarryPcs, UserWatchPcs

-----------------------------------------------------------------------------
(* What the helper operators do, pointwise *)

\* Moving on changes the program point of one task.
LEMMA GotoEffect ==
  ASSUME TypeOK, NEW x \in Tasks, NEW label \in Pcs, Goto(x, label)
  PROVE  /\ pc' \in [Tasks -> Pcs] /\ pc'[x] = label
         /\ \A y \in Tasks : y # x => pc'[y] = pc[y]
  BY DEF Goto, TypeOK

\* A task that only moves on leaves the other tasks as they are.
LEMMA GotoSame ==
  ASSUME TypeOK, NEW x \in Tasks, NEW label \in Pcs, Goto(x, label),
         UNCHANGED <<held, cl, us, ref, rk>>
  PROVE  /\ LocalTypes' /\ pc'[x] = label
         /\ \A y \in Tasks : y # x => Same(y)
<1>1. LocalTypes'  BY GotoEffect DEF LocalTypes, TypeOK
<1> QED BY <1>1, GotoEffect DEF Same

\* take_active_session empties one slot into the hands of one task.
LEMMA TakeSlotEffect ==
  ASSUME TypeOK, NEW c \in Clients, NEW x \in Tasks, TakeSlot(c, x)
  PROVE  /\ st' \in [Clients -> SlotStates] /\ ses' \in [Clients -> 0..MaxGen]
         /\ held' \in [Tasks -> 0..MaxGen]
         /\ st'[c] = "Idle" /\ ses'[c] = 0 /\ held'[x] = ses[c]
         /\ \A d \in Clients : d # c => st'[d] = st[d] /\ ses'[d] = ses[d]
         /\ \A y \in Tasks : y # x => held'[y] = held[y]
<1>1. 0 \in 0..MaxGen  BY ConstantsAssumption DEF ConstantsAssumption
<1>2. st' \in [Clients -> SlotStates]  BY DEF TakeSlot, TypeOK, SlotStates
<1>3. ses' \in [Clients -> 0..MaxGen]  BY <1>1 DEF TakeSlot, TypeOK
<1>4. held' \in [Tasks -> 0..MaxGen]  BY DEF TakeSlot, TypeOK
<1>5. st'[c] = "Idle" /\ ses'[c] = 0 /\ held'[x] = ses[c]  BY DEF TakeSlot, TypeOK
<1>6. \A d \in Clients : d # c => st'[d] = st[d] /\ ses'[d] = ses[d]  BY DEF TakeSlot, TypeOK
<1>7. \A y \in Tasks : y # x => held'[y] = held[y]  BY DEF TakeSlot, TypeOK
<1> QED BY <1>2, <1>3, <1>4, <1>5, <1>6, <1>7

\* Ending a session brings none back to life.
LEMMA EndedEffect ==
  ASSUME TypeOK, NEW g, NEW how \in Fates, how \notin {"live", "none"}, fate' = Ended(g, how)
  PROVE  /\ fate' \in [Gens -> Fates]
         /\ \A h \in Gens : h # g => fate'[h] = fate[h]
         /\ \A h \in Gens : fate'[h] = "live" => fate[h] = "live"
<1>1. fate' \in [Gens -> Fates]  BY DEF TypeOK, Ended
<1>2. \A h \in Gens : h # g => fate'[h] = fate[h]  BY DEF Ended
<1>3. \A h \in Gens : fate'[h] = "live" => fate[h] = "live"  BY DEF Ended
<1> QED BY <1>1, <1>2, <1>3

\* Ending an owned session touches no generation that was not handed out.
LEMMA EndsTheBorn ==
  ASSUME TypeOK, NEW g, NEW how \in Fates, how \notin {"live", "none"}, fate' = Ended(g, how),
         g # 0 => g \in Gens /\ fate[g] = "live"
  PROVE  \A h \in Gens : fate[h] = "none" => fate'[h] = "none"
  BY DEF Ended

\* clients.insert changes one slot and ends at most what was in it.
LEMMA PutSlotEffect ==
  ASSUME TypeOK, OwnedIsLive, NEW c \in Clients, NEW state \in SlotStates, NEW g \in 0..MaxGen,
         PutSlot(c, state, g)
  PROVE  /\ st' \in [Clients -> SlotStates] /\ ses' \in [Clients -> 0..MaxGen]
         /\ fate' \in [Gens -> Fates]
         /\ st'[c] = state /\ ses'[c] = g
         /\ \A d \in Clients : d # c => st'[d] = st[d] /\ ses'[d] = ses[d]
         /\ \A h \in Gens : h # ses[c] => fate'[h] = fate[h]
         /\ \A h \in Gens : fate'[h] = "live" => fate[h] = "live"
         /\ \A h \in Gens : fate[h] = "none" => fate'[h] = "none"
<1>1. st' \in [Clients -> SlotStates] /\ ses' \in [Clients -> 0..MaxGen]
  BY DEF PutSlot, TypeOK
<1>2. st'[c] = state /\ ses'[c] = g  BY DEF PutSlot, TypeOK
<1>3. \A d \in Clients : d # c => st'[d] = st[d] /\ ses'[d] = ses[d]  BY DEF PutSlot, TypeOK
<1>4. "dropped" \in Fates /\ "dropped" \notin {"live", "none"}  BY DEF Fates
<1>5. ses[c] \in 0..MaxGen  BY DEF TypeOK
<1>6. ses[c] # 0 => ses[c] \in Gens /\ fate[ses[c]] = "live"  BY <1>5, SomeSession DEF OwnedIsLive
<1>7. fate' = Ended(ses[c], "dropped")  BY DEF PutSlot
<1> QED BY <1>1, <1>2, <1>3, <1>4, <1>6, <1>7, EndedEffect, EndsTheBorn

\* background_or_discard brings no session back to life.
LEMMA ReleaseEffect ==
  ASSUME TypeOK, OwnedIsLive, NEW s \in Gens, fate[s] = "live", Release(s)
  PROVE  /\ registry' \subseteq Keys
         /\ background' \in [Users -> 0..MaxGen]
         /\ fate' \in [Gens -> Fates]
         /\ \A h \in Gens : fate'[h] = "live" => fate[h] = "live"
         /\ \A h \in Gens : fate[h] = "none" => fate'[h] = "none"
<1>1. registry' \subseteq Keys  BY DEF Release, TypeOK
<1>2. /\ "dropped" \in Fates /\ "dropped" \notin {"live", "none"}
      /\ "discarded" \in Fates /\ "discarded" \notin {"live", "none"}
  BY DEF Fates
<1>3. CASE IsDesktop(s)
  <2>1. kind[s] \in Users  BY <1>3 DEF IsDesktop
  <2>2. background' \in [Users -> 0..MaxGen]
    <3>1. background \in [Users -> 0..MaxGen]  BY DEF TypeOK
    <3>2. s \in 0..MaxGen  BY ConstantsAssumption DEF ConstantsAssumption
    <3>3. background' = [background EXCEPT ![kind[s]] = s]  BY <1>3 DEF Release
    <3> QED BY <3>1, <3>2, <3>3
  <2>3. background[kind[s]] \in 0..MaxGen  BY <2>1 DEF TypeOK
  <2>4. background[kind[s]] # 0 =>
          background[kind[s]] \in Gens /\ fate[background[kind[s]]] = "live"
    BY <2>1, <2>3, SomeSession DEF OwnedIsLive
  <2>5. fate' = Ended(background[kind[s]], "dropped")  BY <1>3 DEF Release
  <2> QED BY <1>1, <1>2, <2>2, <2>4, <2>5, EndedEffect, EndsTheBorn
<1>4. CASE ~IsDesktop(s)
  <2>1. background' = background /\ fate' = Ended(s, "discarded")  BY <1>4 DEF Release
  <2>2. background' \in [Users -> 0..MaxGen]  BY <2>1 DEF TypeOK
  <2> QED BY <1>1, <1>2, <2>1, <2>2, EndedEffect, EndsTheBorn
<1> QED BY <1>3, <1>4

\* UserOf gives a user or none.
LEMMA UserOfType == ASSUME NEW g PROVE UserOf(g) \in Users \cup {"none"}
  BY DEF UserOf, IsDesktop

\* Requests and exit watchers are tasks; no session is numbered 0.
LEMMA RequestsAndWatchers ==
  /\ \A t \in Requests : t \in Tasks /\ Rest(t) = "idle"
  /\ \A g \in Gens : g \in Tasks /\ g # 0
  BY ConstantsAssumption DEF ConstantsAssumption, Rest

-----------------------------------------------------------------------------
(* Steps that move no session *)

\* The parts of the invariant.
LEMMA Parts ==
  ASSUME IInv
  PROVE  /\ TypeOK /\ Owned /\ Descent /\ Hands
         /\ SlotShape /\ OwnedIsLive /\ OneHome /\ BackgroundIsTheUsers /\ SlotIsTheClients
         /\ Unborn /\ Lineage /\ Reported /\ OneBearer
  BY DEF IInv, Owned, Descent

\* A step of task x that changes its own variables, and the control registry at most.
LEMMA LocalStep ==
  ASSUME IInv, NEW x \in Tasks,
         UNCHANGED <<slots, background, pending, nextGen, kind, origin, proc, fate, client,
                     authed>>,
         registry' \subseteq Keys, key' \in [Gens -> 0..MaxLaunches],
         nextKey' \in 1..(MaxLaunches + 1), poisoned' \in BOOLEAN, LocalTypes',
         held'[x] \in {held[x], 0}, \A y \in Tasks : y # x => Same(y),
         pc'[x] \in CarryPcs => pc[x] \in CarryPcs /\ ref'[x] = ref[x],
         HandsOf(x)'
  PROVE  IInv'
<1>1. TypeOK'  BY Parts DEF TypeOK, LocalTypes, slots
<1>2. \A y \in Tasks : held'[y] = held[y] \/ held'[y] = 0  BY DEF Same
<1>3. Owned'
  <2>1. \A c \in Clients : ses'[c] = 0 <=> st'[c] \in {"Idle", "Spawning"}
    BY Parts DEF SlotShape, slots
  <2> QED BY <1>2, <2>1, Parts, FewerOwned DEF slots
<1>4. Descent'
  <2>1. \A y \in Tasks : pc'[y] \in CarryPcs => pc[y] \in CarryPcs /\ ref'[y] = ref[y]
    BY DEF Same
  <2> QED BY <2>1, Parts, KeepsDescent
<1>5. Hands'  BY Parts, KeepsHands
<1> QED BY <1>1, <1>3, <1>4, <1>5 DEF IInv

\* The same for a task that returns from an operation.
LEMMA ReturnStep ==
  ASSUME IInv, NEW x \in Tasks, Return(x),
         UNCHANGED <<slots, background, pending, nextGen, nextKey, kind, origin, proc, fate,
                     origins>>,
         registry' \subseteq Keys, poisoned' \in BOOLEAN
  PROVE  IInv'
<1>1. LocalTypes' /\ pc'[x] \in {"idle", "stopped"} /\ held'[x] = 0
      /\ \A y \in Tasks : y # x => Same(y)
  BY Parts, ReturnEffect
<1>2. key' \in [Gens -> 0..MaxLaunches] /\ nextKey' \in 1..(MaxLaunches + 1)
  BY Parts DEF TypeOK, origins
<1> QED BY <1>1, <1>2, AtRest, LocalStep DEF origins

\* The same for a task that only moves on to another program point.
LEMMA GotoStep ==
  ASSUME IInv, NEW x \in Tasks, NEW label \in Pcs, Goto(x, label),
         UNCHANGED <<slots, background, manager, kind, origin, proc, fate, client, authed,
                     held, cl, us, ref, rk>>,
         registry' \subseteq Keys, key' \in [Gens -> 0..MaxLaunches],
         label \in CarryPcs => pc[x] \in CarryPcs,
         pc'[x] = label => HandsOf(x)'
  PROVE  IInv'
<1>1. LocalTypes' /\ pc'[x] = label /\ \A y \in Tasks : y # x => Same(y)
  BY Parts, GotoSame
<1>2. nextKey' \in 1..(MaxLaunches + 1) /\ poisoned' \in BOOLEAN
  BY Parts DEF TypeOK, manager
<1> QED BY <1>1, <1>2, LocalStep DEF manager

\* launch gives up waiting for the spawn it raced.
LEMMA LaunchTimesOutKeeps ==
  ASSUME IInv, NEW t \in Requests, LaunchTimesOut(t) PROVE IInv'
<1>1. registry' \subseteq Keys /\ poisoned' \in BOOLEAN
  BY Parts DEF LaunchTimesOut, TypeOK, manager
<1> QED BY <1>1, ReturnStep DEF LaunchTimesOut, manager

\* launch registers the rikey of the session it adopted.
LEMMA LaunchAdoptKeeps ==
  ASSUME IInv, NEW t \in Requests, LaunchAdopt(t) PROVE IInv'
<1>1. rk[t] \in Keys  BY Parts DEF Hands, HandsOf, LaunchPcs, LaunchAdopt
<1>2. registry' \subseteq Keys /\ poisoned' \in BOOLEAN
  BY <1>1, Parts DEF LaunchAdopt, TypeOK, manager
<1> QED BY <1>2, ReturnStep DEF LaunchAdopt, manager

\* launch registers the rikey of its new login stage.
LEMMA LaunchRegisterKeeps ==
  ASSUME IInv, NEW t \in Requests, LaunchRegister(t) PROVE IInv'
<1>1. "launch.insert" \in Pcs /\ "launch.insert" \notin CarryPcs
  BY DEF Pcs, RequestPcs, CarryPcs
<1>2. HandsOf(t) /\ pc[t] = "launch.register"  BY Parts DEF Hands, LaunchRegister
<1>3. rk[t] \in Keys  BY <1>2 DEF HandsOf, LaunchPcs
<1>4. registry' \subseteq Keys /\ key' \in [Gens -> 0..MaxLaunches]
  BY <1>3, Parts DEF LaunchRegister, TypeOK, origins
<1>5. ASSUME pc'[t] = "launch.insert" PROVE HandsOf(t)'
  BY <1>2, <1>5
     DEF LaunchRegister, origins, HandsOf, HoldPcs, ClientPcs, LaunchPcs, CarryPcs, UserWatchPcs
<1> QED BY <1>1, <1>4, <1>5, GotoStep DEF LaunchRegister, origins

\* handoff_to_user forgets the rikey of the client that had the desktop.
LEMMA HandoffDetachesKeeps ==
  ASSUME IInv, NEW g \in Gens, HandoffDetaches(g) PROVE IInv'
<1>1. "handoff.resume" \in Pcs  BY DEF Pcs, WatcherPcs
<1>2. HandsOf(g) /\ pc[g] = "handoff.detach"  BY Parts DEF Hands, HandoffDetaches
<1>3. registry' \subseteq Keys /\ key' \in [Gens -> 0..MaxLaunches]
  BY Parts DEF HandoffDetaches, TypeOK, origins
<1>4. ASSUME pc'[g] = "handoff.resume" PROVE HandsOf(g)'
  BY <1>2, <1>4
     DEF HandoffDetaches, origins, HandsOf, HoldPcs, ClientPcs, LaunchPcs, CarryPcs, UserWatchPcs
<1>5. pc[g] \in CarryPcs  BY <1>2 DEF CarryPcs
<1> QED BY <1>1, <1>3, <1>4, <1>5, GotoStep DEF HandoffDetaches, origins

\* watch_user_session_exit looks for its session among the attached ones.
LEMMA UserTicksKeeps ==
  ASSUME IInv, NEW g \in Gens, UserTicks(g) PROVE IInv'
<1>1. HandsOf(g) /\ pc[g] = "user.tick"  BY Parts DEF Hands, UserTicks
<1>2. kind[g] \in Users  BY <1>1 DEF HandsOf, UserWatchPcs
<1>3. UNCHANGED <<slots, background, pending, nextGen, kind, origin, proc, fate, client, authed,
                  registry, key, nextKey, poisoned, held, rk>>
  BY DEF UserTicks, manager, origins
<1>4. PICK label \in {"user.ask", "user.background"} : Goto(g, label)
  BY DEF UserTicks
<1>5. label \in Pcs /\ label \notin CarryPcs /\ label \in UserWatchPcs
      /\ label \notin HoldPcs \cup ClientPcs \cup LaunchPcs
  BY DEF Pcs, WatcherPcs, CarryPcs, UserWatchPcs, HoldPcs, ClientPcs, LaunchPcs
<1>6. pc' \in [Tasks -> Pcs] /\ pc'[g] = label /\ \A y \in Tasks : y # g => pc'[y] = pc[y]
  BY <1>4, <1>5, Parts, GotoEffect
<1>7. /\ us' \in [Tasks -> Users \cup {"none"}]
      /\ \A y \in Tasks : y # g => us'[y] = us[y]
  BY <1>2, Parts DEF UserTicks, TypeOK
<1>8. /\ cl' \in [Tasks -> Clients \cup {"none"}] /\ ref' \in [Tasks -> 0..MaxGen]
      /\ \A y \in Tasks : y # g => cl'[y] = cl[y] /\ ref'[y] = ref[y]
  <2>1. \A c \in Clients : ses[c] \in 0..MaxGen  BY Parts DEF TypeOK
  <2>2. cl \in [Tasks -> Clients \cup {"none"}] /\ ref \in [Tasks -> 0..MaxGen]
    BY Parts DEF TypeOK
  <2>3. CASE UNCHANGED <<cl, ref>>  BY <2>2, <2>3
  <2>4. CASE \E c \in Clients : cl' = [cl EXCEPT ![g] = c] /\ ref' = [ref EXCEPT ![g] = ses[c]]
    BY <2>1, <2>2, <2>4
  <2> QED BY <2>3, <2>4 DEF UserTicks
<1>9. LocalTypes'  BY <1>3, <1>6, <1>7, <1>8, Parts DEF LocalTypes, TypeOK
<1>10. \A y \in Tasks : y # g => Same(y)  BY <1>3, <1>6, <1>7, <1>8 DEF Same
<1>11. HandsOf(g)'
  BY <1>2, <1>3, <1>5, <1>6 DEF HandsOf, CarryPcs, HoldPcs, ClientPcs, LaunchPcs, UserWatchPcs
<1>12. /\ registry' \subseteq Keys /\ key' \in [Gens -> 0..MaxLaunches]
       /\ nextKey' \in 1..(MaxLaunches + 1) /\ poisoned' \in BOOLEAN
  BY <1>3, Parts DEF TypeOK
<1> QED BY <1>3, <1>5, <1>6, <1>9, <1>10, <1>11, <1>12, LocalStep

\* watch_user_session_exit looks for its session among the parked ones.
LEMMA UserLooksInBackgroundKeeps ==
  ASSUME IInv, NEW g \in Gens, UserLooksInBackground(g) PROVE IInv'
<1>1. HandsOf(g) /\ pc[g] = "user.background"  BY Parts DEF Hands, UserLooksInBackground
<1>2. kind[g] \in Users  BY <1>1 DEF HandsOf, UserWatchPcs
<1>3. /\ registry' \subseteq Keys /\ key' \in [Gens -> 0..MaxLaunches]
      /\ nextKey' \in 1..(MaxLaunches + 1) /\ poisoned' \in BOOLEAN
  BY Parts DEF UserLooksInBackground, TypeOK, manager, origins
<1>4. CASE Return(g)
  BY <1>3, <1>4, ReturnStep DEF UserLooksInBackground, manager
<1>5. CASE /\ ref' = [ref EXCEPT ![g] = background[kind[g]]]
           /\ Goto(g, "user.ask") /\ UNCHANGED <<held, cl, us, rk>>
  <2>1. /\ "user.ask" \in Pcs /\ "user.ask" \in UserWatchPcs
        /\ "user.ask" \notin HoldPcs \cup ClientPcs \cup LaunchPcs \cup CarryPcs
    BY DEF Pcs, WatcherPcs, CarryPcs, UserWatchPcs, HoldPcs, ClientPcs, LaunchPcs
  <2>2. /\ pc' \in [Tasks -> Pcs] /\ pc'[g] = "user.ask"
        /\ \A y \in Tasks : y # g => pc'[y] = pc[y]
    BY <1>5, <2>1, Parts, GotoEffect
  <2>3. background[kind[g]] \in 0..MaxGen /\ ref \in [Tasks -> 0..MaxGen]
    BY <1>2, Parts DEF TypeOK
  <2>4. /\ ref' \in [Tasks -> 0..MaxGen] /\ \A y \in Tasks : y # g => ref'[y] = ref[y]
    BY <1>5, <2>3
  <2>5. LocalTypes'  BY <1>5, <2>2, <2>4, Parts DEF LocalTypes, TypeOK
  <2>6. \A y \in Tasks : y # g => Same(y)  BY <1>5, <2>2, <2>4 DEF Same
  <2>7. HandsOf(g)'
    BY <1>2, <2>1, <2>2 DEF UserLooksInBackground, HandsOf
  <2> QED BY <1>3, <1>5, <2>1, <2>2, <2>5, <2>6, <2>7, LocalStep
          DEF UserLooksInBackground, manager, origins
<1> QED BY <1>4, <1>5 DEF UserLooksInBackground

\* watch_user_session_exit gets the answer of the broker.
LEMMA UserAsksKeeps ==
  ASSUME IInv, NEW g \in Gens, UserAsks(g) PROVE IInv'
<1>1. HandsOf(g) /\ pc[g] = "user.ask"  BY Parts DEF Hands, UserAsks
<1>2. kind[g] \in Users  BY <1>1 DEF HandsOf, UserWatchPcs
<1>3. /\ registry' \subseteq Keys /\ key' \in [Gens -> 0..MaxLaunches]
      /\ nextKey' \in 1..(MaxLaunches + 1) /\ poisoned' \in BOOLEAN
  BY Parts DEF UserAsks, TypeOK, manager, origins
<1>4. PICK label \in {"user.reap", "user.tick"} : Goto(g, label)
  BY DEF UserAsks
<1>5. /\ label \in Pcs /\ label \in UserWatchPcs
      /\ label \notin HoldPcs \cup ClientPcs \cup LaunchPcs \cup CarryPcs
      /\ label # "logout.active" /\ label \notin {"launch.register", "launch.insert"}
      /\ label \notin {"handoff.detach", "handoff.resume"}
  BY DEF Pcs, WatcherPcs, CarryPcs, UserWatchPcs, HoldPcs, ClientPcs, LaunchPcs
<1>6. pc' \in [Tasks -> Pcs] /\ pc'[g] = label /\ \A y \in Tasks : y # g => pc'[y] = pc[y]
  BY <1>4, <1>5, Parts, GotoEffect
<1>7. /\ cl' \in [Tasks -> Clients \cup {"none"}] /\ us' \in [Tasks -> Users \cup {"none"}]
      /\ ref' \in [Tasks -> 0..MaxGen]
      /\ \A y \in Tasks : y # g => cl'[y] = cl[y] /\ us'[y] = us[y] /\ ref'[y] = ref[y]
  <2>1. /\ cl \in [Tasks -> Clients \cup {"none"}] /\ us \in [Tasks -> Users \cup {"none"}]
        /\ ref \in [Tasks -> 0..MaxGen] /\ 0 \in 0..MaxGen
    BY Parts, ConstantsAssumption DEF TypeOK, ConstantsAssumption
  <2>2. CASE UNCHANGED <<cl, us, ref>>  BY <2>1, <2>2
  <2>3. CASE /\ cl' = [cl EXCEPT ![g] = "none"] /\ us' = [us EXCEPT ![g] = "none"]
             /\ ref' = [ref EXCEPT ![g] = 0]
    BY <2>1, <2>3
  <2> QED BY <2>2, <2>3 DEF UserAsks
<1>8. UNCHANGED <<held, rk, kind>>  BY DEF UserAsks
<1>9. LocalTypes'  BY <1>6, <1>7, <1>8, Parts DEF LocalTypes, TypeOK
<1>10. \A y \in Tasks : y # g => Same(y)  BY <1>6, <1>7, <1>8 DEF Same
<1>11. HandsOf(g)'  BY <1>2, <1>5, <1>6, <1>8 DEF HandsOf
<1> QED BY <1>3, <1>5, <1>6, <1>8, <1>9, <1>10, <1>11, LocalStep
        DEF UserAsks, manager, origins

\* The process of a session exits on its own.
LEMMA ProcessDiesKeeps ==
  ASSUME IInv, NEW g \in Gens, ProcessDies(g) PROVE IInv'
<1>1. UNCHANGED <<slots, background, registry, manager, kind, origin, fate, origins, locals>>
  BY DEF ProcessDies
<1>2. proc' \in [Gens -> ProcStates] /\ \A h \in Gens : proc'[h] = "ok" => proc[h] = "ok"
  <2>1. proc \in [Gens -> ProcStates]  BY Parts DEF TypeOK
  <2>2. proc' = [proc EXCEPT ![g] = IF kind[g] = "login" THEN "failed" ELSE "dead"]
    BY DEF ProcessDies
  <2> QED BY <2>1, <2>2 DEF ProcStates
<1>3. TypeOK'  BY <1>1, <1>2, Parts DEF TypeOK, slots, manager, origins, locals
<1>4. \A y \in Tasks : Same(y)  BY <1>1 DEF Same, locals
<1>5. Owned'
  <2>1. \A c \in Clients : ses'[c] = 0 <=> st'[c] \in {"Idle", "Spawning"}
    BY <1>1, Parts DEF SlotShape, slots
  <2> QED BY <1>1, <2>1, Parts, FewerOwned DEF slots, origins, locals
<1>6. Descent'  BY <1>1, <1>2, Parts, KeepsDescent DEF manager, origins, locals
<1>7. Hands'
  <2>1. HandsOf(g)'  BY <1>1, <1>4, Parts DEF Hands, HandsOf, Same, origins
  <2> QED BY <1>1, <1>4, <2>1, Parts, KeepsHands DEF origins
<1> QED BY <1>3, <1>5, <1>6, <1>7 DEF IInv

-----------------------------------------------------------------------------
(* launch *)

\* A launch owns c's slot, and what was in it.
LEMMA ClaimSlotKeeps ==
  ASSUME IInv, NEW t \in Requests, NEW c \in Clients, ClaimSlot(t, c),
         UNCHANGED <<background, pending, nextGen, kind, origin, proc, fate, client, authed, ref>>,
         registry' \subseteq Keys, key' \in [Gens -> 0..MaxLaunches],
         nextKey' \in 1..(MaxLaunches + 1), poisoned' \in BOOLEAN,
         cl' \in [Tasks -> Clients \cup {"none"}], cl'[t] = c,
         rk' \in [Tasks -> 0..MaxLaunches], rk'[t] \in Keys,
         \A y \in Tasks : y # t => cl'[y] = cl[y] /\ rk'[y] = rk[y]
  PROVE  IInv'
<1>1. PICK label \in {"launch.spawn", "launch.replace"} :
        Goto(t, label) /\ (label = "launch.replace" => ses[c] # 0)
  BY DEF ClaimSlot
<1>2. /\ label \in Pcs /\ label \in ClientPcs /\ label \in LaunchPcs
      /\ label \notin CarryPcs \cup UserWatchPcs
      /\ label \in HoldPcs => label = "launch.replace"
  BY DEF Pcs, RequestPcs, CarryPcs, UserWatchPcs, HoldPcs, ClientPcs, LaunchPcs
<1>3. pc' \in [Tasks -> Pcs] /\ pc'[t] = label /\ \A y \in Tasks : y # t => pc'[y] = pc[y]
  BY <1>1, <1>2, Parts, GotoEffect
<1>4. /\ st' \in [Clients -> SlotStates] /\ st'[c] = "Spawning"
      /\ ses' \in [Clients -> 0..MaxGen] /\ ses'[c] = 0
      /\ \A d \in Clients : d # c => st'[d] = st[d] /\ ses'[d] = ses[d]
  <2>1. /\ st \in [Clients -> SlotStates] /\ ses \in [Clients -> 0..MaxGen]
        /\ 0 \in 0..MaxGen /\ "Spawning" \in SlotStates
    BY Parts, ConstantsAssumption DEF TypeOK, ConstantsAssumption, SlotStates
  <2> QED BY <2>1 DEF ClaimSlot
<1>5. /\ held' \in [Tasks -> 0..MaxGen] /\ held'[t] = ses[c]
      /\ us' \in [Tasks -> Users \cup {"none"}]
      /\ \A y \in Tasks : y # t => held'[y] = held[y] /\ us'[y] = us[y]
  <2>1. /\ held \in [Tasks -> 0..MaxGen] /\ us \in [Tasks -> Users \cup {"none"}]
        /\ ses[c] \in 0..MaxGen /\ UserOf(ses[c]) \in Users \cup {"none"}
    BY Parts, UserOfType DEF TypeOK
  <2> QED BY <2>1 DEF ClaimSlot
<1>6. \A y \in Tasks : y # t => Same(y)  BY <1>3, <1>5 DEF Same
<1>7. TypeOK'  BY <1>3, <1>4, <1>5, Parts DEF TypeOK
<1>8. Owned'  BY <1>4, <1>5, Parts, SlotToTask
<1>9. Descent'
  <2>1. \A y \in Tasks : pc'[y] \in CarryPcs => pc[y] \in CarryPcs /\ ref'[y] = ref[y]
    BY <1>2, <1>3
  <2> QED BY <2>1, Parts, KeepsDescent
<1>10. Hands'
  <2>1. HandsOf(t)'  BY <1>1, <1>2, <1>3, <1>5 DEF HandsOf
  <2> QED BY <1>6, <2>1, Parts, KeepsHands
<1> QED BY <1>7, <1>8, <1>9, <1>10 DEF IInv

\* launch claims the slot or finds it being spawned into.
LEMMA LaunchArrivesKeeps ==
  ASSUME IInv, NEW t \in Requests, NEW c \in Clients, LaunchArrives(t, c) PROVE IInv'
<1>1. nextKey \in Keys  BY DEF LaunchArrives
<1>2. nextKey' \in 1..(MaxLaunches + 1) /\ nextKey \in 0..MaxLaunches
  BY <1>1, ConstantsAssumption DEF LaunchArrives, Keys, ConstantsAssumption
<1>3. /\ cl' \in [Tasks -> Clients \cup {"none"}] /\ cl'[t] = c
      /\ \A y \in Tasks : y # t => cl'[y] = cl[y]
  <2>1. cl \in [Tasks -> Clients \cup {"none"}]  BY Parts DEF TypeOK
  <2>2. cl' = [cl EXCEPT ![t] = c]  BY DEF LaunchArrives
  <2> QED BY <2>1, <2>2
<1>4. /\ rk' \in [Tasks -> 0..MaxLaunches] /\ rk'[t] \in Keys
      /\ \A y \in Tasks : y # t => rk'[y] = rk[y]
  <2>1. rk \in [Tasks -> 0..MaxLaunches]  BY Parts DEF TypeOK
  <2>2. rk' = [rk EXCEPT ![t] = nextKey]  BY DEF LaunchArrives
  <2> QED BY <1>1, <1>2, <2>1, <2>2
<1>5. registry' \subseteq Keys /\ key' \in [Gens -> 0..MaxLaunches] /\ poisoned' \in BOOLEAN
  BY Parts DEF LaunchArrives, TypeOK, origins
<1>6. UNCHANGED <<background, pending, nextGen, kind, origin, proc, fate, client, authed, ref>>
  BY DEF LaunchArrives, origins
<1>7. CASE ClaimSlot(t, c)  BY <1>2, <1>3, <1>4, <1>5, <1>6, <1>7, ClaimSlotKeeps
<1>8. CASE Goto(t, "launch.wait") /\ UNCHANGED <<slots, held, us>>
  <2>1. /\ "launch.wait" \in Pcs /\ "launch.wait" \in ClientPcs
        /\ "launch.wait" \notin HoldPcs \cup CarryPcs \cup UserWatchPcs
    BY DEF Pcs, RequestPcs, CarryPcs, UserWatchPcs, HoldPcs, ClientPcs
  <2>2. /\ pc' \in [Tasks -> Pcs] /\ pc'[t] = "launch.wait"
        /\ \A y \in Tasks : y # t => pc'[y] = pc[y]
    BY <1>8, <2>1, Parts, GotoEffect
  <2>3. LocalTypes'  BY <1>3, <1>4, <1>6, <1>8, <2>2, Parts DEF LocalTypes, TypeOK
  <2>4. \A y \in Tasks : y # t => Same(y)  BY <1>3, <1>4, <1>6, <1>8, <2>2 DEF Same
  <2>5. HandsOf(t)'  BY <1>3, <1>4, <2>1, <2>2 DEF HandsOf
  <2> QED BY <1>2, <1>5, <1>6, <1>8, <2>1, <2>2, <2>3, <2>4, <2>5, LocalStep
<1> QED BY <1>7, <1>8 DEF LaunchArrives

\* launch continues after the spawn it raced.
LEMMA LaunchWakesKeeps ==
  ASSUME IInv, NEW t \in Requests, LaunchWakes(t) PROVE IInv'
<1> DEFINE c == cl[t]
<1>1. HandsOf(t) /\ pc[t] = "launch.wait"  BY Parts DEF Hands, LaunchWakes
<1>2. c \in Clients /\ rk[t] \in Keys  BY <1>1 DEF HandsOf, ClientPcs, LaunchPcs
<1>3. key' \in [Gens -> 0..MaxLaunches]
  <2>1. key \in [Gens -> 0..MaxLaunches] /\ rk[t] \in 0..MaxLaunches  BY Parts DEF TypeOK
  <2> QED BY <2>1 DEF LaunchWakes
<1>4. /\ registry' \subseteq Keys /\ nextKey' \in 1..(MaxLaunches + 1)
      /\ poisoned' \in BOOLEAN
  BY Parts DEF LaunchWakes, TypeOK, manager
<1>5. UNCHANGED <<background, manager, kind, origin, proc, fate, client, authed, cl, ref, rk>>
  BY DEF LaunchWakes
<1>6. CASE ClaimSlot(t, c)
  <2>1. cl' \in [Tasks -> Clients \cup {"none"}] /\ rk' \in [Tasks -> 0..MaxLaunches]
    BY <1>5, Parts DEF TypeOK
  <2> QED BY <1>2, <1>3, <1>4, <1>5, <1>6, <2>1, ClaimSlotKeeps DEF manager
<1>7. CASE Goto(t, "launch.adopt") /\ UNCHANGED <<slots, held, us>>
  <2>1. "launch.adopt" \in Pcs /\ "launch.adopt" \notin CarryPcs
    BY DEF Pcs, RequestPcs, CarryPcs
  <2>2. ASSUME pc'[t] = "launch.adopt" PROVE HandsOf(t)'
    BY <1>2, <1>5, <2>2 DEF HandsOf, HoldPcs, ClientPcs, LaunchPcs, CarryPcs, UserWatchPcs
  <2> QED BY <1>3, <1>4, <1>5, <1>7, <2>1, <2>2, GotoStep
<1> QED BY <1>6, <1>7 DEF LaunchWakes

\* launch parks or discards what was in the slot it claimed.
LEMMA LaunchReplaceKeeps ==
  ASSUME IInv, NEW t \in Requests, LaunchReplace(t) PROVE IInv'
<1>1. HandsOf(t) /\ pc[t] = "launch.replace"  BY Parts DEF Hands, LaunchReplace
<1>2. held[t] # 0 /\ cl[t] \in Clients /\ rk[t] \in Keys
  BY <1>1 DEF HandsOf, HoldPcs, ClientPcs, LaunchPcs
<1>3. held[t] \in Gens /\ fate[held[t]] = "live"
  BY <1>2, Parts, SomeSession DEF TypeOK, OwnedIsLive
<1>4. UNCHANGED <<slots, manager, kind, origin, proc, origins, cl, us, ref, rk>>
  BY DEF LaunchReplace
<1>5. /\ "launch.spawn" \in Pcs /\ "launch.spawn" \in ClientPcs /\ "launch.spawn" \in LaunchPcs
      /\ "launch.spawn" \notin HoldPcs \cup CarryPcs \cup UserWatchPcs
  BY DEF Pcs, RequestPcs, CarryPcs, UserWatchPcs, HoldPcs, ClientPcs, LaunchPcs
<1>6. /\ pc' \in [Tasks -> Pcs] /\ pc'[t] = "launch.spawn"
      /\ \A y \in Tasks : y # t => pc'[y] = pc[y]
  BY <1>5, Parts, GotoEffect DEF LaunchReplace
<1>7. /\ held' \in [Tasks -> 0..MaxGen] /\ held'[t] = 0
      /\ \A y \in Tasks : y # t => held'[y] = held[y]
  <2>1. held \in [Tasks -> 0..MaxGen] /\ 0 \in 0..MaxGen
    BY Parts, ConstantsAssumption DEF TypeOK, ConstantsAssumption
  <2> QED BY <2>1 DEF LaunchReplace
<1>8. Release(held[t])  BY DEF LaunchReplace
<1>9. /\ registry' \subseteq Keys /\ background' \in [Users -> 0..MaxGen]
      /\ fate' \in [Gens -> Fates]
      /\ \A h \in Gens : fate'[h] = "live" => fate[h] = "live"
      /\ \A h \in Gens : fate[h] = "none" => fate'[h] = "none"
  BY <1>3, <1>8, Parts, ReleaseEffect
<1>10. TypeOK'  BY <1>4, <1>6, <1>7, <1>9, Parts DEF TypeOK, slots, manager, origins
<1>11. Owned'  BY <1>2, <1>4, <1>7, <1>8, Parts, TaskReleases DEF origins
<1>12. \A y \in Tasks : y # t => Same(y)  BY <1>4, <1>6, <1>7 DEF Same
<1>13. Descent'
  <2>1. \A y \in Tasks : pc'[y] \in CarryPcs => pc[y] \in CarryPcs /\ ref'[y] = ref[y]
    BY <1>4, <1>5, <1>6
  <2> QED BY <1>4, <1>9, <2>1, Parts, KeepsDescent DEF manager, origins
<1>14. Hands'
  <2>1. HandsOf(t)'  BY <1>2, <1>4, <1>5, <1>6 DEF HandsOf
  <2> QED BY <1>4, <1>9, <1>12, <2>1, Parts, KeepsHands DEF origins
<1> QED BY <1>10, <1>11, <1>13, <1>14 DEF IInv

\* A session that did not exist changes nothing for a task that had no part in making it.
LEMMA NewSessionHands ==
  ASSUME TypeOK, OwnedIsLive, Unborn, Lineage, Hands, NEW y \in Tasks, Same(y),
         NEW n \in Gens, n = nextGen, UNCHANGED authed,
         \A g \in Gens : g # n => /\ kind'[g] = kind[g] /\ origin'[g] = origin[g]
                                  /\ fate'[g] = fate[g] /\ client'[g] = client[g]
  PROVE  HandsOf(y)'
<1>1. kind[n] = "none" /\ fate[n] = "none"  BY DEF Unborn
<1>2. \A g \in Gens : fate[g] = "live" => origin[g] \in Gens /\ origin[g] # n
  BY <1>1 DEF Lineage
<1>3. HandsOf(y)  BY DEF Hands
<1>4. ASSUME held[y] # 0
      PROVE  /\ kind'[held[y]] = kind[held[y]]
             /\ client'[origin'[held[y]]] = client[origin[held[y]]]
  <2>1. held[y] \in Gens /\ fate[held[y]] = "live"
    BY <1>4, SomeSession DEF TypeOK, OwnedIsLive
  <2>2. held[y] # n  BY <1>1, <2>1
  <2> QED BY <1>2, <2>1, <2>2
<1>5. pc[y] \in CarryPcs =>
        /\ kind'[ref[y]] = kind[ref[y]] /\ fate'[ref[y]] = fate[ref[y]]
        /\ client'[ref[y]] = client[ref[y]]
  <2>1. pc[y] \in CarryPcs => ref[y] \in Gens /\ ref[y] # n  BY <1>1, <1>3 DEF HandsOf
  <2> QED BY <2>1
<1>6. pc[y] \in UserWatchPcs => y \in Gens /\ y # n
  BY <1>1, <1>3, ConstantsAssumption DEF HandsOf, ConstantsAssumption
<1>7. {"launch.register", "launch.insert", "handoff.detach", "handoff.resume"} \subseteq HoldPcs
  BY DEF HoldPcs
<1> QED BY <1>3, <1>4, <1>5, <1>6, <1>7 DEF HandsOf, Same

\* A new login stage, with an origin of its own.
LEMMA LaunchSpawnKeeps ==
  ASSUME IInv, NEW t \in Requests, LaunchSpawn(t) PROVE IInv'
<1>1. HandsOf(t) /\ pc[t] = "launch.spawn"  BY Parts DEF Hands, LaunchSpawn
<1>2. cl[t] \in Clients /\ rk[t] \in Keys  BY <1>1 DEF HandsOf, ClientPcs, LaunchPcs
<1>3. UNCHANGED <<slots, background, pending, registry, nextKey, poisoned, authed, cl, us, ref, rk>>
  BY DEF LaunchSpawn
<1>4. CASE /\ Goto(t, "launch.fail")
           /\ UNCHANGED <<nextGen, kind, origin, proc, fate, held, client, key>>
  <2>1. "launch.fail" \in Pcs /\ "launch.fail" \notin CarryPcs
    BY DEF Pcs, RequestPcs, CarryPcs
  <2>2. ASSUME pc'[t] = "launch.fail" PROVE HandsOf(t)'
    BY <1>2, <1>3, <2>2 DEF HandsOf, HoldPcs, ClientPcs, LaunchPcs, CarryPcs, UserWatchPcs
  <2>3. registry' \subseteq Keys /\ key' \in [Gens -> 0..MaxLaunches]
    BY <1>3, <1>4, Parts DEF TypeOK
  <2> QED BY <1>3, <1>4, <2>1, <2>2, <2>3, GotoStep DEF manager
<1>5. CASE /\ NewSession(t, "login", nextGen)
           /\ client' = [client EXCEPT ![nextGen] = cl[t]]
           /\ key' = [key EXCEPT ![nextGen] = rk[t]]
           /\ Goto(t, "launch.register")
  <2> DEFINE n == nextGen
  <2>1. n \in Gens /\ n \in 0..MaxGen /\ n + 1 \in 1..(MaxGen + 1) /\ nextGen' = n + 1
    BY <1>5, ConstantsAssumption DEF NewSession, ConstantsAssumption
  <2>2. /\ kind' \in [Gens -> Users \cup {"none", "login"}] /\ kind'[n] = "login"
        /\ \A g \in Gens : g # n => kind'[g] = kind[g]
    BY <1>5, <2>1, Parts DEF NewSession, TypeOK
  <2>3. /\ origin' \in [Gens -> 0..MaxGen] /\ origin'[n] = n
        /\ \A g \in Gens : g # n => origin'[g] = origin[g]
    BY <1>5, <2>1, Parts DEF NewSession, TypeOK
  <2>4. /\ proc' \in [Gens -> ProcStates] /\ proc'[n] = "running"
        /\ \A g \in Gens : g # n => proc'[g] = proc[g]
    BY <1>5, <2>1, Parts DEF NewSession, TypeOK, ProcStates
  <2>5. /\ fate' \in [Gens -> Fates] /\ fate'[n] = "live"
        /\ \A g \in Gens : g # n => fate'[g] = fate[g]
    BY <1>5, <2>1, Parts DEF NewSession, TypeOK, Fates
  <2>6. /\ held' \in [Tasks -> 0..MaxGen] /\ held'[t] = n
        /\ \A y \in Tasks : y # t => held'[y] = held[y]
    BY <1>5, <2>1, Parts DEF NewSession, TypeOK
  <2>7. /\ client' \in [Gens -> Clients \cup {"none"}] /\ client'[n] = cl[t]
        /\ \A g \in Gens : g # n => client'[g] = client[g]
    BY <1>2, <1>5, <2>1, Parts DEF TypeOK
  <2>8. key' \in [Gens -> 0..MaxLaunches]
    <3>1. key \in [Gens -> 0..MaxLaunches] /\ rk[t] \in 0..MaxLaunches  BY Parts DEF TypeOK
    <3> QED BY <1>5, <3>1
  <2>9. /\ "launch.register" \in Pcs
        /\ "launch.register" \notin CarryPcs \cup UserWatchPcs
    BY DEF Pcs, RequestPcs, CarryPcs, UserWatchPcs
  <2>10. /\ pc' \in [Tasks -> Pcs] /\ pc'[t] = "launch.register"
         /\ \A y \in Tasks : y # t => pc'[y] = pc[y]
    BY <1>5, <2>9, Parts, GotoEffect
  <2>11. TypeOK'
    BY <1>3, <2>1, <2>2, <2>3, <2>4, <2>5, <2>6, <2>7, <2>8, <2>10, Parts DEF TypeOK, slots
  <2>12. kind[n] = "none" /\ fate[n] = "none" /\ pending[n] = "none"
    BY <2>1, Parts DEF Unborn
  <2>13. \A g \in Gens : fate[g] = "live" => origin[g] \in Gens /\ origin[g] # n
    BY <2>12, Parts DEF Lineage
  <2>14. Owned'
    BY <1>3, <2>1, <2>2, <2>3, <2>5, <2>6, <2>7, <2>13, Parts, TaskMakes
  <2>15. \A y \in Tasks : pc[y] \in CarryPcs => ref[y] \in Gens /\ ref[y] # n
    BY <2>12, Parts DEF Hands, HandsOf
  <2>16. Descent'
    <3>1. Unborn'
      <4> SUFFICES ASSUME NEW g \in Gens, g >= nextGen'
                   PROVE  kind'[g] = "none" /\ fate'[g] = "none" /\ pending'[g] = "none"
        BY DEF Unborn
      <4>1. g # n /\ g >= n  BY <2>1
      <4> QED BY <1>3, <2>2, <2>5, <4>1, Parts DEF Unborn
    <3>2. Lineage'
      <4> SUFFICES ASSUME NEW g \in Gens, fate'[g] = "live"
                   PROVE  /\ origin'[g] \in Gens
                          /\ kind'[origin'[g]] = "login"
                          /\ client'[origin'[g]] \in Clients
                          /\ \/ kind'[g] = "login" /\ origin'[g] = g
                             \/ kind'[g] \in Users /\ authed'[origin'[g]] = kind'[g]
        BY DEF Lineage
      <4>1. CASE g = n  BY <1>2, <2>1, <2>2, <2>3, <2>7, <4>1
      <4>2. CASE g # n
        BY <1>3, <2>2, <2>3, <2>5, <2>7, <2>13, <4>2, Parts DEF Lineage
      <4> QED BY <4>1, <4>2
    <3>3. Reported'
      <4> SUFFICES ASSUME NEW g \in Gens, fate'[g] = "live", pending'[g] # "none"
                   PROVE  kind'[g] = "login" /\ pending'[g] = authed'[g]
        BY DEF Reported
      <4>1. g # n  BY <1>3, <2>12
      <4> QED BY <1>3, <2>2, <2>5, <4>1, Parts DEF Reported
    <3>4. OneBearer'
      <4>1. \A g, h \in Gens : fate'[g] = "live" /\ fate'[h] = "live" /\ origin'[g] = origin'[h]
              => g = h
        BY <2>3, <2>5, <2>13, Parts DEF OneBearer
      <4>2. \A y \in Tasks : pc'[y] \in CarryPcs => pc[y] \in CarryPcs /\ ref'[y] = ref[y]
        BY <1>3, <2>9, <2>10
      <4>3. \A g \in Gens, y \in Tasks : fate'[g] = "live" /\ pc'[y] \in CarryPcs
              => origin'[g] # ref'[y]
        BY <2>3, <2>5, <2>15, <4>2, Parts DEF OneBearer
      <4>4. \A x, y \in Tasks : pc'[x] \in CarryPcs /\ pc'[y] \in CarryPcs /\ ref'[x] = ref'[y]
              => x = y
        BY <4>2, Parts DEF OneBearer
      <4> QED BY <4>1, <4>3, <4>4 DEF OneBearer
    <3> QED BY <3>1, <3>2, <3>3, <3>4 DEF Descent
  <2>17. Hands'
    <3> SUFFICES ASSUME NEW y \in Tasks PROVE HandsOf(y)'
      BY DEF Hands
    <3>1. CASE y = t
      BY <1>2, <1>3, <2>1, <2>3, <2>6, <2>7, <2>9, <2>10, <3>1 DEF HandsOf
    <3>2. CASE y # t
      <4>1. Same(y)  BY <1>3, <2>6, <2>10, <3>2 DEF Same
      <4> QED BY <1>3, <2>1, <2>2, <2>3, <2>5, <2>7, <4>1, Parts, NewSessionHands
    <3> QED BY <3>1, <3>2
  <2> QED BY <2>11, <2>14, <2>16, <2>17 DEF IInv
<1> QED BY <1>4, <1>5 DEF LaunchSpawn

\* launch empties the slot after a failed spawn.
LEMMA LaunchFailsKeeps ==
  ASSUME IInv, NEW t \in Requests, LaunchFails(t) PROVE IInv'
<1> DEFINE c == cl[t]
<1>1. HandsOf(t) /\ pc[t] = "launch.fail"  BY Parts DEF Hands, LaunchFails
<1>2. c \in Clients  BY <1>1 DEF HandsOf, ClientPcs
<1>3. UNCHANGED <<background, registry, manager, kind, origin, proc, origins>>
  BY DEF LaunchFails
<1>4. LocalTypes' /\ pc'[t] \in {"idle", "stopped"} /\ held'[t] = 0
      /\ \A y \in Tasks : y # t => Same(y)
  BY Parts, ReturnEffect DEF LaunchFails
<1>5. 0 \in 0..MaxGen /\ "Idle" \in SlotStates
  BY ConstantsAssumption DEF ConstantsAssumption, SlotStates
<1>6. /\ st' \in [Clients -> SlotStates] /\ ses' \in [Clients -> 0..MaxGen]
      /\ fate' \in [Gens -> Fates] /\ st'[c] = "Idle" /\ ses'[c] = 0
      /\ \A d \in Clients : d # c => st'[d] = st[d] /\ ses'[d] = ses[d]
      /\ \A h \in Gens : h # ses[c] => fate'[h] = fate[h]
      /\ \A h \in Gens : fate'[h] = "live" => fate[h] = "live"
      /\ \A h \in Gens : fate[h] = "none" => fate'[h] = "none"
  BY <1>2, <1>5, Parts, PutSlotEffect DEF LaunchFails
<1>7. TypeOK'  BY <1>3, <1>4, <1>6, Parts DEF TypeOK, LocalTypes, manager, origins
<1>8. Owned'
  <2>1. \A d \in Clients : ses'[d] = 0 <=> st'[d] \in {"Idle", "Spawning"}
    BY <1>2, <1>6, Parts DEF SlotShape
  <2>2. \A y \in Tasks : held'[y] = held[y] \/ held'[y] = 0  BY <1>4 DEF Same
  <2>3. \A g \in Gens : fate'[g] # fate[g] =>
          /\ \A d \in Clients : ses'[d] # g
          /\ \A u \in Users : background'[u] # g
          /\ \A y \in Tasks : held'[y] # g
    BY <1>2, <1>3, <1>6, <2>2, Parts, RequestsAndWatchers DEF OneHome
  <2>4. /\ \A d \in Clients : ses'[d] = ses[d] \/ ses'[d] = 0
        /\ \A u \in Users : background'[u] = background[u] \/ background'[u] = 0
        /\ UNCHANGED <<kind, origin, client>>
    BY <1>2, <1>3, <1>6 DEF origins
  <2> QED BY <2>1, <2>2, <2>3, <2>4, Parts, FewerOwned
<1>9. Descent'
  <2>1. \A y \in Tasks : pc'[y] \in CarryPcs => pc[y] \in CarryPcs /\ ref'[y] = ref[y]
    BY <1>4, AtRest DEF Same
  <2> QED BY <1>3, <1>6, <2>1, Parts, KeepsDescent DEF manager, origins
<1>10. Hands'  BY <1>3, <1>4, <1>6, Parts, AtRest, KeepsHands DEF origins
<1> QED BY <1>7, <1>8, <1>9, <1>10 DEF IInv

\* launch puts its login stage into the slot.
LEMMA LaunchInsertKeeps ==
  ASSUME IInv, NEW t \in Requests, LaunchInsert(t) PROVE IInv'
<1> DEFINE c == cl[t]
<1>1. HandsOf(t) /\ pc[t] = "launch.insert"  BY Parts DEF Hands, LaunchInsert
<1>2. c \in Clients /\ held[t] # 0 /\ client[origin[held[t]]] = c
  BY <1>1 DEF HandsOf, ClientPcs, HoldPcs
<1>3. UNCHANGED <<background, registry, manager, kind, origin, proc, origins>>
  BY DEF LaunchInsert
<1>4. LocalTypes' /\ pc'[t] \in {"idle", "stopped"} /\ held'[t] = 0
      /\ \A y \in Tasks : y # t => Same(y)
  BY Parts, ReturnEffect DEF LaunchInsert
<1>5. held[t] \in 0..MaxGen /\ "Launched" \in SlotStates
  BY Parts DEF TypeOK, SlotStates
<1>6. /\ st' \in [Clients -> SlotStates] /\ ses' \in [Clients -> 0..MaxGen]
      /\ fate' \in [Gens -> Fates] /\ st'[c] = "Launched" /\ ses'[c] = held[t]
      /\ \A d \in Clients : d # c => st'[d] = st[d] /\ ses'[d] = ses[d]
      /\ \A h \in Gens : h # ses[c] => fate'[h] = fate[h]
      /\ \A h \in Gens : fate'[h] = "live" => fate[h] = "live"
      /\ \A h \in Gens : fate[h] = "none" => fate'[h] = "none"
  BY <1>2, <1>5, Parts, PutSlotEffect DEF LaunchInsert
<1>7. TypeOK'  BY <1>3, <1>4, <1>6, Parts DEF TypeOK, LocalTypes, manager, origins
<1>8. Owned'
  <2>1. \A y \in Tasks : y # t => held'[y] = held[y]  BY <1>4 DEF Same
  <2> QED BY <1>2, <1>3, <1>4, <1>6, <2>1, Parts, TaskToSlot DEF origins
<1>9. Descent'
  <2>1. \A y \in Tasks : pc'[y] \in CarryPcs => pc[y] \in CarryPcs /\ ref'[y] = ref[y]
    BY <1>4, AtRest DEF Same
  <2> QED BY <1>3, <1>6, <2>1, Parts, KeepsDescent DEF manager, origins
<1>10. Hands'  BY <1>3, <1>4, <1>6, Parts, AtRest, KeepsHands DEF origins
<1> QED BY <1>7, <1>8, <1>9, <1>10 DEF IInv

-----------------------------------------------------------------------------
(* cancel, PLAY, logout *)

\* A task takes what is in a slot.
LEMMA TakeSlotKeeps ==
  ASSUME IInv, NEW x \in Tasks, NEW c \in Clients, NEW label \in Pcs,
         TakeSlot(c, x), Goto(x, label),
         UNCHANGED <<background, pending, nextGen, nextKey, poisoned, kind, origin, proc, fate,
                     origins, ref, rk>>,
         registry' \subseteq Keys,
         cl' \in [Tasks -> Clients \cup {"none"}], us' \in [Tasks -> Users \cup {"none"}],
         \A y \in Tasks : y # x => cl'[y] = cl[y] /\ us'[y] = us[y],
         label \in CarryPcs => pc[x] \in CarryPcs,
         pc'[x] = label /\ held'[x] = ses[c] => HandsOf(x)'
  PROVE  IInv'
<1>1. /\ st' \in [Clients -> SlotStates] /\ ses' \in [Clients -> 0..MaxGen]
      /\ held' \in [Tasks -> 0..MaxGen]
      /\ st'[c] = "Idle" /\ ses'[c] = 0 /\ held'[x] = ses[c]
      /\ \A d \in Clients : d # c => st'[d] = st[d] /\ ses'[d] = ses[d]
      /\ \A y \in Tasks : y # x => held'[y] = held[y]
  BY Parts, TakeSlotEffect
<1>2. pc' \in [Tasks -> Pcs] /\ pc'[x] = label /\ \A y \in Tasks : y # x => pc'[y] = pc[y]
  BY Parts, GotoEffect
<1>3. TypeOK'  BY <1>1, <1>2, Parts DEF TypeOK, origins
<1>4. Owned'  BY <1>1, Parts, SlotToTask DEF origins
<1>5. \A y \in Tasks : y # x => Same(y)  BY <1>1, <1>2 DEF Same
<1>6. Descent'
  <2>1. \A y \in Tasks : pc'[y] \in CarryPcs => pc[y] \in CarryPcs /\ ref'[y] = ref[y]
    BY <1>2
  <2> QED BY <2>1, Parts, KeepsDescent DEF origins
<1>7. Hands'  BY <1>1, <1>2, <1>5, Parts, KeepsHands DEF origins
<1> QED BY <1>3, <1>4, <1>6, <1>7 DEF IInv

\* cancel empties a slot.
LEMMA CancelTakesKeeps ==
  ASSUME IInv, NEW x \in Tasks, NEW c \in Clients, CancelTakes(x, c) PROVE IInv'
<1>1. PICK label \in {Rest(x), "cancel.release"} :
        Goto(x, label) /\ (label = "cancel.release" => ses[c] # 0)
  <2>1. Rest(x) # "cancel.release"  BY DEF Rest
  <2> QED BY <2>1 DEF CancelTakes
<1>2. label \in Pcs /\ label \notin CarryPcs
  BY <1>1, RestPcs DEF Pcs, RequestPcs, WatcherPcs, CarryPcs
<1>3. ASSUME pc'[x] = label, held'[x] = ses[c] PROVE HandsOf(x)'
  <2>1. CASE label = "cancel.release"
    BY <1>1, <1>3, <2>1
       DEF HandsOf, HoldPcs, ClientPcs, LaunchPcs, CarryPcs, UserWatchPcs
  <2>2. CASE label = Rest(x)  BY <1>3, <2>2, RestPcs, AtRest
  <2> QED BY <1>1, <2>1, <2>2
<1>4. /\ cl' \in [Tasks -> Clients \cup {"none"}] /\ us' \in [Tasks -> Users \cup {"none"}]
      /\ \A y \in Tasks : y # x => cl'[y] = cl[y] /\ us'[y] = us[y]
  <2>1. cl \in [Tasks -> Clients \cup {"none"}] /\ us \in [Tasks -> Users \cup {"none"}]
    BY Parts DEF TypeOK
  <2> QED BY <2>1, UserOfType DEF CancelTakes
<1>5. registry' \subseteq Keys  BY Parts DEF CancelTakes, TypeOK
<1> QED BY <1>1, <1>2, <1>3, <1>4, <1>5, TakeSlotKeeps DEF CancelTakes, manager

\* cancel parks or discards what it took.
LEMMA CancelReleasesKeeps ==
  ASSUME IInv, NEW x \in Tasks, CancelReleases(x) PROVE IInv'
<1>1. HandsOf(x) /\ pc[x] = "cancel.release"  BY Parts DEF Hands, CancelReleases
<1>2. held[x] # 0  BY <1>1 DEF HandsOf, HoldPcs
<1>3. held[x] \in Gens /\ fate[held[x]] = "live"
  BY <1>2, Parts, SomeSession DEF TypeOK, OwnedIsLive
<1>4. UNCHANGED <<slots, manager, kind, origin, proc, origins>> /\ Release(held[x])
  BY DEF CancelReleases
<1>5. LocalTypes' /\ pc'[x] \in {"idle", "stopped"} /\ held'[x] = 0
      /\ \A y \in Tasks : y # x => Same(y)
  BY Parts, ReturnEffect DEF CancelReleases
<1>6. /\ registry' \subseteq Keys /\ background' \in [Users -> 0..MaxGen]
      /\ fate' \in [Gens -> Fates]
      /\ \A h \in Gens : fate'[h] = "live" => fate[h] = "live"
      /\ \A h \in Gens : fate[h] = "none" => fate'[h] = "none"
  BY <1>3, <1>4, Parts, ReleaseEffect
<1>7. TypeOK'  BY <1>4, <1>5, <1>6, Parts DEF TypeOK, LocalTypes, slots, manager, origins
<1>8. Owned'
  <2>1. \A y \in Tasks : y # x => held'[y] = held[y]  BY <1>5 DEF Same
  <2> QED BY <1>2, <1>4, <1>5, <2>1, Parts, TaskReleases DEF origins
<1>9. Descent'
  <2>1. \A y \in Tasks : pc'[y] \in CarryPcs => pc[y] \in CarryPcs /\ ref'[y] = ref[y]
    BY <1>5, AtRest DEF Same
  <2> QED BY <1>4, <1>6, <2>1, Parts, KeepsDescent DEF manager, origins
<1>10. Hands'  BY <1>4, <1>5, <1>6, Parts, AtRest, KeepsHands DEF origins
<1> QED BY <1>7, <1>8, <1>9, <1>10 DEF IInv

\* on_play takes the session it resolved the address to.
LEMMA PlayArrivesKeeps ==
  ASSUME IInv, NEW t \in Requests, NEW c \in Clients, PlayArrives(t, c) PROVE IInv'
<1>1. PICK label \in {"play.fresh", "play.retake"} : Goto(t, label)
  BY DEF PlayArrives
<1>2. ses[c] # 0  BY DEF PlayArrives, ResolvesTo, Candidates
<1>3. label \in Pcs /\ label \notin CarryPcs  BY DEF Pcs, RequestPcs, CarryPcs
<1>4. ASSUME pc'[t] = label, held'[t] = ses[c] PROVE HandsOf(t)'
  BY <1>1, <1>2, <1>4 DEF HandsOf, HoldPcs, ClientPcs, LaunchPcs, CarryPcs, UserWatchPcs
<1>5. /\ cl' \in [Tasks -> Clients \cup {"none"}] /\ us' \in [Tasks -> Users \cup {"none"}]
      /\ \A y \in Tasks : y # t => cl'[y] = cl[y] /\ us'[y] = us[y]
  <2>1. cl \in [Tasks -> Clients \cup {"none"}] /\ us \in [Tasks -> Users \cup {"none"}]
    BY Parts DEF TypeOK
  <2> QED BY <2>1, UserOfType DEF PlayArrives
<1>6. registry' \subseteq Keys  BY Parts DEF PlayArrives, TypeOK
<1> QED BY <1>1, <1>3, <1>4, <1>5, <1>6, TakeSlotKeeps DEF PlayArrives, manager

\* handle_log_out takes the desktop of its user out of a slot.
LEMMA LogoutLooksForActiveKeeps ==
  ASSUME IInv, NEW t \in Requests, LogoutLooksForActive(t) PROVE IInv'
<1>1. registry' \subseteq Keys /\ poisoned' \in BOOLEAN
  BY Parts DEF LogoutLooksForActive, TypeOK, manager
<1>2. UNCHANGED <<background, manager, kind, origin, proc, fate, origins>>
  BY DEF LogoutLooksForActive
<1>3. CASE Return(t) /\ UNCHANGED slots  BY <1>1, <1>2, <1>3, ReturnStep DEF manager
<1>4. ASSUME NEW c \in Clients, UserOf(ses[c]) = us[t], TakeSlot(c, t),
             Goto(t, "logout.terminate"), UNCHANGED <<cl, us, ref, rk>>
      PROVE  IInv'
  <2>1. us[t] \in Users
    BY Parts DEF Hands, HandsOf, LogoutLooksForActive
  <2>2. ses[c] # 0
    BY <1>4, <2>1, ConstantsAssumption DEF UserOf, IsDesktop, ConstantsAssumption
  <2>3. "logout.terminate" \in Pcs /\ "logout.terminate" \notin CarryPcs
    BY DEF Pcs, RequestPcs, CarryPcs
  <2>4. ASSUME pc'[t] = "logout.terminate", held'[t] = ses[c] PROVE HandsOf(t)'
    BY <2>2, <2>4 DEF HandsOf, HoldPcs, ClientPcs, LaunchPcs, CarryPcs, UserWatchPcs
  <2>5. cl' \in [Tasks -> Clients \cup {"none"}] /\ us' \in [Tasks -> Users \cup {"none"}]
    BY <1>4, Parts DEF TypeOK
  <2> QED BY <1>1, <1>2, <1>4, <2>3, <2>4, <2>5, TakeSlotKeeps DEF manager
<1> QED BY <1>3, <1>4 DEF LogoutLooksForActive

\* A task returns and what it had, if anything, is torn down.
LEMMA EndHeldKeeps ==
  ASSUME IInv, NEW x \in Tasks, Return(x), NEW how \in Fates, how \notin {"live", "none"},
         fate' = Ended(held[x], how),
         UNCHANGED <<slots, background, registry, manager, kind, origin, origins>>,
         proc' \in [Gens -> ProcStates], \A h \in Gens : proc'[h] = "ok" => proc[h] = "ok"
  PROVE  IInv'
<1>1. LocalTypes' /\ pc'[x] \in {"idle", "stopped"} /\ held'[x] = 0
      /\ \A y \in Tasks : y # x => Same(y)
  BY Parts, ReturnEffect
<1>2. held[x] # 0 => held[x] \in Gens /\ fate[held[x]] = "live"
  BY Parts, SomeSession DEF TypeOK, OwnedIsLive
<1>3. /\ fate' \in [Gens -> Fates]
      /\ \A h \in Gens : h # held[x] => fate'[h] = fate[h]
      /\ \A h \in Gens : fate'[h] = "live" => fate[h] = "live"
      /\ \A h \in Gens : fate[h] = "none" => fate'[h] = "none"
  BY <1>2, Parts, EndedEffect, EndsTheBorn
<1>4. TypeOK'  BY <1>1, <1>3, Parts DEF TypeOK, LocalTypes, slots, manager, origins
<1>5. Owned'
  <2>1. \A c \in Clients : ses'[c] = 0 <=> st'[c] \in {"Idle", "Spawning"}
    BY Parts DEF SlotShape, slots
  <2>2. \A y \in Tasks : held'[y] = held[y] \/ held'[y] = 0  BY <1>1 DEF Same
  <2>3. \A g \in Gens : fate'[g] # fate[g] =>
          /\ \A d \in Clients : ses'[d] # g
          /\ \A u \in Users : background'[u] # g
          /\ \A y \in Tasks : held'[y] # g
    BY <1>1, <1>3, <2>2, Parts, RequestsAndWatchers DEF OneHome, slots
  <2> QED BY <2>1, <2>2, <2>3, Parts, FewerOwned DEF slots, origins
<1>6. Descent'
  <2>1. \A y \in Tasks : pc'[y] \in CarryPcs => pc[y] \in CarryPcs /\ ref'[y] = ref[y]
    BY <1>1, AtRest DEF Same
  <2> QED BY <1>3, <2>1, Parts, KeepsDescent DEF manager, origins
<1>7. Hands'  BY <1>1, <1>3, Parts, AtRest, KeepsHands DEF origins
<1> QED BY <1>4, <1>5, <1>6, <1>7 DEF IInv

\* handle_log_out ends the desktop it took.
LEMMA LogoutTerminatesKeeps ==
  ASSUME IInv, NEW t \in Requests, LogoutTerminates(t) PROVE IInv'
<1>1. "loggedout" \in Fates  BY DEF Fates
<1>2. proc' \in [Gens -> ProcStates] /\ \A h \in Gens : proc'[h] = "ok" => proc[h] = "ok"
  <2>1. proc \in [Gens -> ProcStates] /\ "dead" \in ProcStates  BY Parts DEF TypeOK, ProcStates
  <2>2. CASE proc' = [proc EXCEPT ![held[t]] = "dead"]  BY <2>1, <2>2
  <2>3. CASE UNCHANGED proc  BY <2>1, <2>3
  <2> QED BY <2>2, <2>3 DEF LogoutTerminates
<1> QED BY <1>1, <1>2, EndHeldKeeps DEF LogoutTerminates

\* A task finds the mutex poisoned and drops what it had.
LEMMA PanicsKeeps ==
  ASSUME IInv, NEW x \in Tasks, Panics(x) PROVE IInv'
<1>1. "dropped" \in Fates /\ proc \in [Gens -> ProcStates]  BY Parts DEF Fates, TypeOK
<1> QED BY <1>1, EndHeldKeeps DEF Panics

\* A task takes a user's parked desktop, if there is one.
LEMMA TakeBackgroundKeeps ==
  ASSUME IInv, NEW x \in Tasks, NEW u \in Users, NEW label \in Pcs, Goto(x, label),
         background' = [background EXCEPT ![u] = 0],
         held' = [held EXCEPT ![x] = background[u]],
         UNCHANGED <<slots, registry, manager, kind, origin, proc, fate, origins, cl, ref, rk>>,
         us' \in [Tasks -> Users \cup {"none"}],
         \A y \in Tasks : y # x => us'[y] = us[y],
         label \in CarryPcs => pc[x] \in CarryPcs,
         pc'[x] = label /\ held'[x] = background[u] => HandsOf(x)'
  PROVE  IInv'
<1>1. /\ background \in [Users -> 0..MaxGen] /\ held \in [Tasks -> 0..MaxGen]
      /\ 0 \in 0..MaxGen
  BY Parts, ConstantsAssumption DEF TypeOK, ConstantsAssumption
<1>2. /\ background' \in [Users -> 0..MaxGen] /\ held' \in [Tasks -> 0..MaxGen]
      /\ background'[u] = 0 /\ held'[x] = background[u]
      /\ \A v \in Users : v # u => background'[v] = background[v]
      /\ \A y \in Tasks : y # x => held'[y] = held[y]
  BY <1>1
<1>3. pc' \in [Tasks -> Pcs] /\ pc'[x] = label /\ \A y \in Tasks : y # x => pc'[y] = pc[y]
  BY Parts, GotoEffect
<1>4. TypeOK'  BY <1>2, <1>3, Parts DEF TypeOK, slots, manager, origins
<1>5. Owned'  BY <1>2, Parts, BackgroundToTask DEF origins
<1>6. \A y \in Tasks : y # x => Same(y)  BY <1>2, <1>3 DEF Same
<1>7. Descent'
  <2>1. \A y \in Tasks : pc'[y] \in CarryPcs => pc[y] \in CarryPcs /\ ref'[y] = ref[y]
    BY <1>3
  <2> QED BY <2>1, Parts, KeepsDescent DEF manager, origins
<1>8. Hands'  BY <1>2, <1>3, <1>6, Parts, KeepsHands DEF origins
<1> QED BY <1>4, <1>5, <1>7, <1>8 DEF IInv

\* handle_log_out takes the parked desktop of its user.
LEMMA LogoutArrivesKeeps ==
  ASSUME IInv, NEW t \in Requests, NEW u \in Users, LogoutArrives(t, u) PROVE IInv'
<1>1. PICK label \in {"logout.terminate", "logout.active"} :
        Goto(t, label) /\ (label = "logout.terminate" => background[u] # 0)
  BY DEF LogoutArrives
<1>2. label \in Pcs /\ label \notin CarryPcs  BY DEF Pcs, RequestPcs, CarryPcs
<1>3. /\ us' \in [Tasks -> Users \cup {"none"}] /\ us'[t] = u
      /\ \A y \in Tasks : y # t => us'[y] = us[y]
  <2>1. us \in [Tasks -> Users \cup {"none"}]  BY Parts DEF TypeOK
  <2> QED BY <2>1 DEF LogoutArrives
<1>4. ASSUME pc'[t] = label, held'[t] = background[u] PROVE HandsOf(t)'
  BY <1>1, <1>3, <1>4 DEF HandsOf, HoldPcs, ClientPcs, LaunchPcs, CarryPcs, UserWatchPcs
<1> QED BY <1>1, <1>2, <1>3, <1>4, TakeBackgroundKeeps DEF LogoutArrives

-----------------------------------------------------------------------------
(* Attaching a session *)

\* start_streaming fills one slot, starts at most one watcher, and its task returns.
LEMMA StartStreamingEffect ==
  ASSUME IInv, NEW x \in Tasks, held[x] # 0, NEW c \in Clients, NEW fresh \in BOOLEAN,
         StartStreaming(x, held[x], c, fresh), UNCHANGED kind
  PROVE  /\ st' \in [Clients -> SlotStates] /\ ses' \in [Clients -> 0..MaxGen]
         /\ fate' \in [Gens -> Fates] /\ LocalTypes'
         /\ st'[c] = "Streaming" /\ ses'[c] = held[x] /\ held'[x] = 0
         /\ \A d \in Clients : d # c => st'[d] = st[d] /\ ses'[d] = ses[d]
         /\ \A h \in Gens : h # ses[c] => fate'[h] = fate[h]
         /\ \A h \in Gens : fate'[h] = "live" => fate[h] = "live"
         /\ \A h \in Gens : fate[h] = "none" => fate'[h] = "none"
         /\ pc'[x] \in {"idle", "stopped"}
         /\ \A y \in Tasks : y # x => held'[y] = held[y] /\ (Same(y) \/ HandsOf(y)')
         /\ \A y \in Tasks : pc'[y] \in CarryPcs => y # x /\ pc[y] \in CarryPcs /\ ref'[y] = ref[y]
<1>0. PICK g \in Gens : g = held[x]  BY Parts, SomeSession DEF TypeOK
<1>1. g \in Gens /\ g \in 0..MaxGen /\ fate[g] = "live" /\ "Streaming" \in SlotStates
  BY <1>0, Parts DEF TypeOK, OwnedIsLive, SlotStates
<1>2. kind[g] = "login" \/ kind[g] \in Users  BY <1>1, Parts DEF Lineage
<1>3. /\ st' \in [Clients -> SlotStates] /\ ses' \in [Clients -> 0..MaxGen]
      /\ fate' \in [Gens -> Fates]
      /\ st'[c] = "Streaming" /\ ses'[c] = g
      /\ \A d \in Clients : d # c => st'[d] = st[d] /\ ses'[d] = ses[d]
      /\ \A h \in Gens : h # ses[c] => fate'[h] = fate[h]
      /\ \A h \in Gens : fate'[h] = "live" => fate[h] = "live"
      /\ \A h \in Gens : fate[h] = "none" => fate'[h] = "none"
  BY <1>0, <1>1, Parts, PutSlotEffect DEF StartStreaming
<1>4. /\ held \in [Tasks -> 0..MaxGen] /\ pc \in [Tasks -> Pcs]
      /\ cl \in [Tasks -> Clients \cup {"none"}] /\ us \in [Tasks -> Users \cup {"none"}]
      /\ ref \in [Tasks -> 0..MaxGen] /\ rk \in [Tasks -> 0..MaxLaunches] /\ 0 \in 0..MaxGen
  BY Parts, ConstantsAssumption DEF TypeOK, ConstantsAssumption
<1>5. held' \in [Tasks -> 0..MaxGen] /\ us' \in [Tasks -> Users \cup {"none"}]
      /\ ref' \in [Tasks -> 0..MaxGen] /\ rk' = rk
      /\ held'[x] = 0
      /\ \A y \in Tasks : y # x => held'[y] = held[y] /\ us'[y] = us[y] /\ ref'[y] = ref[y]
  BY <1>0, <1>4 DEF StartStreaming
<1>6. pc' = [y \in Tasks |->
               IF y = x THEN Rest(x)
               ELSE IF y = g /\ fresh
                    THEN IF kind[g] = "login" THEN "login.watch" ELSE "user.tick"
                    ELSE pc[y]]
  BY <1>0 DEF StartStreaming
<1>7. cl' = [y \in Tasks |-> IF y = x THEN "none"
                             ELSE IF y = g /\ fresh /\ kind[g] = "login" THEN c ELSE cl[y]]
  BY <1>0 DEF StartStreaming
<1>8. Rest(x) \in Pcs /\ "login.watch" \in Pcs /\ "user.tick" \in Pcs
  BY RestPcs DEF Pcs, RequestPcs, WatcherPcs
<1>9. pc' \in [Tasks -> Pcs]  BY <1>4, <1>6, <1>8
<1>10. cl' \in [Tasks -> Clients \cup {"none"}]  BY <1>4, <1>7
<1>11. LocalTypes'  BY <1>4, <1>5, <1>9, <1>10 DEF LocalTypes
<1>12. pc'[x] \in {"idle", "stopped"}  BY <1>6, RestPcs
<1>13. \A y \in Tasks : y # x /\ ~(y = g /\ fresh) => Same(y)
  BY <1>5, <1>6, <1>7 DEF Same
<1>14. \A y \in Tasks : y # x /\ y = g /\ fresh => HandsOf(y)' /\ pc'[y] \notin CarryPcs
  <2> SUFFICES ASSUME g \in Tasks, g # x, fresh PROVE HandsOf(g)' /\ pc'[g] \notin CarryPcs
    OBVIOUS
  <2>1. CASE kind[g] = "login"
    <3>1. pc'[g] = "login.watch" /\ cl'[g] = c  BY <1>6, <1>7, <2>1
    <3> QED BY <3>1 DEF HandsOf, HoldPcs, ClientPcs, LaunchPcs, CarryPcs, UserWatchPcs
  <2>2. CASE kind[g] # "login"
    <3>1. pc'[g] = "user.tick" /\ kind'[g] \in Users  BY <1>2, <1>6, <2>2
    <3> QED BY <1>1, <3>1 DEF HandsOf, HoldPcs, ClientPcs, LaunchPcs, CarryPcs, UserWatchPcs
  <2> QED BY <2>1, <2>2
<1>15. \A y \in Tasks : pc'[y] \in CarryPcs => y # x /\ pc[y] \in CarryPcs /\ ref'[y] = ref[y]
  <2>1. pc'[x] \notin CarryPcs  BY <1>12, AtRest
  <2> QED BY <1>13, <1>14, <2>1 DEF Same
<1> QED BY <1>0, <1>3, <1>5, <1>11, <1>12, <1>13, <1>14, <1>15

\* A session is attached with the origin it has.
LEMMA StreamsKeeps ==
  ASSUME IInv, NEW x \in Tasks, held[x] # 0, NEW fresh \in BOOLEAN,
         StartStreaming(x, held[x], client[origin[held[x]]], fresh),
         UNCHANGED <<background, registry, manager, kind, origin, origins>>,
         proc' \in [Gens -> ProcStates], \A h \in Gens : proc'[h] = "ok" => proc[h] = "ok"
  PROVE  IInv'
<1> DEFINE c == client[origin[held[x]]]
<1>1. held[x] \in Gens /\ fate[held[x]] = "live"
  BY Parts, SomeSession DEF TypeOK, OwnedIsLive
<1>2. c \in Clients  BY <1>1, Parts DEF Lineage
<1>3. /\ st' \in [Clients -> SlotStates] /\ ses' \in [Clients -> 0..MaxGen]
      /\ fate' \in [Gens -> Fates] /\ LocalTypes'
      /\ st'[c] = "Streaming" /\ ses'[c] = held[x] /\ held'[x] = 0
      /\ \A d \in Clients : d # c => st'[d] = st[d] /\ ses'[d] = ses[d]
      /\ \A h \in Gens : h # ses[c] => fate'[h] = fate[h]
      /\ \A h \in Gens : fate'[h] = "live" => fate[h] = "live"
      /\ \A h \in Gens : fate[h] = "none" => fate'[h] = "none"
      /\ pc'[x] \in {"idle", "stopped"}
      /\ \A y \in Tasks : y # x => held'[y] = held[y] /\ (Same(y) \/ HandsOf(y)')
      /\ \A y \in Tasks : pc'[y] \in CarryPcs => y # x /\ pc[y] \in CarryPcs /\ ref'[y] = ref[y]
  BY <1>2, StartStreamingEffect
<1>4. TypeOK'  BY <1>3, Parts DEF TypeOK, LocalTypes, manager, origins
<1>5. Owned'  BY <1>2, <1>3, Parts, TaskToSlot DEF origins
<1>6. Descent'  BY <1>3, Parts, KeepsDescent DEF manager, origins
<1>7. Hands'  BY <1>3, Parts, AtRest, KeepsHands DEF origins
<1> QED BY <1>4, <1>5, <1>6, <1>7 DEF IInv

\* on_play attaches a login stage for the first time.
LEMMA PlayFreshKeeps ==
  ASSUME IInv, NEW t \in Requests, PlayFresh(t) PROVE IInv'
<1>1. HandsOf(t) /\ pc[t] = "play.fresh"  BY Parts DEF Hands, PlayFresh
<1>2. held[t] # 0  BY <1>1 DEF HandsOf, HoldPcs
<1>3. proc' \in [Gens -> ProcStates] /\ \A h \in Gens : proc'[h] = "ok" => proc[h] = "ok"
  <2>1. proc \in [Gens -> ProcStates] /\ "lost" \in ProcStates  BY Parts DEF TypeOK, ProcStates
  <2>2. CASE proc' = [proc EXCEPT ![held[t]] = "lost"]  BY <2>1, <2>2
  <2>3. CASE UNCHANGED proc  BY <2>1, <2>3
  <2> QED BY <2>2, <2>3 DEF PlayFresh
<1> QED BY <1>2, <1>3, StreamsKeeps DEF PlayFresh

\* handoff_to_user attaches a new desktop.
LEMMA HandoffStreamsKeeps ==
  ASSUME IInv, NEW g \in Gens, HandoffStreams(g) PROVE IInv'
<1>1. HandsOf(g) /\ pc[g] = "handoff.start"  BY Parts DEF Hands, HandoffStreams
<1>2. held[g] # 0  BY <1>1 DEF HandsOf, HoldPcs
<1>3. proc' \in [Gens -> ProcStates] /\ \A h \in Gens : proc'[h] = "ok" => proc[h] = "ok"
  BY Parts DEF TypeOK, HandoffStreams
<1> QED BY <1>2, <1>3, StreamsKeeps DEF HandoffStreams

\* on_play puts a streaming session back.
LEMMA PlayRetakeKeeps ==
  ASSUME IInv, NEW t \in Requests, PlayRetake(t) PROVE IInv'
<1> DEFINE c == client[origin[held[t]]]
<1>1. HandsOf(t) /\ pc[t] = "play.retake"  BY Parts DEF Hands, PlayRetake
<1>2. held[t] # 0  BY <1>1 DEF HandsOf, HoldPcs
<1>3. held[t] \in Gens /\ held[t] \in 0..MaxGen /\ fate[held[t]] = "live"
  BY <1>2, Parts, SomeSession DEF TypeOK, OwnedIsLive
<1>4. c \in Clients /\ "Streaming" \in SlotStates  BY <1>3, Parts DEF Lineage, SlotStates
<1>5. UNCHANGED <<background, registry, manager, kind, origin, proc, origins>>
  BY DEF PlayRetake
<1>6. LocalTypes' /\ pc'[t] \in {"idle", "stopped"} /\ held'[t] = 0
      /\ \A y \in Tasks : y # t => Same(y)
  BY Parts, ReturnEffect DEF PlayRetake
<1>7. /\ st' \in [Clients -> SlotStates] /\ ses' \in [Clients -> 0..MaxGen]
      /\ fate' \in [Gens -> Fates] /\ st'[c] = "Streaming" /\ ses'[c] = held[t]
      /\ \A d \in Clients : d # c => st'[d] = st[d] /\ ses'[d] = ses[d]
      /\ \A h \in Gens : h # ses[c] => fate'[h] = fate[h]
      /\ \A h \in Gens : fate'[h] = "live" => fate[h] = "live"
      /\ \A h \in Gens : fate[h] = "none" => fate'[h] = "none"
  BY <1>3, <1>4, Parts, PutSlotEffect DEF PlayRetake
<1>8. TypeOK'  BY <1>5, <1>6, <1>7, Parts DEF TypeOK, LocalTypes, manager, origins
<1>9. Owned'
  <2>1. \A y \in Tasks : y # t => held'[y] = held[y]  BY <1>6 DEF Same
  <2> QED BY <1>2, <1>4, <1>5, <1>6, <1>7, <2>1, Parts, TaskToSlot DEF origins
<1>10. Descent'
  <2>1. \A y \in Tasks : pc'[y] \in CarryPcs => pc[y] \in CarryPcs /\ ref'[y] = ref[y]
    BY <1>6, AtRest DEF Same
  <2> QED BY <1>5, <1>7, <2>1, Parts, KeepsDescent DEF manager, origins
<1>11. Hands'  BY <1>5, <1>6, <1>7, Parts, AtRest, KeepsHands DEF origins
<1> QED BY <1>8, <1>9, <1>10, <1>11 DEF IInv

-----------------------------------------------------------------------------
(* The watchers and the handoff *)

\* A password is accepted on a login screen.
LEMMA LoginSucceedsKeeps ==
  ASSUME IInv, NEW g \in Gens, NEW u \in Users, LoginSucceeds(g, u) PROVE IInv'
<1>1. UNCHANGED <<slots, background, registry, nextGen, nextKey, poisoned, kind, origin, fate,
                  client, key, locals>>
  BY DEF LoginSucceeds
<1>2. kind[g] = "login" /\ fate[g] = "live"  BY DEF LoginSucceeds
<1>3. /\ proc' \in [Gens -> ProcStates] /\ \A h \in Gens : h # g => proc'[h] = proc[h]
      /\ pending' \in [Gens -> Users \cup {"none"}] /\ pending'[g] = u
      /\ authed' \in [Gens -> Users \cup {"none"}] /\ authed'[g] = u
      /\ \A h \in Gens : h # g => pending'[h] = pending[h] /\ authed'[h] = authed[h]
  <2>1. /\ proc \in [Gens -> ProcStates] /\ "ok" \in ProcStates
        /\ pending \in [Gens -> Users \cup {"none"}] /\ authed \in [Gens -> Users \cup {"none"}]
    BY Parts DEF TypeOK, ProcStates
  <2> QED BY <2>1 DEF LoginSucceeds
<1>4. origin[g] = g  BY <1>2, Parts, ConstantsAssumption DEF Lineage, ConstantsAssumption
<1>5. TypeOK'  BY <1>1, <1>3, Parts DEF TypeOK, slots, locals
<1>6. Owned'
  <2>1. \A c \in Clients : ses'[c] = 0 <=> st'[c] \in {"Idle", "Spawning"}
    BY <1>1, Parts DEF SlotShape, slots
  <2> QED BY <1>1, <2>1, Parts, FewerOwned DEF slots, locals
<1>7. Descent'
  <2>1. Unborn'
    <3> SUFFICES ASSUME NEW h \in Gens, h >= nextGen
                 PROVE  kind[h] = "none" /\ fate[h] = "none" /\ pending'[h] = "none"
      BY <1>1 DEF Unborn
    <3>1. kind[h] = "none" /\ fate[h] = "none" /\ pending[h] = "none"  BY Parts DEF Unborn
    <3>2. h # g  BY <1>2, <3>1
    <3> QED BY <1>3, <3>1, <3>2
  <2>2. Lineage'
    <3>1. ASSUME NEW h \in Gens, fate[h] = "live", kind[h] # "login"
          PROVE  authed'[origin[h]] = authed[origin[h]]
      <4>1. origin[h] # g  BY <1>2, <1>4, <3>1, Parts DEF OneBearer
      <4> QED BY <1>3, <3>1, <4>1, Parts DEF Lineage
    <3>2. "login" \notin Users  BY ConstantsAssumption DEF ConstantsAssumption
    <3>3. fate' = fate /\ kind' = kind /\ origin' = origin /\ client' = client  BY <1>1
    <3> QED BY <3>1, <3>2, <3>3, Parts DEF Lineage
  <2>3. Reported'
    <3> SUFFICES ASSUME NEW h \in Gens, fate[h] = "live", pending'[h] # "none"
                 PROVE  kind[h] = "login" /\ pending'[h] = authed'[h]
      BY <1>1 DEF Reported
    <3>1. CASE h = g  BY <1>2, <1>3, <3>1
    <3>2. CASE h # g  BY <1>3, <3>2, Parts DEF Reported
    <3> QED BY <3>1, <3>2
  <2>4. OneBearer'  BY <1>1, Parts DEF OneBearer, locals
  <2> QED BY <2>1, <2>2, <2>3, <2>4 DEF Descent
<1>8. Hands'
  <2> SUFFICES ASSUME NEW y \in Tasks PROVE HandsOf(y)'
    BY DEF Hands
  <2>1. HandsOf(y)  BY Parts DEF Hands
  <2>2. Same(y)  BY <1>1 DEF Same, locals
  <2>3. pc[y] \in CarryPcs => authed'[ref[y]] = authed[ref[y]]
    BY <1>2, <1>3, <2>1 DEF HandsOf
  <2> QED BY <1>1, <2>1, <2>2, <2>3 DEF HandsOf, Same
<1> QED BY <1>5, <1>6, <1>7, <1>8 DEF IInv

\* handoff_to_user takes what streams in its client's slot, and carries the origin and the
\* reported user of a login stage on.
LEMMA HandoffTakesKeeps ==
  ASSUME IInv, NEW g \in Gens, HandoffTakes(g) PROVE IInv'
<1>1. HandsOf(g) /\ pc[g] = "handoff.take"  BY Parts DEF Hands, HandoffTakes
<1>2. PICK c \in Clients : c = cl[g]  BY <1>1 DEF HandsOf, ClientPcs
<1>3. UNCHANGED <<background, registry, nextGen, nextKey, poisoned, kind, origin, proc, origins>>
  BY DEF HandoffTakes
<1>4. CASE Return(g) /\ UNCHANGED <<slots, pending, fate>>
  <2>1. registry' \subseteq Keys /\ poisoned' \in BOOLEAN  BY <1>3, Parts DEF TypeOK
  <2> QED BY <1>3, <1>4, <2>1, ReturnStep
<1>5. CASE st[c] = "Streaming"
  <2>1. PICK s \in Gens : s = ses[c]
    BY <1>5, Parts, SomeSession DEF TypeOK, SlotShape
  <2>2. s # 0 /\ fate[s] = "live"
    BY <2>1, Parts, RequestsAndWatchers DEF OwnedIsLive
  <2>3. client[origin[s]] = c /\ s \in 0..MaxGen
    BY <2>1, <2>2, Parts, ConstantsAssumption
       DEF SlotIsTheClients, ConstantsAssumption, TypeOK
  <2>4. /\ st' = [st EXCEPT ![c] = "Idle"] /\ ses' = [ses EXCEPT ![c] = 0]
        /\ fate' = Ended(s, "discarded") /\ pending' = [pending EXCEPT ![s] = "none"]
        /\ \/ pending[s] = "none" /\ Return(g)
           \/ /\ pending[s] # "none"
              /\ us' = [us EXCEPT ![g] = pending[s]] /\ ref' = [ref EXCEPT ![g] = origin[s]]
              /\ Goto(g, "handoff.background") /\ UNCHANGED <<held, cl, rk>>
    BY <1>2, <1>5, <2>1 DEF HandoffTakes
  <2>5. /\ st' \in [Clients -> SlotStates] /\ ses' \in [Clients -> 0..MaxGen]
        /\ st'[c] = "Idle" /\ ses'[c] = 0
        /\ \A d \in Clients : d # c => st'[d] = st[d] /\ ses'[d] = ses[d]
    <3>1. st \in [Clients -> SlotStates] /\ ses \in [Clients -> 0..MaxGen]  BY Parts DEF TypeOK
    <3>2. "Idle" \in SlotStates /\ 0 \in 0..MaxGen
      BY ConstantsAssumption DEF SlotStates, ConstantsAssumption
    <3> QED BY <2>4, <3>1, <3>2
  <2>6. "discarded" \in Fates /\ "discarded" \notin {"live", "none"}  BY DEF Fates
  <2>7. /\ fate' \in [Gens -> Fates] /\ fate'[s] # "live"
        /\ \A h \in Gens : h # s => fate'[h] = fate[h]
        /\ \A h \in Gens : fate'[h] = "live" => fate[h] = "live"
        /\ \A h \in Gens : fate[h] = "none" => fate'[h] = "none"
    <3>1. fate'[s] # "live"  BY <2>4 DEF Ended
    <3> QED BY <2>2, <2>4, <2>6, <3>1, Parts, EndedEffect, EndsTheBorn
  <2>8. /\ pending' \in [Gens -> Users \cup {"none"}]
        /\ \A h \in Gens : pending'[h] \in {pending[h], "none"}
        /\ \A h \in Gens : h # s => pending'[h] = pending[h]
    <3>1. pending \in [Gens -> Users \cup {"none"}]  BY Parts DEF TypeOK
    <3> QED BY <2>4, <3>1
  <2>9. ASSUME \A y \in Tasks : held'[y] = held[y] \/ held'[y] = 0 PROVE Owned'
    <3>1. \A d \in Clients : ses'[d] = 0 <=> st'[d] \in {"Idle", "Spawning"}
      BY <2>5, Parts DEF SlotShape
    <3>2. \A h \in Gens : fate'[h] # fate[h] =>
            /\ \A d \in Clients : ses'[d] # h
            /\ \A u \in Users : background'[u] # h
            /\ \A y \in Tasks : held'[y] # h
      BY <1>3, <2>1, <2>2, <2>5, <2>7, <2>9, Parts, RequestsAndWatchers DEF OneHome
    <3>3. \A d \in Clients : ses'[d] = ses[d] \/ ses'[d] = 0  BY <2>5
    <3>4. \A u \in Users : background'[u] = background[u] \/ background'[u] = 0  BY <1>3
    <3> QED BY <1>3, <2>9, <3>1, <3>2, <3>3, <3>4, Parts, FewerOwned DEF origins
  <2>10. CASE Return(g)
    <3>1. /\ LocalTypes' /\ pc'[g] \in {"idle", "stopped"} /\ held'[g] = 0
          /\ \A y \in Tasks : y # g => Same(y)
      BY <2>10, Parts, ReturnEffect, RequestsAndWatchers
    <3>2. TypeOK'
      BY <1>3, <2>5, <2>7, <2>8, <3>1, Parts DEF TypeOK, LocalTypes, origins
    <3>3. Owned'  BY <2>9, <3>1 DEF Same
    <3>4. Descent'
      <4>1. \A y \in Tasks : pc'[y] \in CarryPcs => pc[y] \in CarryPcs /\ ref'[y] = ref[y]
        BY <3>1, AtRest, RequestsAndWatchers DEF Same
      <4> QED BY <1>3, <2>7, <2>8, <4>1, Parts, KeepsDescent DEF origins
    <3>5. Hands'
      BY <1>3, <2>7, <3>1, Parts, AtRest, KeepsHands, RequestsAndWatchers DEF origins
    <3> QED BY <3>2, <3>3, <3>4, <3>5 DEF IInv
  <2>11. CASE /\ pending[s] # "none"
              /\ us' = [us EXCEPT ![g] = pending[s]] /\ ref' = [ref EXCEPT ![g] = origin[s]]
              /\ Goto(g, "handoff.background") /\ UNCHANGED <<held, cl, rk>>
    <3>1. kind[s] = "login" /\ pending[s] \in Users /\ pending[s] = authed[s]
      BY <2>2, <2>11, Parts DEF Reported, TypeOK
    <3>2. origin[s] = s /\ client[s] = c
      BY <2>2, <2>3, <3>1, Parts, ConstantsAssumption DEF Lineage, ConstantsAssumption
    <3>3. /\ us' \in [Tasks -> Users \cup {"none"}] /\ us'[g] = pending[s]
          /\ ref' \in [Tasks -> 0..MaxGen] /\ ref'[g] = s
          /\ \A y \in Tasks : y # g => us'[y] = us[y] /\ ref'[y] = ref[y]
      <4>1. us \in [Tasks -> Users \cup {"none"}] /\ ref \in [Tasks -> 0..MaxGen]
        BY Parts DEF TypeOK
      <4> QED BY <2>3, <2>11, <3>1, <3>2, <4>1
    <3>4. /\ "handoff.background" \in Pcs /\ "handoff.background" \in CarryPcs
          /\ "handoff.background" \notin HoldPcs \cup ClientPcs \cup LaunchPcs \cup UserWatchPcs
      BY DEF Pcs, WatcherPcs, CarryPcs, UserWatchPcs, HoldPcs, ClientPcs, LaunchPcs
    <3>5. /\ pc' \in [Tasks -> Pcs] /\ pc'[g] = "handoff.background"
          /\ \A y \in Tasks : y # g => pc'[y] = pc[y]
      BY <2>11, <3>4, Parts, GotoEffect
    <3>6. TypeOK'
      BY <1>3, <2>5, <2>7, <2>8, <2>11, <3>3, <3>5, Parts DEF TypeOK, origins
    <3>7. Owned'  BY <2>9, <2>11
    <3>8. \A y \in Tasks : y # g => Same(y)  BY <2>11, <3>3, <3>5 DEF Same
    <3>9. Descent'
      <4>1. Unborn'  BY <1>3, <2>7, <2>8, Parts DEF Unborn
      <4>2. Lineage'  BY <1>3, <2>7, Parts DEF Lineage, origins
      <4>3. Reported'  BY <1>3, <2>7, <2>8, Parts DEF Reported, origins
      <4>4. OneBearer'
        <5>1. \A h, i \in Gens : fate'[h] = "live" /\ fate'[i] = "live" /\ origin'[h] = origin'[i]
                => h = i
          BY <1>3, <2>7, Parts DEF OneBearer
        <5>2. \A h \in Gens : fate'[h] = "live" => origin'[h] # s
          BY <1>3, <2>2, <2>7, <3>2, Parts DEF OneBearer
        <5>3. \A y \in Tasks : pc[y] \in CarryPcs => ref[y] # s
          BY <2>2, <3>2, Parts DEF OneBearer
        <5>4. \A h \in Gens, y \in Tasks : fate'[h] = "live" /\ pc'[y] \in CarryPcs
                => origin'[h] # ref'[y]
          BY <1>3, <2>7, <3>3, <3>5, <5>2, Parts DEF OneBearer
        <5>5. \A x, y \in Tasks : pc'[x] \in CarryPcs /\ pc'[y] \in CarryPcs /\ ref'[x] = ref'[y]
                => x = y
          BY <3>3, <3>5, <5>3, Parts DEF OneBearer
        <5> QED BY <5>1, <5>4, <5>5 DEF OneBearer
      <4> QED BY <4>1, <4>2, <4>3, <4>4 DEF Descent
    <3>10. HandsOf(g)'
      <4>1. /\ ref'[g] \in Gens /\ fate'[ref'[g]] # "live" /\ kind'[ref'[g]] = "login"
            /\ client'[ref'[g]] \in Clients /\ us'[g] \in Users /\ authed'[ref'[g]] = us'[g]
        BY <1>3, <2>7, <3>1, <3>2, <3>3 DEF origins
      <4> QED BY <3>4, <3>5, <4>1 DEF HandsOf
    <3>11. Hands'
      BY <1>3, <2>7, <3>8, <3>10, Parts, KeepsHands, RequestsAndWatchers DEF origins
    <3> QED BY <3>6, <3>7, <3>9, <3>11 DEF IInv
  <2> QED BY <2>4, <2>10, <2>11
<1> QED BY <1>2, <1>4, <1>5 DEF HandoffTakes

\* One tick of watch_login_exit.
LEMMA WatchLoginExitKeeps ==
  ASSUME IInv, NEW g \in Gens, WatchLoginExit(g) PROVE IInv'
<1>1. HandsOf(g) /\ pc[g] = "login.watch"  BY Parts DEF Hands, WatchLoginExit
<1>2. PICK c \in Clients : c = cl[g]  BY <1>1 DEF HandsOf, ClientPcs
<1>3. UNCHANGED <<slots, background, registry, pending, nextGen, nextKey, kind, origin, proc,
                  fate, origins>>
  BY DEF WatchLoginExit
<1>4. registry' \subseteq Keys /\ key' \in [Gens -> 0..MaxLaunches]
  BY <1>3, Parts DEF TypeOK, origins
<1>5. CASE Return(g) /\ poisoned' \in BOOLEAN  BY <1>3, <1>4, <1>5, ReturnStep
<1>6. ASSUME NEW label \in {"handoff.take", "cancel.take"}, Goto(g, label),
             UNCHANGED <<poisoned, held, cl, us, ref, rk>>
      PROVE  IInv'
  <2>1. label \in Pcs /\ label \notin CarryPcs  BY DEF Pcs, WatcherPcs, CarryPcs
  <2>2. ASSUME pc'[g] = label PROVE HandsOf(g)'
    BY <1>2, <1>6, <2>2 DEF HandsOf, HoldPcs, ClientPcs, LaunchPcs, CarryPcs, UserWatchPcs
  <2> QED BY <1>3, <1>4, <1>6, <2>1, <2>2, GotoStep DEF manager, origins
<1>7. poisoned \in BOOLEAN  BY Parts DEF TypeOK
<1> QED BY <1>5, <1>6, <1>7 DEF WatchLoginExit

\* handoff_to_user takes the parked desktop of the user, if any.
LEMMA HandoffLooksInBackgroundKeeps ==
  ASSUME IInv, NEW g \in Gens, HandoffLooksInBackground(g) PROVE IInv'
<1>1. HandsOf(g) /\ pc[g] = "handoff.background"  BY Parts DEF Hands, HandoffLooksInBackground
<1>2. pc[g] \in CarryPcs  BY <1>1 DEF CarryPcs
<1>3. PICK u \in Users : u = us[g]  BY <1>1, <1>2 DEF HandsOf
<1>4. PICK label \in {"handoff.detach", "handoff.spawn", "handoff.active"} :
        Goto(g, label) /\ (label = "handoff.detach" => background[u] # 0)
  BY <1>3 DEF HandoffLooksInBackground
<1>5. label \in Pcs  BY DEF Pcs, WatcherPcs
<1>6. background[u] # 0 => kind[background[u]] = u  BY Parts DEF BackgroundIsTheUsers
<1>7. ASSUME pc'[g] = label, held'[g] = background[u] PROVE HandsOf(g)'
  BY <1>1, <1>2, <1>3, <1>4, <1>6, <1>7
     DEF HandoffLooksInBackground, origins,
         HandsOf, HoldPcs, ClientPcs, LaunchPcs, CarryPcs, UserWatchPcs
<1>8. us' \in [Tasks -> Users \cup {"none"}]  BY Parts DEF HandoffLooksInBackground, TypeOK
<1> QED BY <1>2, <1>3, <1>4, <1>5, <1>7, <1>8, TakeBackgroundKeeps DEF HandoffLooksInBackground

\* handoff_to_user takes the desktop of the user from another client, if any.
LEMMA HandoffLooksForActiveKeeps ==
  ASSUME IInv, NEW g \in Gens, HandoffLooksForActive(g) PROVE IInv'
<1>1. HandsOf(g) /\ pc[g] = "handoff.active"  BY Parts DEF Hands, HandoffLooksForActive
<1>2. pc[g] \in CarryPcs  BY <1>1 DEF CarryPcs
<1>3. us[g] \in Users  BY <1>1, <1>2 DEF HandsOf
<1>4. UNCHANGED <<background, registry, manager, kind, origin, proc, fate, origins, cl, us,
                  ref, rk>>
  BY DEF HandoffLooksForActive
<1>5. registry' \subseteq Keys /\ key' \in [Gens -> 0..MaxLaunches]
  BY <1>4, Parts DEF TypeOK, origins
<1>6. CASE Goto(g, "handoff.spawn") /\ UNCHANGED <<slots, held>>
  <2>1. "handoff.spawn" \in Pcs  BY DEF Pcs, WatcherPcs
  <2>2. ASSUME pc'[g] = "handoff.spawn" PROVE HandsOf(g)'
    BY <1>1, <1>2, <1>4, <1>6, <2>2
       DEF origins, HandsOf, HoldPcs, ClientPcs, LaunchPcs, CarryPcs, UserWatchPcs
  <2> QED BY <1>2, <1>4, <1>5, <1>6, <2>1, <2>2, GotoStep DEF origins
<1>7. ASSUME NEW c \in Clients, UserOf(ses[c]) = us[g], TakeSlot(c, g), Goto(g, "handoff.detach")
      PROVE  IInv'
  <2>1. ses[c] # 0 /\ kind[ses[c]] = us[g]
    BY <1>3, <1>7, ConstantsAssumption DEF UserOf, IsDesktop, ConstantsAssumption
  <2>2. "handoff.detach" \in Pcs  BY DEF Pcs, WatcherPcs
  <2>3. ASSUME pc'[g] = "handoff.detach", held'[g] = ses[c] PROVE HandsOf(g)'
    BY <1>1, <1>2, <1>4, <2>1, <2>3
       DEF origins, HandsOf, HoldPcs, ClientPcs, LaunchPcs, CarryPcs, UserWatchPcs
  <2>4. cl' \in [Tasks -> Clients \cup {"none"}] /\ us' \in [Tasks -> Users \cup {"none"}]
    BY <1>4, Parts DEF TypeOK
  <2> QED BY <1>2, <1>4, <1>5, <1>7, <2>2, <2>3, <2>4, TakeSlotKeeps DEF manager
<1> QED BY <1>6, <1>7 DEF HandoffLooksForActive

\* A takeover or a resume: the desktop gets the origin of the login stage.
LEMMA DesktopResumesKeeps ==
  ASSUME IInv, NEW g \in Gens, NEW d \in Gens, d = held[g], NEW r \in Gens, r = ref[g],
         pc[g] = "handoff.resume",
         origin' = [origin EXCEPT ![d] = r], StartStreaming(g, held[g], client[r], FALSE),
         UNCHANGED <<background, registry, manager, kind, proc, origins>>
  PROVE  IInv'
<1> DEFINE c == client[r]
<1>1. HandsOf(g)  BY Parts DEF Hands
<1>2. pc[g] \in CarryPcs  BY DEF CarryPcs
<1>3. /\ fate[r] # "live" /\ kind[r] = "login" /\ c \in Clients
      /\ us[g] \in Users /\ authed[r] = us[g] /\ kind[d] = us[g]
  BY <1>1, <1>2 DEF HandsOf
<1>4. held[g] # 0 /\ fate[d] = "live"  BY Parts, RequestsAndWatchers DEF OwnedIsLive
<1>5. /\ st' \in [Clients -> SlotStates] /\ ses' \in [Clients -> 0..MaxGen]
      /\ fate' \in [Gens -> Fates] /\ LocalTypes'
      /\ st'[c] = "Streaming" /\ ses'[c] = held[g] /\ held'[g] = 0
      /\ \A e \in Clients : e # c => st'[e] = st[e] /\ ses'[e] = ses[e]
      /\ \A h \in Gens : h # ses[c] => fate'[h] = fate[h]
      /\ \A h \in Gens : fate'[h] = "live" => fate[h] = "live"
      /\ \A h \in Gens : fate[h] = "none" => fate'[h] = "none"
      /\ pc'[g] \in {"idle", "stopped"}
      /\ \A y \in Tasks : y # g => held'[y] = held[y] /\ (Same(y) \/ HandsOf(y)')
      /\ \A y \in Tasks : pc'[y] \in CarryPcs => y # g /\ pc[y] \in CarryPcs /\ ref'[y] = ref[y]
  BY <1>3, <1>4, StartStreamingEffect
<1>6. /\ origin' \in [Gens -> 0..MaxGen] /\ origin'[d] = r
      /\ \A h \in Gens : h # d => origin'[h] = origin[h]
  <2>1. origin \in [Gens -> 0..MaxGen] /\ ref[g] \in 0..MaxGen  BY Parts DEF TypeOK
  <2> QED BY <2>1
<1>7. TypeOK'  BY <1>5, <1>6, Parts DEF TypeOK, LocalTypes, manager, origins
<1>8. Owned'
  <2>1. client[origin'[held[g]]] = c /\ \A h \in Gens : h # held[g] => origin'[h] = origin[h]
    BY <1>6
  <2>2. \A y \in Tasks : y # g => held'[y] = held[y]  BY <1>5
  <2>3. UNCHANGED <<kind, client, background>>  BY DEF origins
  <2>4. /\ st'[c] \in {"Launched", "Streaming"} /\ ses'[c] = held[g] /\ held'[g] = 0
        /\ \A e \in Clients : e # c => st'[e] = st[e] /\ ses'[e] = ses[e]
        /\ \A h \in Gens : h # ses[c] => fate'[h] = fate[h]
    BY <1>5
  <2>5. TypeOK /\ Owned /\ g \in Tasks /\ c \in Clients /\ held[g] # 0
    BY <1>3, <1>4, Parts, RequestsAndWatchers
  <2> HIDE DEF c
  <2> QED BY <2>1, <2>2, <2>3, <2>4, <2>5, TaskToSlot
<1>9. Descent'
  <2>1. Unborn'  BY <1>5, Parts DEF Unborn, manager
  <2>2. Lineage'
    <3> SUFFICES ASSUME NEW h \in Gens, fate'[h] = "live"
                 PROVE  /\ origin'[h] \in Gens
                        /\ kind[origin'[h]] = "login"
                        /\ client[origin'[h]] \in Clients
                        /\ \/ kind[h] = "login" /\ origin'[h] = h
                           \/ kind[h] \in Users /\ authed[origin'[h]] = kind[h]
      BY DEF Lineage, origins
    <3>1. CASE h = d  BY <1>3, <1>6, <3>1
    <3>2. CASE h # d  BY <1>5, <1>6, <3>2, Parts DEF Lineage
    <3> QED BY <3>1, <3>2
  <2>3. Reported'  BY <1>5, Parts DEF Reported, manager, origins
  <2>4. OneBearer'
    <3>1. \A h \in Gens : fate[h] = "live" => origin[h] # r
      BY <1>2, Parts DEF OneBearer
    <3>2. \A y \in Tasks : y # g /\ pc[y] \in CarryPcs => ref[y] # r
      BY <1>2, Parts DEF OneBearer
    <3>3. \A h, i \in Gens : fate'[h] = "live" /\ fate'[i] = "live" /\ origin'[h] = origin'[i]
            => h = i
      BY <1>5, <1>6, <3>1, Parts DEF OneBearer
    <3>4. \A h \in Gens, y \in Tasks : fate'[h] = "live" /\ pc'[y] \in CarryPcs
            => origin'[h] # ref'[y]
      BY <1>5, <1>6, <3>2, Parts DEF OneBearer
    <3>5. \A x, y \in Tasks : pc'[x] \in CarryPcs /\ pc'[y] \in CarryPcs /\ ref'[x] = ref'[y]
            => x = y
      BY <1>5, Parts DEF OneBearer
    <3> QED BY <3>3, <3>4, <3>5 DEF OneBearer
  <2> QED BY <2>1, <2>2, <2>3, <2>4 DEF Descent
<1>10. Hands'
  <2> SUFFICES ASSUME NEW y \in Tasks, y # g, Same(y) PROVE HandsOf(y)'
    BY <1>5, AtRest DEF Hands
  <2>1. HandsOf(y)  BY Parts DEF Hands
  <2>2. held[y] # 0 => origin'[held[y]] = origin[held[y]]
    <3>1. held[y] # 0 => held[y] \in Gens /\ held[y] # d
      BY <1>4, Parts, SomeSession DEF TypeOK, OneHome
    <3> QED BY <1>6, <3>1
  <2>3. {"launch.register", "launch.insert"} \subseteq HoldPcs  BY DEF HoldPcs
  <2>4. pc[y] \in CarryPcs => ref[y] \in Gens /\ fate'[ref[y]] # "live"
    BY <1>5, <2>1 DEF HandsOf
  <2> QED BY <2>1, <2>2, <2>3, <2>4 DEF HandsOf, Same, origins
<1> QED BY <1>7, <1>8, <1>9, <1>10 DEF IInv

\* handoff_to_user attaches a desktop that existed before, or loses it.
LEMMA HandoffResumesKeeps ==
  ASSUME IInv, NEW g \in Gens, HandoffResumes(g) PROVE IInv'
<1>1. HandsOf(g) /\ pc[g] = "handoff.resume"  BY Parts DEF Hands, HandoffResumes
<1>2. held[g] # 0 /\ ref[g] \in Gens  BY <1>1 DEF HandsOf, HoldPcs, CarryPcs
<1>3. held[g] \in Gens  BY <1>2, Parts, SomeSession DEF TypeOK
<1>4. UNCHANGED <<background, registry, manager, kind, proc, origins>>
  BY DEF HandoffResumes
<1>5. CASE /\ origin' = [origin EXCEPT ![held[g]] = ref[g]]
           /\ StartStreaming(g, held[g], client[ref[g]], FALSE)
  BY <1>1, <1>2, <1>3, <1>4, <1>5, DesktopResumesKeeps
<1>6. CASE fate' = Ended(held[g], "failed") /\ Return(g) /\ UNCHANGED <<slots, origin>>
  <2>1. "failed" \in Fates /\ proc \in [Gens -> ProcStates]  BY Parts DEF Fates, TypeOK
  <2> QED BY <1>4, <1>6, <2>1, EndHeldKeeps
<1> QED BY <1>5, <1>6 DEF HandoffResumes

\* A new desktop with the origin the handoff carries: owned by the task, or failed at once.
LEMMA DesktopSpawnsKeeps ==
  ASSUME IInv, NEW g \in Gens, NEW n \in Gens, n = nextGen, NEW r \in Gens, r = ref[g],
         pc[g] = "handoff.spawn", nextGen' = n + 1,
         kind' = [kind EXCEPT ![n] = us[g]], origin' = [origin EXCEPT ![n] = r],
         proc' = [proc EXCEPT ![n] = "running"],
         fate' \in [Gens -> Fates], \A h \in Gens : h # n => fate'[h] = fate[h],
         LocalTypes', \A y \in Tasks : y # g => Same(y),
         \/ held'[g] = n /\ fate'[n] = "live"
         \/ held'[g] = 0 /\ fate'[n] = "failed",
         pc'[g] \notin CarryPcs, HandsOf(g)',
         UNCHANGED <<slots, background, registry, pending, nextKey, poisoned, origins>>
  PROVE  IInv'
<1>1. HandsOf(g) /\ pc[g] \in CarryPcs  BY Parts DEF Hands, CarryPcs
<1>2. /\ fate[r] # "live" /\ kind[r] = "login" /\ client[r] \in Clients
      /\ us[g] \in Users /\ authed[r] = us[g]
  BY <1>1 DEF HandsOf
<1>3. /\ kind' \in [Gens -> Users \cup {"none", "login"}] /\ kind'[n] = us[g]
      /\ \A h \in Gens : h # n => kind'[h] = kind[h]
  BY <1>2, Parts DEF TypeOK
<1>4. /\ origin' \in [Gens -> 0..MaxGen] /\ origin'[n] = r
      /\ \A h \in Gens : h # n => origin'[h] = origin[h]
  <2>1. origin \in [Gens -> 0..MaxGen] /\ ref[g] \in 0..MaxGen  BY Parts DEF TypeOK
  <2> QED BY <2>1
<1>5. /\ proc' \in [Gens -> ProcStates] /\ proc'[n] = "running"
      /\ \A h \in Gens : h # n => proc'[h] = proc[h]
  <2>1. proc \in [Gens -> ProcStates] /\ "running" \in ProcStates  BY Parts DEF TypeOK, ProcStates
  <2> QED BY <2>1
<1>6. nextGen' \in 1..(MaxGen + 1)  BY ConstantsAssumption DEF ConstantsAssumption
<1>7. TypeOK'  BY <1>3, <1>4, <1>5, <1>6, Parts DEF TypeOK, LocalTypes, slots, origins
<1>8. kind[n] = "none" /\ fate[n] = "none" /\ pending[n] = "none"  BY Parts DEF Unborn
<1>9. r # n /\ "login" \notin Users
  BY <1>2, <1>8, ConstantsAssumption DEF ConstantsAssumption
<1>10. \A h \in Gens : fate[h] = "live" => origin[h] \in Gens /\ origin[h] # n /\ origin[h] # r
  BY <1>1, <1>8, Parts DEF Lineage, OneBearer
<1>11. Owned'
  <2>1. \A y \in Tasks : y # g => held'[y] = held[y]  BY DEF Same
  <2>2. held'[g] = n => fate'[n] = "live"  BY RequestsAndWatchers
  <2>3. client' = client  BY DEF origins
  <2> QED BY <1>3, <1>4, <2>1, <2>2, <2>3, Parts, TaskMakes
<1>12. \A y \in Tasks : pc'[y] \in CarryPcs => y # g /\ pc[y] \in CarryPcs /\ ref'[y] = ref[y]
  BY DEF Same
<1>13. \A y \in Tasks : y # g /\ pc[y] \in CarryPcs => ref[y] # r  BY <1>1, Parts DEF OneBearer
<1>14. Descent'
  <2>1. Unborn'
    <3> SUFFICES ASSUME NEW h \in Gens, h >= nextGen'
                 PROVE  kind'[h] = "none" /\ fate'[h] = "none" /\ pending[h] = "none"
      BY DEF Unborn
    <3>1. h # n /\ h >= n  OBVIOUS
    <3> QED BY <1>3, <3>1, Parts DEF Unborn
  <2>2. Lineage'
    <3> SUFFICES ASSUME NEW h \in Gens, fate'[h] = "live"
                 PROVE  /\ origin'[h] \in Gens
                        /\ kind'[origin'[h]] = "login"
                        /\ client[origin'[h]] \in Clients
                        /\ \/ kind'[h] = "login" /\ origin'[h] = h
                           \/ kind'[h] \in Users /\ authed[origin'[h]] = kind'[h]
      BY DEF Lineage, origins
    <3>1. CASE h = n  BY <1>2, <1>3, <1>4, <1>9, <3>1
    <3>2. CASE h # n  BY <1>3, <1>4, <1>10, <3>2, Parts DEF Lineage
    <3> QED BY <3>1, <3>2
  <2>3. Reported'
    <3> SUFFICES ASSUME NEW h \in Gens, fate'[h] = "live", pending[h] # "none"
                 PROVE  kind'[h] = "login" /\ pending[h] = authed[h]
      BY DEF Reported, origins
    <3>1. h # n  BY <1>8
    <3> QED BY <1>3, <3>1, Parts DEF Reported
  <2>4. OneBearer'
    <3>1. \A h, i \in Gens : fate'[h] = "live" /\ fate'[i] = "live" /\ origin'[h] = origin'[i]
            => h = i
      BY <1>4, <1>10, Parts DEF OneBearer
    <3>2. \A h \in Gens, y \in Tasks : fate'[h] = "live" /\ pc'[y] \in CarryPcs
            => origin'[h] # ref'[y]
      BY <1>4, <1>12, <1>13, Parts DEF OneBearer
    <3>3. \A x, y \in Tasks : pc'[x] \in CarryPcs /\ pc'[y] \in CarryPcs /\ ref'[x] = ref'[y]
            => x = y
      BY <1>12, Parts DEF OneBearer
    <3> QED BY <3>1, <3>2, <3>3 DEF OneBearer
  <2> QED BY <2>1, <2>2, <2>3, <2>4 DEF Descent
<1>15. Hands'
  <2> SUFFICES ASSUME NEW y \in Tasks, y # g PROVE HandsOf(y)'
    BY DEF Hands
  <2> QED BY <1>3, <1>4, Parts, NewSessionHands DEF origins
<1> QED BY <1>7, <1>11, <1>14, <1>15 DEF IInv

\* handoff_to_user makes a new desktop, or fails to.
LEMMA HandoffSpawnsKeeps ==
  ASSUME IInv, NEW g \in Gens, HandoffSpawns(g) PROVE IInv'
<1>1. HandsOf(g) /\ pc[g] = "handoff.spawn"  BY Parts DEF Hands, HandoffSpawns
<1>2. PICK r \in Gens : r = ref[g]  BY <1>1 DEF HandsOf, CarryPcs
<1>3. UNCHANGED <<slots, background, registry, pending, nextKey, poisoned, origins>>
  BY DEF HandoffSpawns
<1>4. fate \in [Gens -> Fates] /\ "failed" \in Fates /\ "live" \in Fates
  BY Parts DEF TypeOK, Fates
<1>5. CASE NewSession(g, us[g], ref[g]) /\ Goto(g, "handoff.start") /\ UNCHANGED <<cl, us, ref, rk>>
  <2>1. PICK n \in Gens : n = nextGen  BY <1>5 DEF NewSession
  <2>2. /\ "handoff.start" \in Pcs
        /\ "handoff.start" \notin ClientPcs \cup LaunchPcs \cup CarryPcs \cup UserWatchPcs
    BY DEF Pcs, WatcherPcs, CarryPcs, UserWatchPcs, ClientPcs, LaunchPcs
  <2>3. /\ pc' \in [Tasks -> Pcs] /\ pc'[g] = "handoff.start"
        /\ \A y \in Tasks : y # g => pc'[y] = pc[y]
    BY <1>5, <2>2, Parts, GotoEffect
  <2>4. /\ held' \in [Tasks -> 0..MaxGen] /\ held'[g] = n
        /\ \A y \in Tasks : y # g => held'[y] = held[y]
    <3>1. held \in [Tasks -> 0..MaxGen] /\ n \in 0..MaxGen
      BY Parts, ConstantsAssumption DEF TypeOK, ConstantsAssumption
    <3> QED BY <1>5, <2>1, <3>1 DEF NewSession
  <2>5. LocalTypes'  BY <1>5, <2>3, <2>4, Parts DEF LocalTypes, TypeOK
  <2>6. \A y \in Tasks : y # g => Same(y)  BY <1>5, <2>3, <2>4 DEF Same
  <2>7. /\ fate' \in [Gens -> Fates] /\ fate'[n] = "live"
        /\ \A h \in Gens : h # n => fate'[h] = fate[h]
    BY <1>4, <1>5, <2>1 DEF NewSession
  <2>8. HandsOf(g)' /\ pc'[g] \notin CarryPcs
    BY <2>2, <2>3, <2>4, RequestsAndWatchers DEF HandsOf, HoldPcs
  <2>9. /\ nextGen' = n + 1 /\ kind' = [kind EXCEPT ![n] = us[g]]
        /\ origin' = [origin EXCEPT ![n] = r] /\ proc' = [proc EXCEPT ![n] = "running"]
    BY <1>2, <1>5, <2>1 DEF NewSession
  <2> QED BY <1>1, <1>2, <1>3, <2>1, <2>4, <2>5, <2>6, <2>7, <2>8, <2>9, DesktopSpawnsKeeps
<1>6. CASE Return(g) /\ UNCHANGED <<nextGen, kind, origin, proc, fate>>
  <2>1. registry' \subseteq Keys /\ poisoned' \in BOOLEAN  BY <1>3, Parts DEF TypeOK
  <2> QED BY <1>3, <1>6, <2>1, ReturnStep
<1>7. CASE /\ nextGen \in Gens /\ nextGen' = nextGen + 1
           /\ kind' = [kind EXCEPT ![nextGen] = us[g]]
           /\ origin' = [origin EXCEPT ![nextGen] = ref[g]]
           /\ proc' = [proc EXCEPT ![nextGen] = "running"]
           /\ fate' = Ended(nextGen, "failed") /\ Return(g)
  <2>1. PICK n \in Gens : n = nextGen  BY <1>7
  <2>2. LocalTypes' /\ pc'[g] \in {"idle", "stopped"} /\ held'[g] = 0
        /\ \A y \in Tasks : y # g => Same(y)
    BY <1>7, Parts, ReturnEffect
  <2>3. /\ fate' \in [Gens -> Fates] /\ fate'[n] = "failed"
        /\ \A h \in Gens : h # n => fate'[h] = fate[h]
    BY <1>4, <1>7, <2>1 DEF Ended
  <2>4. HandsOf(g)' /\ pc'[g] \notin CarryPcs  BY <2>2, AtRest
  <2> QED BY <1>1, <1>2, <1>3, <1>7, <2>1, <2>2, <2>3, <2>4, DesktopSpawnsKeeps
<1> QED BY <1>5, <1>6, <1>7 DEF HandoffSpawns

\* watch_user_session_exit ends what is where the dead desktop was.
LEMMA UserReapsKeeps ==
  ASSUME IInv, NEW g \in Gens, UserReaps(g) PROVE IInv'
<1>1. HandsOf(g) /\ pc[g] = "user.reap"  BY Parts DEF Hands, UserReaps
<1>2. PICK u \in Users : u = kind[g]  BY <1>1 DEF HandsOf, UserWatchPcs
<1>3. UNCHANGED <<manager, kind, origin, proc, origins>>  BY DEF UserReaps
<1>4. LocalTypes' /\ pc'[g] \in {"idle", "stopped"} /\ held'[g] = 0
      /\ \A y \in Tasks : y # g => Same(y)
  BY Parts, ReturnEffect DEF UserReaps
<1>5. \A y \in Tasks : held'[y] = held[y] \/ held'[y] = 0  BY <1>4 DEF Same
<1>6. \A y \in Tasks : pc'[y] \in CarryPcs => pc[y] \in CarryPcs /\ ref'[y] = ref[y]
  BY <1>4, AtRest DEF Same
<1>7. "reaped" \in Fates /\ "reaped" \notin {"live", "none"} /\ 0 \in 0..MaxGen
      /\ "Idle" \in SlotStates
  BY ConstantsAssumption DEF Fates, SlotStates, ConstantsAssumption
<1>8. registry' \subseteq Keys  BY Parts DEF UserReaps, TypeOK
<1>9. ASSUME fate' \in [Gens -> Fates],
             \A h \in Gens : fate'[h] = "live" => fate[h] = "live",
             \A h \in Gens : fate[h] = "none" => fate'[h] = "none",
             st' \in [Clients -> SlotStates], ses' \in [Clients -> 0..MaxGen],
             background' \in [Users -> 0..MaxGen], Owned'
      PROVE  IInv'
  <2>1. TypeOK'  BY <1>3, <1>4, <1>8, <1>9, Parts DEF TypeOK, LocalTypes, manager, origins
  <2>2. Descent'  BY <1>3, <1>6, <1>9, Parts, KeepsDescent DEF manager, origins
  <2>3. Hands'  BY <1>3, <1>4, <1>9, Parts, AtRest, KeepsHands DEF origins
  <2> QED BY <1>9, <2>1, <2>2, <2>3 DEF IInv
<1>10. CASE /\ background' = [background EXCEPT ![u] = 0]
            /\ fate' = Ended(background[u], "reaped") /\ UNCHANGED slots
  <2>1. background \in [Users -> 0..MaxGen]  BY Parts DEF TypeOK
  <2>2. /\ background' \in [Users -> 0..MaxGen] /\ background'[u] = 0
        /\ \A v \in Users : v # u => background'[v] = background[v]
    BY <1>7, <1>10, <2>1
  <2>3. background[u] # 0 => background[u] \in Gens /\ fate[background[u]] = "live"
    BY <2>1, Parts, SomeSession DEF OwnedIsLive
  <2>4. /\ fate' \in [Gens -> Fates]
        /\ \A h \in Gens : h # background[u] => fate'[h] = fate[h]
        /\ \A h \in Gens : fate'[h] = "live" => fate[h] = "live"
        /\ \A h \in Gens : fate[h] = "none" => fate'[h] = "none"
    BY <1>7, <1>10, <2>3, Parts, EndedEffect, EndsTheBorn
  <2>5. \A h \in Gens : fate'[h] # fate[h] =>
          /\ \A d \in Clients : ses'[d] # h
          /\ \A v \in Users : background'[v] # h
          /\ \A y \in Tasks : held'[y] # h
    BY <1>5, <1>10, <2>2, <2>4, Parts, RequestsAndWatchers DEF OneHome, slots
  <2>6. \A c \in Clients : ses'[c] = 0 <=> st'[c] \in {"Idle", "Spawning"}
    BY <1>10, Parts DEF SlotShape, slots
  <2>7. \A v \in Users : background'[v] = background[v] \/ background'[v] = 0  BY <2>2
  <2>8. Owned'  BY <1>3, <1>5, <1>10, <2>5, <2>6, <2>7, Parts, FewerOwned DEF slots, origins
  <2>9. st' \in [Clients -> SlotStates] /\ ses' \in [Clients -> 0..MaxGen]
    BY <1>10, Parts DEF TypeOK, slots
  <2> QED BY <1>9, <2>2, <2>4, <2>8, <2>9
<1>11. ASSUME NEW c \in Clients, st' = [st EXCEPT ![c] = "Idle"], ses' = [ses EXCEPT ![c] = 0],
              fate' = Ended(ses[c], "reaped"), UNCHANGED background
       PROVE  IInv'
  <2>1. st \in [Clients -> SlotStates] /\ ses \in [Clients -> 0..MaxGen]  BY Parts DEF TypeOK
  <2>2. /\ st' \in [Clients -> SlotStates] /\ ses' \in [Clients -> 0..MaxGen]
        /\ st'[c] = "Idle" /\ ses'[c] = 0
        /\ \A d \in Clients : d # c => st'[d] = st[d] /\ ses'[d] = ses[d]
    BY <1>7, <1>11, <2>1
  <2>3. ses[c] # 0 => ses[c] \in Gens /\ fate[ses[c]] = "live"
    BY <2>1, Parts, SomeSession DEF OwnedIsLive
  <2>4. /\ fate' \in [Gens -> Fates]
        /\ \A h \in Gens : h # ses[c] => fate'[h] = fate[h]
        /\ \A h \in Gens : fate'[h] = "live" => fate[h] = "live"
        /\ \A h \in Gens : fate[h] = "none" => fate'[h] = "none"
    BY <1>7, <1>11, <2>3, Parts, EndedEffect, EndsTheBorn
  <2>5. \A h \in Gens : fate'[h] # fate[h] =>
          /\ \A d \in Clients : ses'[d] # h
          /\ \A v \in Users : background'[v] # h
          /\ \A y \in Tasks : held'[y] # h
    BY <1>5, <1>11, <2>2, <2>4, Parts, RequestsAndWatchers DEF OneHome
  <2>6. \A d \in Clients : ses'[d] = 0 <=> st'[d] \in {"Idle", "Spawning"}
    BY <2>2, Parts DEF SlotShape
  <2>7. \A d \in Clients : ses'[d] = ses[d] \/ ses'[d] = 0  BY <2>2
  <2>8. Owned'  BY <1>3, <1>5, <1>11, <2>5, <2>6, <2>7, Parts, FewerOwned DEF origins
  <2>9. background' \in [Users -> 0..MaxGen]  BY <1>11, Parts DEF TypeOK
  <2> QED BY <1>9, <2>2, <2>4, <2>8, <2>9
<1>12. cl[g] \in Clients \cup {"none"}  BY Parts DEF TypeOK
<1> QED BY <1>2, <1>10, <1>11, <1>12 DEF UserReaps, slots

\* A login stage that crashed is taken out of its slot.
LEMMA LoginResetKeeps ==
  ASSUME IInv, NEW g \in Gens, LoginReset(g) PROVE IInv'
<1>1. HandsOf(g) /\ pc[g] = "cancel.take"  BY Parts DEF Hands, LoginReset
<1>2. cl[g] \in Clients  BY <1>1 DEF HandsOf, ClientPcs
<1> QED BY <1>2, CancelTakesKeeps DEF LoginReset

-----------------------------------------------------------------------------
(* The inductive invariant *)

\* At start there is no session, no task is in an operation, and no rikey is registered.
LEMMA InitIInv == Init => IInv
<1> SUFFICES ASSUME Init PROVE IInv
  OBVIOUS
<1>1. MaxGen \in Nat /\ MaxLaunches \in Nat /\ 0 \in 0..MaxGen /\ 0 \in 0..MaxLaunches
  BY ConstantsAssumption DEF ConstantsAssumption
<1>2. /\ \A c \in Clients : st[c] = "Idle" /\ ses[c] = 0
      /\ \A u \in Users : background[u] = 0
      /\ \A x \in Tasks : pc[x] \in {"idle", "none"} /\ held[x] = 0
      /\ \A g \in Gens : kind[g] = "none" /\ fate[g] = "none" /\ pending[g] = "none"
  BY DEF Init
<1>3. TypeOK
  <2>1. "Idle" \in SlotStates /\ "none" \in ProcStates /\ "none" \in Fates
        /\ {"idle", "none"} \subseteq Pcs
    BY DEF SlotStates, ProcStates, Fates, Pcs, RequestPcs, WatcherPcs
  <2>2. st \in [Clients -> SlotStates] /\ ses \in [Clients -> 0..MaxGen]
        /\ background \in [Users -> 0..MaxGen] /\ pending \in [Gens -> Users \cup {"none"}]
    BY <1>1, <2>1 DEF Init
  <2>3. registry \subseteq Keys /\ nextGen \in 1..(MaxGen + 1)
        /\ nextKey \in 1..(MaxLaunches + 1) /\ poisoned \in BOOLEAN
    <3>1. 1 \in 1..(MaxGen + 1) /\ 1 \in 1..(MaxLaunches + 1)  BY <1>1
    <3>2. registry = {} /\ nextGen = 1 /\ nextKey = 1 /\ poisoned = FALSE  BY DEF Init
    <3> QED BY <3>1, <3>2
  <2>4. kind \in [Gens -> Users \cup {"none", "login"}] /\ origin \in [Gens -> 0..MaxGen]
        /\ proc \in [Gens -> ProcStates] /\ fate \in [Gens -> Fates]
    BY <1>1, <2>1 DEF Init
  <2>5. client \in [Gens -> Clients \cup {"none"}] /\ key \in [Gens -> 0..MaxLaunches]
        /\ authed \in [Gens -> Users \cup {"none"}]
    BY <1>1 DEF Init
  <2>6. pc \in [Tasks -> Pcs] /\ held \in [Tasks -> 0..MaxGen]
        /\ cl \in [Tasks -> Clients \cup {"none"}] /\ us \in [Tasks -> Users \cup {"none"}]
        /\ ref \in [Tasks -> 0..MaxGen] /\ rk \in [Tasks -> 0..MaxLaunches]
    BY <1>1, <2>1 DEF Init
  <2> QED BY <2>2, <2>3, <2>4, <2>5, <2>6 DEF TypeOK
<1>4. Owned
  BY <1>2 DEF Owned, SlotShape, OwnedIsLive, OneHome, BackgroundIsTheUsers, SlotIsTheClients
<1>5. {"idle", "none"} \cap CarryPcs = {}  BY DEF CarryPcs
<1>6. Descent  BY <1>2, <1>5 DEF Descent, Unborn, Lineage, Reported, OneBearer
<1>7. Hands
  BY <1>2 DEF Hands, HandsOf, HoldPcs, ClientPcs, LaunchPcs, CarryPcs, UserWatchPcs
<1> QED BY <1>3, <1>4, <1>6, <1>7 DEF IInv

\* The invariant depends on nothing but the variables of the specification.
LEMMA StutterIInv == ASSUME IInv, UNCHANGED vars PROVE IInv'
<1>1. TypeOK'  BY Parts DEF TypeOK, vars
<1>2. Owned'
  BY Parts DEF Owned, SlotShape, OwnedIsLive, OneHome, BackgroundIsTheUsers, SlotIsTheClients, vars
<1>3. Descent'  BY Parts DEF Descent, Unborn, Lineage, Reported, OneBearer, vars
<1>4. Hands'  BY Parts DEF Hands, HandsOf, vars
<1> QED BY <1>1, <1>2, <1>3, <1>4 DEF IInv

\* Every step keeps the invariant: one case per action.
LEMMA NextIInv == IInv /\ [Next]_vars => IInv'
<1> SUFFICES ASSUME IInv, [Next]_vars PROVE IInv'
  OBVIOUS
<1>1. CASE UNCHANGED vars  BY <1>1, StutterIInv
<1>2. ASSUME NEW t \in Requests, Request(t) PROVE IInv'
  <2>1. ASSUME NEW c \in Clients, LaunchArrives(t, c) PROVE IInv'  BY <2>1, LaunchArrivesKeeps
  <2>2. ASSUME NEW c \in Clients, CancelArrives(t, c) PROVE IInv'
    BY <2>2, RequestsAndWatchers, CancelTakesKeeps DEF CancelArrives
  <2>3. ASSUME NEW c \in Clients, PlayArrives(t, c) PROVE IInv'  BY <2>3, PlayArrivesKeeps
  <2>4. ASSUME NEW u \in Users, LogoutArrives(t, u) PROVE IInv'  BY <2>4, LogoutArrivesKeeps
  <2> QED BY <1>2, <2>1, <2>2, <2>3, <2>4 DEF Request
<1>3. ASSUME NEW t \in Requests, Serve(t) PROVE IInv'
  <2>1. CASE LaunchWakes(t)  BY <2>1, LaunchWakesKeeps
  <2>2. CASE LaunchTimesOut(t)  BY <2>2, LaunchTimesOutKeeps
  <2>3. CASE LaunchAdopt(t)  BY <2>3, LaunchAdoptKeeps
  <2>4. CASE LaunchReplace(t)  BY <2>4, LaunchReplaceKeeps
  <2>5. CASE LaunchSpawn(t)  BY <2>5, LaunchSpawnKeeps
  <2>6. CASE LaunchFails(t)  BY <2>6, LaunchFailsKeeps
  <2>7. CASE LaunchRegister(t)  BY <2>7, LaunchRegisterKeeps
  <2>8. CASE LaunchInsert(t)  BY <2>8, LaunchInsertKeeps
  <2>9. CASE CancelReleases(t)  BY <2>9, RequestsAndWatchers, CancelReleasesKeeps
  <2>10. CASE PlayFresh(t)  BY <2>10, PlayFreshKeeps
  <2>11. CASE PlayRetake(t)  BY <2>11, PlayRetakeKeeps
  <2>12. CASE LogoutLooksForActive(t)  BY <2>12, LogoutLooksForActiveKeeps
  <2>13. CASE LogoutTerminates(t)  BY <2>13, LogoutTerminatesKeeps
  <2>14. CASE Panics(t)  BY <2>14, RequestsAndWatchers, PanicsKeeps
  <2> QED BY <1>3, <2>1, <2>2, <2>3, <2>4, <2>5, <2>6, <2>7, <2>8, <2>9, <2>10, <2>11, <2>12,
             <2>13, <2>14 DEF Serve
<1>4. ASSUME NEW g \in Gens, Watch(g) PROVE IInv'
  <2>1. CASE WatchLoginExit(g)  BY <2>1, WatchLoginExitKeeps
  <2>2. CASE LoginReset(g)  BY <2>2, LoginResetKeeps
  <2>15. CASE HandoffTakes(g)  BY <2>15, HandoffTakesKeeps
  <2>3. CASE CancelReleases(g)  BY <2>3, RequestsAndWatchers, CancelReleasesKeeps
  <2>4. CASE HandoffLooksInBackground(g)  BY <2>4, HandoffLooksInBackgroundKeeps
  <2>5. CASE HandoffLooksForActive(g)  BY <2>5, HandoffLooksForActiveKeeps
  <2>6. CASE HandoffDetaches(g)  BY <2>6, HandoffDetachesKeeps
  <2>7. CASE HandoffResumes(g)  BY <2>7, HandoffResumesKeeps
  <2>8. CASE HandoffSpawns(g)  BY <2>8, HandoffSpawnsKeeps
  <2>9. CASE HandoffStreams(g)  BY <2>9, HandoffStreamsKeeps
  <2>10. CASE UserTicks(g)  BY <2>10, UserTicksKeeps
  <2>11. CASE UserLooksInBackground(g)  BY <2>11, UserLooksInBackgroundKeeps
  <2>12. CASE UserAsks(g)  BY <2>12, UserAsksKeeps
  <2>13. CASE UserReaps(g)  BY <2>13, UserReapsKeeps
  <2>14. CASE Panics(g)  BY <2>14, RequestsAndWatchers, PanicsKeeps
  <2> QED BY <1>4, <2>1, <2>2, <2>3, <2>4, <2>5, <2>6, <2>7, <2>8, <2>9, <2>10, <2>11, <2>12,
             <2>13, <2>14, <2>15 DEF Watch
<1>5. ASSUME NEW g \in Gens, Environment(g) PROVE IInv'
  BY <1>5, ProcessDiesKeeps, LoginSucceedsKeeps DEF Environment
<1> QED BY <1>1, <1>2, <1>3, <1>4, <1>5 DEF Next

\* The inductive invariant holds in every reachable state.
LEMMA Invariance == Spec => []IInv
  BY InitIInv, NextIInv, PTL DEF Spec

-----------------------------------------------------------------------------
(* The owner of a Spawning slot *)

OwnerPcs ==
  {"launch.replace", "launch.spawn", "launch.fail", "launch.register", "launch.insert"}

\* A step of x after which every Spawning slot was one before or is x's own, and after
\* which x still owns what it owned, unless its slot is no longer Spawning.
LEMMA OwnersStay ==
  ASSUME SpawningHasOwner, poisoned => poisoned', NEW x \in Tasks,
         \A y \in Requests : y # x => pc'[y] = pc[y] /\ cl'[y] = cl[y],
         \A c \in Clients : st'[c] = "Spawning" =>
           \/ st[c] = "Spawning"
           \/ x \in Requests /\ cl'[x] = c /\ pc'[x] \in OwnerPcs,
         x \in Requests /\ pc[x] \in OwnerPcs =>
           \/ cl'[x] = cl[x] /\ pc'[x] \in OwnerPcs
           \/ \A c \in Clients : c = cl[x] => st'[c] # "Spawning"
  PROVE  SpawningHasOwner'
<1> SUFFICES ASSUME ~poisoned', NEW c \in Clients, st'[c] = "Spawning"
             PROVE  \E t \in Requests : cl'[t] = c /\ pc'[t] \in OwnerPcs
  BY DEF SpawningHasOwner, OwnerPcs
<1>1. CASE st[c] = "Spawning"
  <2>1. PICK t \in Requests : cl[t] = c /\ pc[t] \in OwnerPcs
    BY <1>1 DEF SpawningHasOwner, OwnerPcs
  <2> QED BY <2>1
<1>2. CASE st[c] # "Spawning"  BY <1>2
<1> QED BY <1>1, <1>2

\* A step of a task that owns no slot and makes none Spawning.
LEMMA BystanderStep ==
  ASSUME SpawningHasOwner, poisoned => poisoned', NEW x \in Tasks,
         x \in Requests => pc[x] \notin OwnerPcs,
         \A y \in Requests : y # x => pc'[y] = pc[y] /\ cl'[y] = cl[y],
         \A c \in Clients : st'[c] = "Spawning" => st[c] = "Spawning"
  PROVE  SpawningHasOwner'
  BY OwnersStay

\* What a step does to the places of the other requests, by the ways a task moves on.
LEMMA OthersStay ==
  ASSUME TypeOK, NEW x \in Tasks, NEW y \in Requests, y # x
  PROVE  /\ Return(x) => pc'[y] = pc[y] /\ cl'[y] = cl[y]
         /\ \A label : Goto(x, label) => pc'[y] = pc[y]
         /\ \A v : cl' = [cl EXCEPT ![x] = v] => cl'[y] = cl[y]
         /\ \A g \in Gens : \A c, fresh :
              StartStreaming(x, g, c, fresh) => pc'[y] = pc[y] /\ cl'[y] = cl[y]
<1>1. y \in Tasks /\ y \notin Gens  BY ConstantsAssumption DEF ConstantsAssumption
<1>2. Return(x) => pc'[y] = pc[y] /\ cl'[y] = cl[y]  BY <1>1 DEF Return, Goto, TypeOK
<1>3. \A label : Goto(x, label) => pc'[y] = pc[y]  BY <1>1 DEF Goto, TypeOK
<1>4. \A v : cl' = [cl EXCEPT ![x] = v] => cl'[y] = cl[y]  BY <1>1 DEF TypeOK
<1>5. ASSUME NEW g \in Gens, NEW c, NEW fresh, StartStreaming(x, g, c, fresh)
      PROVE  pc'[y] = pc[y] /\ cl'[y] = cl[y]
  <2>1. y # g  BY <1>1
  <2> QED BY <1>1, <1>5, <2>1 DEF StartStreaming
<1> QED BY <1>2, <1>3, <1>4, <1>5

\* What a step does to the slots.
LEMMA SlotsStay ==
  ASSUME TypeOK, NEW c \in Clients, st'[c] = "Spawning"
  PROVE  /\ UNCHANGED st => st[c] = "Spawning"
         /\ \A d : st' = [st EXCEPT ![d] = "Idle"] => st[c] = "Spawning" /\ c # d
         /\ \A d, x : TakeSlot(d, x) => st[c] = "Spawning" /\ c # d
         /\ \A d, g, state : state # "Spawning" /\ PutSlot(d, state, g)
                               => st[c] = "Spawning" /\ c # d
         /\ \A d, x, g, fresh : StartStreaming(x, g, d, fresh) => st[c] = "Spawning" /\ c # d
  BY DEF TypeOK, TakeSlot, PutSlot, StartStreaming

\* A request that is starting an operation.
LEMMA RequestKeepsOwner ==
  ASSUME TypeOK, SpawningHasOwner, NEW t \in Requests, Request(t) PROVE SpawningHasOwner'
<1>1. pc[t] = "idle" /\ t \in Tasks /\ pc[t] \notin OwnerPcs
  BY DEF Request, LaunchArrives, CancelArrives, PlayArrives, LogoutArrives, OwnerPcs
<1>2. ASSUME NEW c \in Clients, LaunchArrives(t, c) PROVE SpawningHasOwner'
  <2>1. \A y \in Requests : y # t => pc'[y] = pc[y] /\ cl'[y] = cl[y]
    BY <1>1, <1>2, OthersStay DEF LaunchArrives, ClaimSlot
  <2>2. UNCHANGED poisoned /\ cl'[t] = c  BY <1>1, <1>2 DEF LaunchArrives, TypeOK
  <2>3. CASE UNCHANGED slots  BY <1>1, <2>1, <2>2, <2>3, BystanderStep DEF slots
  <2>4. CASE ClaimSlot(t, c)
    <3>1. pc'[t] \in OwnerPcs  BY <1>1, <2>4 DEF ClaimSlot, Goto, OwnerPcs, TypeOK
    <3>2. \A d \in Clients : d # c => st'[d] = st[d]  BY <2>4 DEF ClaimSlot, TypeOK
    <3> QED BY <1>1, <2>1, <2>2, <3>1, <3>2, OwnersStay
  <2> QED BY <1>2, <2>3, <2>4 DEF LaunchArrives
<1>3. ASSUME NEW c \in Clients, CancelArrives(t, c) PROVE SpawningHasOwner'
  <2>1. CancelTakes(t, c)  BY <1>3 DEF CancelArrives
  <2>2. \A y \in Requests : y # t => pc'[y] = pc[y] /\ cl'[y] = cl[y]
    BY <1>1, <2>1, OthersStay DEF CancelTakes
  <2>3. \A d \in Clients : st'[d] = "Spawning" => st[d] = "Spawning"
    BY <2>1, SlotsStay DEF CancelTakes
  <2> QED BY <1>1, <2>1, <2>2, <2>3, BystanderStep DEF CancelTakes, manager
<1>4. ASSUME NEW c \in Clients, PlayArrives(t, c) PROVE SpawningHasOwner'
  <2>2. \A y \in Requests : y # t => pc'[y] = pc[y] /\ cl'[y] = cl[y]
    BY <1>1, <1>4, OthersStay DEF PlayArrives
  <2>3. \A d \in Clients : st'[d] = "Spawning" => st[d] = "Spawning"
    BY <1>4, SlotsStay DEF PlayArrives
  <2> QED BY <1>1, <1>4, <2>2, <2>3, BystanderStep DEF PlayArrives, manager
<1>5. ASSUME NEW u \in Users, LogoutArrives(t, u) PROVE SpawningHasOwner'
  <2>2. \A y \in Requests : y # t => pc'[y] = pc[y] /\ cl'[y] = cl[y]
    BY <1>1, <1>5, OthersStay DEF LogoutArrives
  <2> QED BY <1>1, <1>5, <2>2, BystanderStep DEF LogoutArrives, manager, slots
<1> QED BY <1>2, <1>3, <1>4, <1>5 DEF Request

\* A request in the middle of an operation.
LEMMA ServeKeepsOwner ==
  ASSUME IInv, SpawningHasOwner, NEW t \in Requests, Serve(t) PROVE SpawningHasOwner'
<1>1. t \in Tasks /\ TypeOK /\ HandsOf(t)  BY Parts DEF Hands
<1>2. pc \in [Tasks -> Pcs] /\ cl \in [Tasks -> Clients \cup {"none"}]  BY <1>1 DEF TypeOK
<1>3. CASE LaunchWakes(t)
  <2>1. \A y \in Requests : y # t => pc'[y] = pc[y] /\ cl'[y] = cl[y]
    BY <1>1, <1>3, OthersStay DEF LaunchWakes, ClaimSlot
  <2>2. UNCHANGED <<poisoned, cl>> /\ pc[t] \notin OwnerPcs
    BY <1>3 DEF LaunchWakes, manager, OwnerPcs
  <2>3. CASE UNCHANGED slots  BY <1>1, <2>1, <2>2, <2>3, BystanderStep DEF slots
  <2>4. CASE ClaimSlot(t, cl[t])
    <3>1. pc'[t] \in OwnerPcs  BY <1>2, <1>1, <2>4 DEF ClaimSlot, Goto, OwnerPcs
    <3>2. \A d \in Clients : d # cl[t] => st'[d] = st[d]  BY <1>1, <2>4 DEF ClaimSlot, TypeOK
    <3> QED BY <1>1, <2>1, <2>2, <3>1, <3>2, OwnersStay
  <2> QED BY <1>3, <2>3, <2>4 DEF LaunchWakes
<1>4. CASE LaunchTimesOut(t) \/ LaunchAdopt(t)
  <2>1. pc[t] \notin OwnerPcs /\ Return(t) /\ UNCHANGED <<st, poisoned>>
    BY <1>4 DEF LaunchTimesOut, LaunchAdopt, OwnerPcs, slots, manager
  <2> QED BY <1>1, <2>1, OthersStay, BystanderStep
<1>5. CASE LaunchReplace(t) \/ LaunchRegister(t)
  <2>1. pc'[t] \in OwnerPcs /\ UNCHANGED <<st, poisoned, cl>>
    BY <1>1, <1>2, <1>5 DEF LaunchReplace, LaunchRegister, Goto, OwnerPcs, slots, manager
  <2>2. \A y \in Requests : y # t => pc'[y] = pc[y]
    BY <1>1, <1>5, OthersStay DEF LaunchReplace, LaunchRegister
  <2> QED BY <1>1, <2>1, <2>2, OwnersStay
<1>6. CASE LaunchSpawn(t)
  <2>1. pc'[t] \in OwnerPcs /\ UNCHANGED <<st, poisoned, cl>>
    BY <1>1, <1>2, <1>6 DEF LaunchSpawn, Goto, OwnerPcs, slots
  <2>2. \A y \in Requests : y # t => pc'[y] = pc[y]
    BY <1>1, <1>6, OthersStay DEF LaunchSpawn
  <2> QED BY <1>1, <2>1, <2>2, OwnersStay
<1>7. CASE LaunchFails(t) \/ LaunchInsert(t)
  <2>1. Return(t) /\ UNCHANGED poisoned
    BY <1>7 DEF LaunchFails, LaunchInsert, manager
  <2>2. \A y \in Requests : y # t => pc'[y] = pc[y] /\ cl'[y] = cl[y]
    BY <1>1, <2>1, OthersStay
  <2>3. \A c \in Clients : st'[c] = "Spawning" => st[c] = "Spawning" /\ c # cl[t]
    BY <1>1, <1>7, SlotsStay DEF LaunchFails, LaunchInsert
  <2> QED BY <1>1, <2>1, <2>2, <2>3, OwnersStay
<1>8. CASE CancelReleases(t) \/ LogoutTerminates(t) \/ Panics(t)
  <2>1. Return(t) /\ UNCHANGED <<st, poisoned>>
    BY <1>8 DEF CancelReleases, LogoutTerminates, Panics, slots, manager
  <2>2. \A y \in Requests : y # t => pc'[y] = pc[y] /\ cl'[y] = cl[y]
    BY <1>1, <2>1, OthersStay
  <2>3. poisoned' \/ pc[t] \notin OwnerPcs
    BY <1>8, <2>1 DEF CancelReleases, LogoutTerminates, Panics, OwnerPcs
  <2> QED BY <1>1, <2>1, <2>2, <2>3, BystanderStep DEF SpawningHasOwner
<1>9. CASE PlayFresh(t)
  <2>1. held[t] \in Gens
    BY <1>1, <1>9, SomeSession DEF PlayFresh, HandsOf, HoldPcs, TypeOK
  <2>2. \A y \in Requests : y # t => pc'[y] = pc[y] /\ cl'[y] = cl[y]
    BY <1>1, <1>9, <2>1, OthersStay DEF PlayFresh
  <2>3. \A c \in Clients : st'[c] = "Spawning" => st[c] = "Spawning"
    BY <1>1, <1>9, SlotsStay DEF PlayFresh
  <2> QED BY <1>1, <1>9, <2>2, <2>3, BystanderStep DEF PlayFresh, OwnerPcs, manager
<1>10. CASE PlayRetake(t)
  <2>2. \A y \in Requests : y # t => pc'[y] = pc[y] /\ cl'[y] = cl[y]
    BY <1>1, <1>10, OthersStay DEF PlayRetake
  <2>3. \A c \in Clients : st'[c] = "Spawning" => st[c] = "Spawning"
    BY <1>1, <1>10, SlotsStay DEF PlayRetake
  <2> QED BY <1>1, <1>10, <2>2, <2>3, BystanderStep DEF PlayRetake, OwnerPcs, manager
<1>11. CASE LogoutLooksForActive(t)
  <2>2. \A y \in Requests : y # t => pc'[y] = pc[y] /\ cl'[y] = cl[y]
    BY <1>1, <1>11, OthersStay DEF LogoutLooksForActive
  <2>3. \A c \in Clients : st'[c] = "Spawning" => st[c] = "Spawning"
    BY <1>1, <1>11, SlotsStay DEF LogoutLooksForActive, slots
  <2> QED BY <1>1, <1>11, <2>2, <2>3, BystanderStep DEF LogoutLooksForActive, OwnerPcs, manager
<1> QED BY <1>3, <1>4, <1>5, <1>6, <1>7, <1>8, <1>9, <1>10, <1>11 DEF Serve

\* A watcher owns no slot and makes none Spawning.
LEMMA WatchKeepsOwner ==
  ASSUME IInv, SpawningHasOwner, NEW g \in Gens, Watch(g) PROVE SpawningHasOwner'
<1>1. g \in Tasks /\ g \notin Requests /\ TypeOK /\ HandsOf(g)
  BY Parts, ConstantsAssumption DEF Hands, ConstantsAssumption
<1>2. \A h \in {held[g]} : pc[g] \in HoldPcs => h \in Gens
  BY <1>1, SomeSession DEF HandsOf, TypeOK
<1>3. \A y \in Requests : pc'[y] = pc[y] /\ cl'[y] = cl[y]
  <2> SUFFICES ASSUME NEW y \in Requests PROVE pc'[y] = pc[y] /\ cl'[y] = cl[y]
    OBVIOUS
  <2>1. y # g  BY <1>1
  <2>2. CASE WatchLoginExit(g)  BY <1>1, <2>1, <2>2, OthersStay DEF WatchLoginExit
  <2>3. CASE LoginReset(g)  BY <1>1, <2>1, <2>3, OthersStay DEF LoginReset, CancelTakes
  <2>4. CASE HandoffTakes(g)  BY <1>1, <2>1, <2>4, OthersStay DEF HandoffTakes
  <2>5. CASE CancelReleases(g) \/ Panics(g)
    BY <1>1, <2>1, <2>5, OthersStay DEF CancelReleases, Panics
  <2>6. CASE HandoffLooksInBackground(g) \/ HandoffLooksForActive(g) \/ HandoffDetaches(g)
    BY <1>1, <2>1, <2>6, OthersStay
       DEF HandoffLooksInBackground, HandoffLooksForActive, HandoffDetaches
  <2>7. CASE HandoffResumes(g)
    <3>1. held[g] \in Gens  BY <1>2, <2>7 DEF HandoffResumes, HoldPcs
    <3> QED BY <1>1, <2>1, <2>7, <3>1, OthersStay DEF HandoffResumes
  <2>8. CASE HandoffSpawns(g)  BY <1>1, <2>1, <2>8, OthersStay DEF HandoffSpawns
  <2>9. CASE HandoffStreams(g)
    <3>1. held[g] \in Gens  BY <1>2, <2>9 DEF HandoffStreams, HoldPcs
    <3> QED BY <1>1, <2>1, <2>9, <3>1, OthersStay DEF HandoffStreams
  <2>10. CASE UserTicks(g)  BY <1>1, <2>1, <2>10, OthersStay DEF UserTicks
  <2>11. CASE UserLooksInBackground(g) \/ UserReaps(g)
    BY <1>1, <2>1, <2>11, OthersStay DEF UserLooksInBackground, UserReaps
  <2>12. CASE UserAsks(g)  BY <1>1, <2>1, <2>12, OthersStay DEF UserAsks
  <2> QED BY <2>2, <2>3, <2>4, <2>5, <2>6, <2>7, <2>8, <2>9, <2>10, <2>11, <2>12 DEF Watch
<1>4. ASSUME NEW c \in Clients, st'[c] = "Spawning" PROVE st[c] = "Spawning"
  <2>1. CASE UNCHANGED st  BY <1>4, <2>1
  <2>2. CASE HandoffTakes(g)  BY <1>1, <1>4, <2>2, SlotsStay DEF HandoffTakes, slots
  <2>3. CASE UserReaps(g)  BY <1>1, <1>4, <2>3, SlotsStay DEF UserReaps, slots
  <2>4. CASE LoginReset(g)  BY <1>1, <1>4, <2>4, SlotsStay DEF LoginReset, CancelTakes
  <2>5. CASE HandoffLooksForActive(g)
    BY <1>1, <1>4, <2>5, SlotsStay DEF HandoffLooksForActive, slots
  <2>6. CASE HandoffResumes(g)  BY <1>1, <1>4, <2>6, SlotsStay DEF HandoffResumes, slots
  <2>7. CASE HandoffStreams(g)  BY <1>1, <1>4, <2>7, SlotsStay DEF HandoffStreams
  <2>8. CASE \/ WatchLoginExit(g) \/ CancelReleases(g) \/ HandoffLooksInBackground(g)
             \/ HandoffDetaches(g) \/ HandoffSpawns(g) \/ UserTicks(g)
             \/ UserLooksInBackground(g) \/ UserAsks(g) \/ Panics(g)
    <3>1. UNCHANGED slots
      BY <2>8 DEF WatchLoginExit, CancelReleases, HandoffLooksInBackground, HandoffDetaches,
                  HandoffSpawns, UserTicks, UserLooksInBackground, UserAsks, Panics
    <3> QED BY <2>1, <3>1 DEF slots
  <2> QED BY <2>2, <2>3, <2>4, <2>5, <2>6, <2>7, <2>8 DEF Watch
<1>5. poisoned => poisoned'
  BY DEF Watch, WatchLoginExit, LoginReset, CancelTakes, CancelReleases, HandoffTakes,
         HandoffLooksInBackground, HandoffLooksForActive, HandoffDetaches, HandoffResumes,
         HandoffSpawns, HandoffStreams, UserTicks, UserLooksInBackground, UserAsks, UserReaps,
         Panics, manager
<1> QED BY <1>1, <1>3, <1>4, <1>5, BystanderStep

-----------------------------------------------------------------------------
(* Theorems *)

\* No slot, parking entry or task ever refers to a session, client, user or rikey that does
\* not exist: every lookup in the maps of SessionManager stays inside them.
THEOREM TypeCorrect == Spec => []TypeOK
<1>1. IInv => TypeOK  BY Parts
<1> QED BY <1>1, Invariance, PTL

\* take_active_session, clients.insert, background_sessions.insert and .remove hand every
\* RunningSession from one owner to the next and never leave it with two.
THEOREM SessionsHaveOneHome == Spec => []OneHome
<1>1. IInv => OneHome  BY Parts
<1> QED BY <1>1, Invariance, PTL

\* What is parked under a name is a live desktop of that user.
THEOREM ParkedDesktopsAreTheUsers == Spec => []BackgroundIsTheUsers
<1>1. IInv => BackgroundIsTheUsers  BY Parts
<1> QED BY <1>1, Invariance, PTL

\* Whoever launches, cancels, plays, takes over or logs out in whatever order, a session's
\* origin is always that of the client whose slot it is in, and of no other attached session.
THEOREM FramesAreNotMisdirected == Spec => []FramesReachTheAttachedClient
<1>1. IInv => FramesReachTheAttachedClient
  <2> SUFFICES ASSUME IInv PROVE FramesReachTheAttachedClient
    OBVIOUS
  <2>1. \A c \in Clients : ses[c] # 0 => client[origin[ses[c]]] = c
    BY Parts DEF SlotIsTheClients
  <2> QED BY <2>1 DEF FramesReachTheAttachedClient
<1> QED BY <1>1, Invariance, PTL

\* No client is shown a user's desktop unless that user's password was accepted on the login
\* screen of that client's own launch.
THEOREM NoDesktopWithoutLogin == Spec => []AttachedOnlyAfterLogin
<1>1. IInv => AttachedOnlyAfterLogin
  <2> SUFFICES ASSUME IInv, NEW c \in Clients, IsDesktop(ses[c])
               PROVE  authed[origin[ses[c]]] = kind[ses[c]]
    BY DEF AttachedOnlyAfterLogin
  <2>1. ses[c] \in Gens /\ kind[ses[c]] \in Users  BY DEF IsDesktop
  <2>2. fate[ses[c]] = "live"  BY <2>1, Parts, RequestsAndWatchers DEF OwnedIsLive
  <2> QED BY <2>1, <2>2, Parts, ConstantsAssumption DEF Lineage, ConstantsAssumption
<1> QED BY <1>1, Invariance, PTL

\* However launches of one client race, fail, time out or are cancelled, and whoever else
\* touches the slot meanwhile, a Spawning placeholder is left behind by none of them.
THEOREM SpawningSlotsHaveOwners == Spec => []SpawningHasOwner
<1>1. Init => SpawningHasOwner
  <2> SUFFICES ASSUME Init, NEW c \in Clients PROVE st[c] # "Spawning"
    BY DEF SpawningHasOwner
  <2> QED BY DEF Init
<1>2. IInv /\ SpawningHasOwner /\ [Next]_vars => SpawningHasOwner'
  <2> SUFFICES ASSUME IInv, SpawningHasOwner, [Next]_vars PROVE SpawningHasOwner'
    OBVIOUS
  <2>1. CASE UNCHANGED vars  BY <2>1 DEF SpawningHasOwner, vars
  <2>2. ASSUME NEW t \in Requests, Request(t) \/ Serve(t) PROVE SpawningHasOwner'
    BY <2>2, Parts, RequestKeepsOwner, ServeKeepsOwner
  <2>3. ASSUME NEW g \in Gens, Watch(g) PROVE SpawningHasOwner'
    BY <2>3, WatchKeepsOwner
  <2>4. ASSUME NEW g \in Gens, Environment(g) PROVE SpawningHasOwner'
    <3>1. UNCHANGED <<slots, poisoned, pc, cl>>
      BY <2>4 DEF Environment, ProcessDies, LoginSucceeds, manager, locals
    <3> QED BY <3>1 DEF SpawningHasOwner, slots
  <2> QED BY <2>1, <2>2, <2>3, <2>4 DEF Next
<1> QED BY <1>1, <1>2, Invariance, PTL DEF Spec
=============================================================================
