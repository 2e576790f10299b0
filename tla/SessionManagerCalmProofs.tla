---------------------- MODULE SessionManagerCalmProofs ----------------------
(***************************************************************************)
(* Proofs of what SessionManager promises when the requests of one client  *)
(* or one user do not overlap: no live desktop is lost, a user has one     *)
(* desktop at most, no rikey outlives its session, and what the manager    *)
(* does is what Desktops promises.                                         *)
(*                                                                         *)
(* The code has no lock around launch, cancel, handoff or log-out, only    *)
(* around their single steps.  What the restraint gives instead is that    *)
(* one operation at a time works on a client, and one on a user.  The      *)
(* watchers are not restrained and may act at any point of an operation;   *)
(* the invariant says what each of them may still rely on when it acts.    *)
(***************************************************************************)
EXTENDS SessionManagerKeysProofs, DesktopsRefinement

USE DEF Gens, Tasks

\* Program points after a request, or the watcher of a login stage, has begun an operation
\* on the client cl: launch, cancel, PLAY, handoff.
HandoffPcs == {"handoff.background", "handoff.active", "handoff.detach", "handoff.resume",
               "handoff.spawn", "handoff.start"}
ClaimPcs == {"launch.replace", "launch.spawn", "launch.register", "launch.insert", "launch.fail"}
EmptyPcs == {"play.fresh", "cancel.release"} \cup HandoffPcs
TakePcs == {"handoff.take", "cancel.take"}
ClientOpPcs == ClaimPcs \cup EmptyPcs \cup TakePcs

\* Program points of an operation on the user us.
UserOpPcs == ClaimPcs \cup HandoffPcs \cup {"cancel.release", "logout.active", "logout.terminate"}

\* A session that was taken from its slot is about to be released.
MovePcs == {"launch.replace", "cancel.release"}

\* A task has a login stage that has not streamed yet; who may turn to a client's login stage.
NewLoginPcs == {"launch.register", "launch.insert", "play.fresh"}
StagePcs == {"login.watch", "play.fresh"} \cup TakePcs

\* The watcher of a desktop has seen it somewhere and asks the broker about it.
PollPcs == {"user.ask", "user.reap"}

OpOn(x, c) == pc[x] \in ClientOpPcs /\ cl[x] = c
OpOf(x, u) == pc[x] \in UserOpPcs /\ us[x] = u

CalmRuns == ~Overlap /\ ~AllowConcurrentPerUser /\ "build" \notin Failures

\* Without the build failure the mutex stays sound.
Sound == ~poisoned /\ \A g \in Gens : proc[g] # "lost"

\* What each task has, and what it knows of the slot it works on, of the session it owns,
\* of its user's other desktops and, in a watcher, of what it saw.
Roles(x) ==
  /\ pc[x] \notin {"launch.wait", "launch.adopt", "play.retake"}
  /\ pc[x] \in WatcherPcs => x \in Gens
  /\ pc[x] \notin HoldPcs => held[x] = 0
  /\ pc[x] \in {"none", "user.tick", "user.background"} => cl[x] = "none"

SlotOf(x) ==
  /\ pc[x] \in ClientOpPcs => cl[x] \in Clients
  /\ pc[x] \in ClaimPcs => st[cl[x]] = "Spawning"
  /\ pc[x] \in EmptyPcs => st[cl[x]] = "Idle"
  /\ pc[x] \in TakePcs => st[cl[x]] = "Streaming" /\ kind[ses[cl[x]]] = "login"
  /\ pc[x] = "handoff.take" => HandoffDue(ses[cl[x]])

Carries(x) ==
  /\ pc[x] \in CarryPcs => client[ref[x]] = cl[x]
  /\ pc[x] \in {"play.fresh", "handoff.start"} => client[origin[held[x]]] = cl[x]
  /\ pc[x] \in MovePcs => us[x] = UserOf(held[x])
  /\ pc[x] \in NewLoginPcs => kind[held[x]] = "login"
  /\ pc[x] \in {"handoff.start", "logout.terminate"} => us[x] \in Users /\ kind[held[x]] = us[x]

Knows(x) ==
  /\ pc[x] = "handoff.active" => background[us[x]] = 0
  /\ pc[x] = "handoff.spawn" => \A d \in Gens : ~(fate[d] = "live" /\ kind[d] = us[x])

Polls(x) ==
  /\ pc[x] \in PollPcs \cup {"user.background"} => us[x] = kind[x]
  /\ pc[x] \in PollPcs =>
       /\ ref[x] \in Gens /\ kind[ref[x]] = us[x]
       /\ cl[x] # "none" => ses[cl[x]] \in {0, ref[x]}
       /\ cl[x] = "none" => background[us[x]] \in {0, ref[x]}
  /\ pc[x] = "user.reap" => proc[ref[x]] = "dead"

TaskOK(x) == Roles(x) /\ SlotOf(x) /\ Carries(x) /\ Knows(x) /\ Polls(x)

\* Two tasks that may not be where they are together: both work on one client or on one
\* user, both watch over one login stage, or one moves what the other, a watcher, has asked
\* the broker about.
Clash(p, c, u, q, d, v) ==
  \/ c = d /\ p \in ClientOpPcs /\ q \in ClientOpPcs \cup PollPcs
  \/ c = d /\ p = "login.watch" /\ q \in StagePcs
  \/ u = v /\ u # "none" /\ p \in UserOpPcs /\ q \in UserOpPcs
  \/ u = v /\ p \in MovePcs /\ q \in PollPcs

Exclusive ==
  \A x, y \in Tasks : x # y => ~Clash(pc[x], cl[x], us[x], pc[y], cl[y], us[y])

\* An accepted login, until its handoff begins, is the only thing that happens to its user.
DueAlone ==
  /\ \A g \in Gens : HandoffDue(g) => authed[g] \in Users /\ pending[g] = authed[g]
  /\ \A g, h \in Gens : HandoffDue(g) /\ HandoffDue(h) /\ authed[g] = authed[h] => g = h
  /\ \A g \in Gens, x \in Tasks : HandoffDue(g) /\ pc[x] \in UserOpPcs => us[x] # authed[g]

\* A live desktop is somewhere.
HasHome(g) ==
  \/ \E c \in Clients : ses[c] = g
  \/ background[kind[g]] = g
  \/ \E x \in Tasks : held[x] = g
Homed == \A g \in Gens : fate[g] = "live" /\ IsDesktop(g) => HasHome(g)

\* The watcher of a session starts when the session first streams.
Unwatched ==
  /\ \A g \in Gens : g >= nextGen => pc[g] = "none"
  /\ \A x \in Tasks : pc[x] \in NewLoginPcs \cup {"handoff.start"} => pc[held[x]] = "none"
  /\ \A c \in Clients : st[c] = "Launched" => kind[ses[c]] = "login" /\ pc[ses[c]] = "none"

CInv == /\ CalmRuns /\ Sound /\ (\A x \in Tasks : TaskOK(x)) /\ Exclusive /\ DueAlone
        /\ Homed /\ Unwatched /\ NoDesktopLost /\ OneDesktopPerUser

-----------------------------------------------------------------------------
(***************************************************************************)
(* What a step of one task leaves of the invariant to the others.          *)
(***************************************************************************)

\* What is known of a session that has been made is never unknown again.
Persists ==
  \A g \in Gens : kind[g] # "none" \/ fate[g] # "none" =>
    /\ kind'[g] = kind[g] /\ client'[g] = client[g]
    /\ proc[g] = "dead" => proc'[g] = "dead"
    /\ proc[g] = "ok" /\ kind[g] = "login" => proc'[g] = "ok"

\* Task x changes the slots and the parked desktops only as its operation allows.
RespectsSlots(x) ==
  /\ \A c \in Clients : st'[c] # st[c] \/ ses'[c] # ses[c] => \A y \in Tasks : y # x => ~OpOn(y, c)
  /\ \A c \in Clients : ses'[c] \notin {ses[c], 0} => OpOn(x, c)
  /\ \A u \in Users : background'[u] \notin {background[u], 0} => pc[x] \in MovePcs /\ us[x] = u

\* It makes a desktop only where a handoff found none, and leaves those of others alone.
RespectsSessions(x) ==
  /\ \A d \in Gens : fate'[d] = "live" /\ kind'[d] \in Users =>
       \/ fate[d] = "live" /\ kind[d] = kind'[d]
       \/ d = nextGen /\ pc[x] = "handoff.spawn" /\ us[x] = kind'[d]
  /\ \A y \in Tasks : y # x /\ held[y] # 0 => origin'[held[y]] = origin[held[y]]

Respects(x) == RespectsSlots(x) /\ RespectsSessions(x)

\* At its new program point x clashes with nobody.
Alone(x) ==
  \A y \in Tasks : y # x =>
    /\ ~Clash(pc'[x], cl'[x], us'[x], pc[y], cl[y], us[y])
    /\ ~Clash(pc[y], cl[y], us[y], pc'[x], cl'[x], us'[x])

\* No login becomes due, and x does not turn to a user one is due for.
DuesStay(x) ==
  \A g \in Gens : HandoffDue(g)' =>
    /\ HandoffDue(g) /\ authed'[g] = authed[g] /\ pending'[g] = pending[g]
    /\ pc'[x] \in UserOpPcs => us'[x] # authed[g]

\* x is a request or a watcher that has started; what it is about to attach has none.
WatchersStay(x) ==
  /\ x \in Gens => pc[x] # "none"
  /\ nextGen' \in {nextGen, nextGen + 1}
  /\ pc'[x] \in NewLoginPcs \cup {"handoff.start"} =>
       held'[x] \in Gens /\ held'[x] # x /\ pc[held'[x]] = "none"
  /\ \A c \in Clients : st'[c] = "Launched" =>
       \/ st[c] = "Launched" /\ ses'[c] = ses[c]
       \/ kind'[ses'[c]] = "login" /\ ses'[c] # x /\ ses'[c] \in Gens /\ pc[ses'[c]] = "none"

\* What ends now and is not reported is a login stage or a dead desktop.
LossesStay ==
  \A g \in Gens : fate'[g] \in {"dropped", "discarded", "reaped"} =>
    fate[g] # "none" /\ (fate'[g] = fate[g] \/ kind[g] \notin Users \/ proc[g] = "dead")

\* Generations are numbers, and so is the next one.
LEMMA GenNumbers ==
  ASSUME IInv PROVE nextGen \in Nat /\ Gens \subseteq Nat
<1>1. TypeOK  BY Parts, Zenon
<1>2. nextGen \in 1..(MaxGen + 1)  BY <1>1, Zenon DEF TypeOK
<1>3. MaxGen \in Nat  BY ConstantsAssumption, Zenon DEF ConstantsAssumption
<1> QED BY <1>2, <1>3 DEF Gens

\* The parts of the invariant.
LEMMA CalmParts ==
  ASSUME CInv
  PROVE  /\ CalmRuns /\ Sound /\ Exclusive /\ DueAlone /\ Homed /\ Unwatched
         /\ NoDesktopLost /\ OneDesktopPerUser
         /\ \A x \in Tasks : Roles(x) /\ SlotOf(x) /\ Carries(x) /\ Knows(x) /\ Polls(x)
  BY DEF CInv, TaskOK

\* The same after a step.
LEMMA NextParts ==
  ASSUME IInv'
  PROVE  /\ TypeOK' /\ Owned' /\ Descent' /\ Hands'
         /\ SlotShape' /\ OwnedIsLive' /\ OneHome' /\ BackgroundIsTheUsers' /\ SlotIsTheClients'
         /\ Unborn' /\ Lineage' /\ Reported' /\ OneBearer'
  BY DEF IInv, Owned, Descent

\* The kind of a live session; 0, "none" and "login" are no session and no users.
LEMMA Kinds ==
  ASSUME IInv
  PROVE  /\ \A g \in Gens : fate[g] = "live" => kind[g] = "login" \/ kind[g] \in Users
         /\ \A g \in Gens : fate[g] = "live" => origin[g] \in Gens /\ kind[origin[g]] = "login"
         /\ "none" \notin Users /\ "login" \notin Users /\ "none" \notin Clients /\ 0 \notin Gens
         /\ nextGen \in Gens => fate[nextGen] = "none" /\ kind[nextGen] = "none"
<1>1. nextGen \in Gens => nextGen >= nextGen  BY ConstantsAssumption DEF ConstantsAssumption
<1> QED BY <1>1, Parts, ConstantsAssumption DEF Lineage, Unborn, ConstantsAssumption

\* The program points of operations, by what is said of them.
LEMMA Points ==
  /\ ClaimPcs \subseteq ClientOpPcs /\ EmptyPcs \subseteq ClientOpPcs /\ TakePcs \subseteq ClientOpPcs
  /\ ClaimPcs \subseteq UserOpPcs /\ HandoffPcs \subseteq UserOpPcs /\ HandoffPcs \subseteq EmptyPcs
  /\ CarryPcs \subseteq HandoffPcs /\ MovePcs \subseteq UserOpPcs /\ MovePcs \subseteq ClientOpPcs
  /\ PollPcs \cap ClientOpPcs = {} /\ PollPcs \cap UserOpPcs = {}
  /\ "login.watch" \notin ClientOpPcs \cup UserOpPcs \cup PollPcs
  /\ NewLoginPcs \cup {"handoff.start"} \cup MovePcs \subseteq HoldPcs
  BY DEF ClaimPcs, EmptyPcs, TakePcs, ClientOpPcs, UserOpPcs, HandoffPcs, CarryPcs, MovePcs,
         PollPcs, NewLoginPcs, HoldPcs

\* A desktop in a task's hands is that of the user the task works on.
LEMMA HeldDesktop ==
  ASSUME IInv, CInv, NEW x \in Tasks, held[x] # 0, kind[held[x]] \in Users
  PROVE  OpOf(x, kind[held[x]])
<1>1. pc[x] \in HoldPcs /\ pc[x] # "play.retake"  BY CalmParts DEF Roles
<1>2. pc[x] \notin NewLoginPcs  BY CalmParts, Kinds DEF Carries
<1>3. CASE pc[x] \in MovePcs
  <2>1. us[x] = kind[held[x]]  BY <1>3, CalmParts, Owners DEF Carries, UserOf, IsDesktop
  <2> QED BY <1>3, <2>1, Points DEF OpOf
<1>4. CASE pc[x] \in {"handoff.detach", "handoff.resume"}
  BY <1>4, Parts DEF Hands, HandsOf, OpOf, UserOpPcs, HandoffPcs
<1>5. CASE pc[x] \in {"handoff.start", "logout.terminate"}
  BY <1>5, CalmParts DEF Carries, OpOf, UserOpPcs, HandoffPcs
<1> QED BY <1>1, <1>2, <1>3, <1>4, <1>5 DEF HoldPcs, MovePcs, NewLoginPcs

\* What a task knows survives a step of another one.
LEMMA OthersKnow ==
  ASSUME IInv, CInv, IInv', NEW x \in Tasks, Persists, Respects(x), NEW y \in Tasks, y # x, Same(y)
  PROVE  TaskOK(y)'
<1> USE DEF Same
<1>1. Roles(y)'  BY CalmParts DEF Roles
<1>2. SlotOf(y)'
  <2> SUFFICES ASSUME pc[y] \in ClientOpPcs PROVE SlotOf(y)'
    BY Points DEF SlotOf, TakePcs
  <2> DEFINE c == cl[y]
  <2>1. c \in Clients /\ OpOn(y, c)  BY CalmParts DEF SlotOf, OpOn
  <2>2. st'[c] = st[c] /\ ses'[c] = ses[c]  BY <2>1 DEF Respects, RespectsSlots
  <2>3. CASE pc[y] \notin TakePcs
    BY <2>1, <2>2, <2>3, CalmParts DEF SlotOf, TakePcs
  <2>4. CASE pc[y] \in TakePcs
    <3>1. st[c] = "Streaming" /\ kind[ses[c]] = "login" /\ (pc[y] = "handoff.take" => HandoffDue(ses[c]))
      BY <2>4, CalmParts DEF SlotOf
    <3>2. ses[c] # 0  BY <2>1, <3>1, Parts DEF SlotShape
    <3>3. ses[c] \in Gens /\ fate'[ses[c]] = "live"
      <4>1. ses[c] \in Gens  BY <2>1, <3>2, Owners
      <4>2. ses'[c] # 0 => fate'[ses'[c]] = "live"  BY <2>1, NextParts DEF OwnedIsLive
      <4> QED BY <2>2, <3>2, <4>1, <4>2
    <3>4. kind'[ses[c]] = "login" /\ (proc[ses[c]] = "ok" => proc'[ses[c]] = "ok")
      BY <3>1, <3>3 DEF Persists
    <3>5. pc[y] = "handoff.take" => HandoffDue(ses[c])'
      BY <2>2, <3>1, <3>3, <3>4 DEF HandoffDue
    <3> QED BY <2>1, <2>2, <2>4, <3>1, <3>4, <3>5 DEF SlotOf, TakePcs, ClaimPcs, EmptyPcs, HandoffPcs
  <2> QED BY <2>3, <2>4
<1>3. Carries(y)'
  <2>1. pc[y] \in CarryPcs => client'[ref[y]] = client[ref[y]]
    <3>1. pc[y] \in CarryPcs => ref[y] \in Gens /\ kind[ref[y]] = "login"
      BY Parts DEF Hands, HandsOf
    <3> QED BY <3>1 DEF Persists
  <2>2. held[y] # 0 => /\ kind'[held[y]] = kind[held[y]] /\ origin'[held[y]] = origin[held[y]]
                       /\ client'[origin[held[y]]] = client[origin[held[y]]]
                       /\ UserOf(held[y])' = UserOf(held[y])
    <3> SUFFICES ASSUME held[y] # 0 PROVE <2>2!2
      OBVIOUS
    <3>1. held[y] \in Gens /\ kind[held[y]] # "none" /\ origin[held[y]] \in Gens
          /\ kind[origin[held[y]]] # "none"
      BY Owners, Kinds
    <3>2. /\ kind'[held[y]] = kind[held[y]] /\ origin'[held[y]] = origin[held[y]]
          /\ client'[origin[held[y]]] = client[origin[held[y]]]
      BY <3>1 DEF Persists, Respects, RespectsSessions
    <3> QED BY <3>2 DEF UserOf, IsDesktop
  <2>3. pc[y] \in NewLoginPcs \cup {"handoff.start", "logout.terminate"} \cup MovePcs => held[y] # 0
    BY Points, Owners DEF HoldPcs
  <2> QED BY <2>1, <2>2, <2>3, CalmParts DEF Carries, NewLoginPcs
<1>4. Knows(y)'
  <2>1. ASSUME pc[y] \in {"handoff.active", "handoff.spawn"}
        PROVE  us[y] \in Users /\ \A u \in Users : pc[x] \in UserOpPcs /\ us[x] = us[y] => FALSE
    <3>1. pc[y] \in CarryPcs /\ pc[y] \in UserOpPcs  BY <2>1 DEF CarryPcs, UserOpPcs, HandoffPcs
    <3>2. us[y] \in Users  BY <3>1, Parts DEF Hands, HandsOf
    <3> QED BY <3>1, <3>2, CalmParts, Kinds DEF Exclusive, Clash
  <2>2. ASSUME pc[y] = "handoff.active" PROVE background'[us[y]] = 0
    BY <2>1, <2>2, CalmParts, Points DEF Knows, Respects, RespectsSlots
  <2>3. ASSUME pc[y] = "handoff.spawn", NEW d \in Gens, fate'[d] = "live", kind'[d] = us[y] PROVE FALSE
    <3>1. "handoff.spawn" \in UserOpPcs  BY DEF UserOpPcs, HandoffPcs
    <3> QED BY <2>1, <2>3, <3>1, CalmParts DEF Knows, Respects, RespectsSessions
  <2> QED BY <2>2, <2>3 DEF Knows
<1>5. Polls(y)'
  <2> SUFFICES ASSUME pc[y] \in PollPcs \cup {"user.background"} PROVE Polls(y)'
    BY DEF Polls, PollPcs
  <2>1. y \in Gens /\ kind[y] \in Users /\ us[y] = kind[y]
    BY CalmParts, Parts DEF Polls, PollPcs, Hands, HandsOf, UserWatchPcs
  <2>2. kind'[y] = kind[y]  BY <2>1, Kinds DEF Persists
  <2>3. ASSUME pc[y] \in PollPcs
        PROVE  /\ kind'[ref[y]] = us[y]
               /\ cl[y] # "none" => ses'[cl[y]] \in {0, ref[y]}
               /\ cl[y] = "none" => background'[us[y]] \in {0, ref[y]}
               /\ pc[y] = "user.reap" => proc'[ref[y]] = "dead"
    <3>1. /\ ref[y] \in Gens /\ kind[ref[y]] = us[y]
          /\ cl[y] # "none" => ses[cl[y]] \in {0, ref[y]}
          /\ cl[y] = "none" => background[us[y]] \in {0, ref[y]}
          /\ pc[y] = "user.reap" => proc[ref[y]] = "dead"
      BY <2>3, CalmParts DEF Polls
    <3>2. kind'[ref[y]] = us[y] /\ (pc[y] = "user.reap" => proc'[ref[y]] = "dead")
      BY <2>1, <3>1, Kinds DEF Persists
    <3>3. ASSUME cl[y] # "none" PROVE ses'[cl[y]] \in {0, ref[y]}
      <4>1. cl[y] \in Clients  BY <3>3, Parts DEF TypeOK
      <4>2. ~OpOn(x, cl[y])  BY <2>3, CalmParts DEF Exclusive, Clash, OpOn
      <4> QED BY <3>1, <3>3, <4>1, <4>2 DEF Respects, RespectsSlots
    <3>4. ASSUME cl[y] = "none" PROVE background'[us[y]] \in {0, ref[y]}
      <4>1. ~(pc[x] \in MovePcs /\ us[x] = us[y])  BY <2>3, CalmParts DEF Exclusive, Clash
      <4> QED BY <2>1, <3>1, <3>4, <4>1 DEF Respects, RespectsSlots
    <3> QED BY <3>1, <3>2, <3>3, <3>4
  <2> QED BY <2>1, <2>2, <2>3, CalmParts DEF Polls, PollPcs
<1> QED BY <1>1, <1>2, <1>3, <1>4, <1>5 DEF TaskOK

-----------------------------------------------------------------------------
(* The parts of the invariant under a step, one by one *)

\* A task that turns to nothing new clashes with nobody.
LEMMA NarrowAlone ==
  ASSUME CInv, NEW x \in Tasks,
         pc'[x] \in ClientOpPcs => pc[x] \in ClientOpPcs /\ cl'[x] = cl[x],
         pc'[x] \in UserOpPcs => pc[x] \in UserOpPcs /\ us'[x] = us[x],
         pc'[x] \in MovePcs => pc[x] \in MovePcs,
         pc'[x] \in PollPcs => pc[x] \in PollPcs /\ cl'[x] = cl[x] /\ us'[x] = us[x],
         pc'[x] \in StagePcs => pc[x] \in StagePcs /\ cl'[x] = cl[x],
         pc'[x] = "login.watch" => pc[x] = "login.watch"
  PROVE  Alone(x)
<1> SUFFICES ASSUME NEW y \in Tasks, y # x
             PROVE  /\ ~Clash(pc'[x], cl'[x], us'[x], pc[y], cl[y], us[y])
                    /\ ~Clash(pc[y], cl[y], us[y], pc'[x], cl'[x], us'[x])
  BY DEF Alone
<1>1. ~Clash(pc[x], cl[x], us[x], pc[y], cl[y], us[y]) /\ ~Clash(pc[y], cl[y], us[y], pc[x], cl[x], us[x])
  BY CalmParts DEF Exclusive
<1>2. "login.watch" \in StagePcs /\ MovePcs \subseteq UserOpPcs  BY Points DEF StagePcs
<1> QED BY <1>1, <1>2 DEF Clash

\* A request that arrives when its client and its user are not busy clashes with nobody.
LEMMA ArrivesAlone ==
  ASSUME IInv, CInv, NEW x \in Tasks, NEW c \in Clients \cup {"none"}, NEW u \in Users \cup {"none"},
         cl'[x] = c, us'[x] = u, ~UserBusy(u),
         c # "none" => ~ClientBusy(c),
         pc'[x] \in ClientOpPcs => c # "none",
         pc'[x] \notin PollPcs \cup {"login.watch"},
         pc'[x] \in StagePcs => c # "none" /\ ~Watched(c)
  PROVE  Alone(x) /\ \A g \in Gens : HandoffDue(g) => authed[g] # u
<1>1. ASSUME NEW y \in Tasks, y # x
      PROVE  /\ ~Clash(pc'[x], cl'[x], us'[x], pc[y], cl[y], us[y])
             /\ ~Clash(pc[y], cl[y], us[y], pc'[x], cl'[x], us'[x])
  <2>1. pc[y] \in ClientOpPcs \cup UserOpPcs \cup PollPcs => pc[y] \notin Resting
    BY DEF ClientOpPcs, UserOpPcs, PollPcs, ClaimPcs, EmptyPcs, TakePcs, HandoffPcs, Resting
  <2>2. pc[y] \notin Resting => cl[y] # c \/ c = "none"  BY DEF ClientBusy
  <2>3. pc[y] \notin Resting => us[y] # u \/ u = "none"  BY DEF UserBusy
  <2>4. pc[y] \in PollPcs => us[y] \in Users
    BY CalmParts, Parts DEF Polls, PollPcs, Hands, HandsOf, UserWatchPcs
  <2>5. pc[y] = "login.watch" => pc'[x] \notin StagePcs \/ cl[y] # c
    <3>1. pc[y] = "login.watch" => y \in Gens  BY CalmParts DEF Roles, WatcherPcs
    <3> QED BY <3>1 DEF Watched
  <2>6. pc[y] \in StagePcs \ {"login.watch"} => pc[y] \in ClientOpPcs
    BY DEF StagePcs, ClientOpPcs, TakePcs, EmptyPcs
  <2> QED BY <2>1, <2>2, <2>3, <2>4, <2>5, <2>6, Points, Kinds DEF Clash
<1>2. ASSUME NEW g \in Gens, HandoffDue(g) PROVE authed[g] # u
  BY <1>2, CalmParts, Kinds DEF UserBusy, DueAlone
<1> QED BY <1>1, <1>2 DEF Alone

\* Nobody clashes after a step.
LEMMA ExclusiveStays ==
  ASSUME CInv, NEW x \in Tasks, Alone(x), \A y \in Tasks : y # x => Same(y)
  PROVE  Exclusive'
<1> SUFFICES ASSUME NEW a \in Tasks, NEW b \in Tasks, a # b
             PROVE  ~Clash(pc'[a], cl'[a], us'[a], pc'[b], cl'[b], us'[b])
  BY DEF Exclusive, Clash
<1>1. CASE a = x
  <2>1. Same(b)  BY <1>1
  <2> QED BY <1>1, <2>1 DEF Alone, Same, Clash
<1>2. CASE b = x
  <2>1. Same(a)  BY <1>2
  <2> QED BY <1>2, <2>1 DEF Alone, Same, Clash
<1>3. CASE a # x /\ b # x
  <2>1. Same(a) /\ Same(b)  BY <1>3
  <2>2. ~Clash(pc[a], cl[a], us[a], pc[b], cl[b], us[b])  BY CalmParts DEF Exclusive
  <2> QED BY <2>1, <2>2 DEF Same, Clash
<1> QED BY <1>1, <1>2, <1>3

\* A due login stays the only thing that happens to its user.
LEMMA DueStays ==
  ASSUME CInv, NEW x \in Tasks, DuesStay(x), \A y \in Tasks : y # x => Same(y)
  PROVE  DueAlone'
<1>1. \A g \in Gens : HandoffDue(g)' => authed'[g] \in Users /\ pending'[g] = authed'[g]
  BY CalmParts DEF DueAlone, DuesStay
<1>2. \A g, h \in Gens : HandoffDue(g)' /\ HandoffDue(h)' /\ authed'[g] = authed'[h] => g = h
  BY CalmParts DEF DueAlone, DuesStay
<1>3. ASSUME NEW g \in Gens, NEW y \in Tasks, HandoffDue(g)', pc'[y] \in UserOpPcs
      PROVE  us'[y] # authed'[g]
  <2>1. HandoffDue(g) /\ authed'[g] = authed[g]  BY <1>3 DEF DuesStay
  <2>2. CASE y = x  BY <1>3, <2>1, <2>2 DEF DuesStay
  <2>3. CASE y # x
    <3>1. Same(y)  BY <2>3
    <3> QED BY <1>3, <2>1, <3>1, CalmParts DEF DueAlone, Same
  <2> QED BY <2>2, <2>3
<1> QED BY <1>1, <1>2, <1>3 DEF DueAlone

\* A user's only desktop stays the only one: a new one is made where there is none.
LEMMA OneDesktopStays ==
  ASSUME IInv, CInv, NEW x \in Tasks, Persists, RespectsSessions(x)
  PROVE  OneDesktopPerUser'
<1> SUFFICES ASSUME NEW g \in Gens, NEW h \in Gens, kind'[g] \in Users, kind'[g] = kind'[h],
                    fate'[g] = "live", fate'[h] = "live"
             PROVE  g = h
  BY DEF OneDesktopPerUser, IsDesktop
<1>1. /\ \/ fate[g] = "live" /\ kind[g] = kind'[g]
         \/ g = nextGen /\ pc[x] = "handoff.spawn" /\ us[x] = kind'[g]
      /\ \/ fate[h] = "live" /\ kind[h] = kind'[h]
         \/ h = nextGen /\ pc[x] = "handoff.spawn" /\ us[x] = kind'[h]
  BY DEF RespectsSessions
<1>2. pc[x] = "handoff.spawn" => \A d \in Gens : ~(fate[d] = "live" /\ kind[d] = us[x])
  BY CalmParts DEF Knows
<1> QED BY <1>1, <1>2, CalmParts DEF OneDesktopPerUser, IsDesktop

\* No live desktop is lost by a step that ends none.
LEMMA NoneLost ==
  ASSUME CInv, Persists, LossesStay
  PROVE  NoDesktopLost'
<1> SUFFICES ASSUME NEW g \in Gens, kind'[g] \in Users, fate'[g] \in {"dropped", "discarded", "reaped"}
             PROVE  proc'[g] = "dead"
  BY DEF NoDesktopLost, IsDesktop
<1>1. kind'[g] = kind[g] /\ (proc[g] = "dead" => proc'[g] = "dead")  BY DEF LossesStay, Persists
<1>2. fate'[g] = fate[g] => proc[g] = "dead"
  BY <1>1, CalmParts DEF NoDesktopLost, IsDesktop
<1> QED BY <1>1, <1>2 DEF LossesStay

\* No session gets a watcher before it streams.
LEMMA UnwatchedStays ==
  ASSUME IInv, CInv, IInv', NEW x \in Tasks, Persists, WatchersStay(x),
         \A y \in Tasks : y # x => Same(y)
  PROVE  Unwatched'
<1>1. nextGen \in Nat /\ nextGen' \in Nat /\ Gens \subseteq Nat
  BY GenNumbers DEF WatchersStay
<1>2. x \in Gens => x < nextGen'
  BY <1>1, CalmParts DEF Unwatched, WatchersStay
<1>3. \A g \in Gens : g >= nextGen' => pc'[g] = "none"
  <2> SUFFICES ASSUME NEW g \in Gens, g >= nextGen' PROVE pc'[g] = "none"
    OBVIOUS
  <2>1. g # x /\ g >= nextGen  BY <1>1, <1>2 DEF WatchersStay
  <2>2. Same(g)  BY <2>1
  <2> QED BY <2>1, <2>2, CalmParts DEF Unwatched, Same
<1>4. \A y \in Tasks : pc'[y] \in NewLoginPcs \cup {"handoff.start"} => pc'[held'[y]] = "none"
  <2> SUFFICES ASSUME NEW y \in Tasks, pc'[y] \in NewLoginPcs \cup {"handoff.start"}
               PROVE  pc'[held'[y]] = "none"
    OBVIOUS
  <2>1. held'[y] \in Gens /\ held'[y] # x /\ pc[held'[y]] = "none"
    <3>1. CASE y = x  BY <3>1 DEF WatchersStay
    <3>2. CASE y # x
      <4>1. pc[y] = pc'[y] /\ held[y] = held'[y]  BY <3>2 DEF Same
      <4>2. held[y] \in Gens  BY <4>1, Points, Owners
      <4>3. pc[held[y]] = "none"  BY <4>1, CalmParts DEF Unwatched
      <4> QED BY <4>1, <4>2, <4>3 DEF WatchersStay
    <3> QED BY <3>1, <3>2
  <2>2. Same(held'[y])  BY <2>1
  <2> QED BY <2>1, <2>2 DEF Same
<1>5. \A c \in Clients : st'[c] = "Launched" => kind'[ses'[c]] = "login" /\ pc'[ses'[c]] = "none"
  <2> SUFFICES ASSUME NEW c \in Clients, st'[c] = "Launched"
               PROVE  kind'[ses'[c]] = "login" /\ pc'[ses'[c]] = "none"
    OBVIOUS
  <2>1. kind'[ses'[c]] = "login" /\ ses'[c] \in Gens /\ ses'[c] # x /\ pc[ses'[c]] = "none"
    <3>1. CASE st[c] = "Launched" /\ ses'[c] = ses[c]
      <4>1. ses[c] # 0  BY <3>1, Parts DEF SlotShape
      <4>2. ses[c] \in Gens  BY <4>1, Owners
      <4>3. kind[ses[c]] = "login" /\ pc[ses[c]] = "none"  BY <3>1, CalmParts DEF Unwatched
      <4> QED BY <3>1, <4>2, <4>3 DEF Persists, WatchersStay
    <3>2. CASE ~(st[c] = "Launched" /\ ses'[c] = ses[c])  BY <3>2 DEF WatchersStay
    <3> QED BY <3>1, <3>2
  <2>2. Same(ses'[c])  BY <2>1
  <2> QED BY <2>1, <2>2 DEF Same
<1> QED BY <1>3, <1>4, <1>5 DEF Unwatched

\* A step of x, put together.
LEMMA CalmStep ==
  ASSUME IInv, CInv, IInv', NEW x \in Tasks, Persists, Respects(x), Alone(x), DuesStay(x),
         WatchersStay(x), LossesStay, Sound', Homed', TaskOK(x)',
         \A y \in Tasks : y # x => Same(y)
  PROVE  CInv'
<1>1. \A y \in Tasks : TaskOK(y)'  BY OthersKnow
<1>2. CalmRuns'  BY CalmParts DEF CalmRuns
<1>3. Exclusive' /\ DueAlone' /\ Unwatched'  BY ExclusiveStays, DueStays, UnwatchedStays
<1>4. NoDesktopLost' /\ OneDesktopPerUser'  BY NoneLost, OneDesktopStays DEF Respects
<1> QED BY <1>1, <1>2, <1>3, <1>4 DEF CInv

-----------------------------------------------------------------------------
(* What most steps have in common *)

\* A step that makes, ends and changes no session.
LEMMA SessionsStay ==
  ASSUME CInv, NEW x \in Tasks, UNCHANGED <<kind, client, origin, proc, fate, poisoned>>
  PROVE  Persists /\ RespectsSessions(x) /\ LossesStay /\ Sound'
<1>1. Persists /\ RespectsSessions(x)  BY DEF Persists, RespectsSessions
<1>2. LossesStay  BY DEF LossesStay
<1>3. Sound'  BY CalmParts DEF Sound
<1> QED BY <1>1, <1>2, <1>3

\* A step that ends one session, in a way that is reported unless it is no live desktop.
LEMMA SessionEnds ==
  ASSUME IInv, CInv, NEW x \in Tasks, UNCHANGED <<kind, client, origin, proc, poisoned>>,
         NEW g, NEW how, how \notin {"live", "none"}, fate' = Ended(g, how),
         g \in Gens => fate[g] = "live",
         g \in Gens /\ how \in {"dropped", "discarded", "reaped"} => kind[g] \notin Users \/ proc[g] = "dead"
  PROVE  Persists /\ RespectsSessions(x) /\ LossesStay /\ Sound'
<1>1. \A h \in Gens : fate'[h] = IF h = g THEN how ELSE fate[h]  BY DEF Ended
<1>2. Persists  BY DEF Persists
<1>3. RespectsSessions(x)  BY <1>1 DEF RespectsSessions
<1>4. LossesStay  BY <1>1 DEF LossesStay
<1>5. Sound'  BY CalmParts DEF Sound
<1> QED BY <1>2, <1>3, <1>4, <1>5

\* A step after which a login that is due was due, and which turns to no new user.
LEMMA DuesNarrow ==
  ASSUME CInv, NEW x \in Tasks, UNCHANGED <<kind, proc, authed>>,
         \A g \in Gens : fate'[g] = "live" => fate[g] = "live" /\ pending'[g] = pending[g],
         pc'[x] \in UserOpPcs => pc[x] \in UserOpPcs /\ us'[x] = us[x]
  PROVE  DuesStay(x)
<1> SUFFICES ASSUME NEW g \in Gens, HandoffDue(g)'
             PROVE  /\ HandoffDue(g) /\ authed'[g] = authed[g] /\ pending'[g] = pending[g]
                    /\ pc'[x] \in UserOpPcs => us'[x] # authed[g]
  BY DEF DuesStay
<1>1. HandoffDue(g) /\ authed'[g] = authed[g] /\ pending'[g] = pending[g]  BY DEF HandoffDue
<1> QED BY <1>1, CalmParts DEF DueAlone

\* A watcher that acts has started.
LEMMA WatchersNarrow ==
  ASSUME IInv, CInv, NEW x \in Tasks, pc[x] # "none", nextGen' = nextGen,
         pc'[x] \in NewLoginPcs \cup {"handoff.start"} =>
           pc[x] \in NewLoginPcs \cup {"handoff.start"} /\ held'[x] = held[x],
         \A c \in Clients : st'[c] = "Launched" => st[c] = "Launched" /\ ses'[c] = ses[c]
  PROVE  WatchersStay(x)
<1>1. pc[x] \in NewLoginPcs \cup {"handoff.start"} => held[x] \in Gens /\ pc[held[x]] = "none"
  BY CalmParts, Points, Owners DEF Unwatched
<1> QED BY <1>1 DEF WatchersStay

\* A task whose operation is over.
LEMMA RestCalm ==
  ASSUME CInv, NEW x \in Tasks, pc'[x] = Rest(x), held'[x] = 0
  PROVE  /\ TaskOK(x)' /\ Alone(x)
         /\ pc'[x] \notin UserOpPcs \cup NewLoginPcs \cup {"handoff.start"} \cup MovePcs
<1>0. pc'[x] \in {"idle", "stopped"}  BY RestPcs
<1>1. pc'[x] \notin ClientOpPcs \cup UserOpPcs \cup PollPcs \cup StagePcs \cup NewLoginPcs \cup MovePcs
      /\ pc'[x] \notin CarryPcs \cup TakePcs \cup ClaimPcs \cup EmptyPcs
  BY <1>0 DEF ClientOpPcs, UserOpPcs, PollPcs, StagePcs, NewLoginPcs, MovePcs, CarryPcs, TakePcs,
         ClaimPcs, EmptyPcs, HandoffPcs
<1>2. Alone(x)  BY <1>0, <1>1, NarrowAlone
<1>3. Roles(x)'
  <2>1. pc'[x] \in WatcherPcs => pc'[x] = "stopped"  BY <1>0 DEF WatcherPcs
  <2>2. pc'[x] = "stopped" => x \in Gens  BY DEF Rest
  <2> QED BY <1>0, <2>1, <2>2 DEF Roles
<1>4. SlotOf(x)' /\ Carries(x)' /\ Knows(x)' /\ Polls(x)'
  BY <1>0, <1>1 DEF SlotOf, Carries, Knows, Polls
<1> QED BY <1>0, <1>1, <1>2, <1>3, <1>4 DEF TaskOK

\* The session g, if it is still alive, is somewhere after the step.
Kept(g) ==
  \/ fate'[g] # "live"
  \/ \E c \in Clients : ses'[c] = g
  \/ background'[kind[g]] = g
  \/ \E y \in Tasks : held'[y] = g

\* Live desktops stay somewhere when whatever had one passes it on.
LEMMA HomesStay ==
  ASSUME IInv, CInv,
         \A g \in Gens : fate'[g] = "live" /\ kind'[g] \in Users =>
           HasHome(g)' \/ (fate[g] = "live" /\ kind'[g] = kind[g]),
         \A c \in Clients : ses[c] # 0 /\ IsDesktop(ses[c]) => Kept(ses[c]),
         \A u \in Users : background[u] # 0 => Kept(background[u]),
         \A y \in Tasks : held[y] # 0 => Kept(held[y])
  PROVE  Homed'
<1> SUFFICES ASSUME NEW g \in Gens, fate'[g] = "live", kind'[g] \in Users,
                    fate[g] = "live", kind'[g] = kind[g]
             PROVE  HasHome(g)'
  BY DEF Homed, IsDesktop
<1>1. HasHome(g)  BY CalmParts DEF Homed, IsDesktop
<1>2. g # 0  BY Kinds
<1>3. Kept(g)  BY <1>1, <1>2 DEF HasHome, IsDesktop
<1> QED BY <1>3 DEF Kept, HasHome

\* A step of x in which no session moves, ends or is made.
LEMMA QuietStep ==
  ASSUME IInv, CInv, IInv', NEW x \in Tasks, pc[x] # "none",
         UNCHANGED <<slots, background, pending, nextGen, poisoned, kind, origin, proc, fate,
                     client, authed>>,
         held'[x] = held[x] \/ held[x] = 0,
         \A y \in Tasks : y # x => Same(y),
         Alone(x), TaskOK(x)',
         pc'[x] \in UserOpPcs => pc[x] \in UserOpPcs /\ us'[x] = us[x],
         pc'[x] \in NewLoginPcs \cup {"handoff.start"} =>
           pc[x] \in NewLoginPcs \cup {"handoff.start"} /\ held'[x] = held[x]
  PROVE  CInv'
<1>1. Persists /\ RespectsSessions(x) /\ LossesStay /\ Sound'  BY SessionsStay
<1>2. st' = st /\ ses' = ses  BY DEF slots
<1>3. RespectsSlots(x)  BY <1>2 DEF RespectsSlots
<1>4. DuesStay(x)  BY DuesNarrow
<1>5. WatchersStay(x)  BY <1>2, WatchersNarrow
<1>6. Homed'
  <2>1. \A y \in Tasks : held[y] # 0 => held'[y] = held[y]  BY DEF Same
  <2>2. /\ \A c \in Clients : ses[c] # 0 /\ IsDesktop(ses[c]) => Kept(ses[c])
        /\ \A y \in Tasks : held[y] # 0 => Kept(held[y])
    BY <1>2, <2>1 DEF Kept
  <2>3. \A u \in Users : background[u] # 0 => Kept(background[u])
    BY Parts DEF Kept, BackgroundIsTheUsers
  <2> QED BY <2>2, <2>3, HomesStay
<1> QED BY <1>1, <1>3, <1>4, <1>5, <1>6, CalmStep DEF Respects

\* A step in which x returns with empty hands and nothing else happens.
LEMMA QuietReturn ==
  ASSUME IInv, CInv, IInv', NEW x \in Tasks, pc[x] # "none", Return(x), held[x] = 0,
         UNCHANGED <<slots, background, pending, nextGen, poisoned, kind, origin, proc, fate,
                     client, authed>>
  PROVE  CInv'
<1>1. pc'[x] = Rest(x) /\ held'[x] = 0  BY Parts DEF Return, Goto, TypeOK
<1>2. \A y \in Tasks : y # x => Same(y)  BY Parts, ReturnEffect
<1> QED BY <1>1, <1>2, RestCalm, QuietStep

\* x goes on with the same variables to a point where it clashes with nobody.
LEMMA GoesOn ==
  ASSUME IInv, NEW x \in Tasks, NEW label, Goto(x, label), UNCHANGED <<held, cl, us, ref, rk>>
  PROVE  /\ pc'[x] = label /\ held'[x] = held[x] /\ cl'[x] = cl[x] /\ us'[x] = us[x]
         /\ ref'[x] = ref[x] /\ \A y \in Tasks : y # x => Same(y)
  BY Parts DEF Goto, TypeOK, Same

-----------------------------------------------------------------------------
(* Steps that move no session *)

\* A /launch that registers its rikey moves no session and only goes on to attach its own.
LEMMA LaunchRegisterCalm ==
  ASSUME IInv, CInv, IInv', NEW t \in Requests, LaunchRegister(t) PROVE CInv'
<1> DEFINE x == t
<1>1. x \in Tasks /\ pc[x] = "launch.register"  BY DEF LaunchRegister
<1>2. /\ UNCHANGED <<slots, background, pending, nextGen, poisoned, kind, origin, proc, fate,
                     client, authed, held, cl, us, ref, rk>>
      /\ Goto(x, "launch.insert")
  BY DEF LaunchRegister, manager, origins
<1>3. /\ pc'[x] = "launch.insert" /\ held'[x] = held[x] /\ cl'[x] = cl[x] /\ us'[x] = us[x]
      /\ \A y \in Tasks : y # x => Same(y)
  BY <1>1, <1>2, GoesOn
<1>4. Alone(x)
  BY <1>1, <1>3, NarrowAlone DEF ClientOpPcs, ClaimPcs, UserOpPcs, MovePcs, PollPcs, StagePcs, TakePcs
<1>5. TaskOK(x)'
  <2>1. Roles(x) /\ SlotOf(x) /\ Carries(x)  BY <1>1, CalmParts
  <2>2. Roles(x)'  BY <1>3, <2>1 DEF Roles, WatcherPcs, HoldPcs
  <2>3. SlotOf(x)'
    BY <1>1, <1>2, <1>3, <2>1 DEF SlotOf, ClientOpPcs, ClaimPcs, EmptyPcs, TakePcs, HandoffPcs, slots
  <2>4. Carries(x)'
    BY <1>1, <1>2, <1>3, <2>1 DEF Carries, CarryPcs, MovePcs, NewLoginPcs
  <2>5. Knows(x)' /\ Polls(x)'  BY <1>3 DEF Knows, Polls, PollPcs
  <2> QED BY <2>2, <2>3, <2>4, <2>5 DEF TaskOK
<1>6. "launch.register" \in NewLoginPcs \cap UserOpPcs  BY DEF NewLoginPcs, UserOpPcs, ClaimPcs
<1> QED BY <1>1, <1>2, <1>3, <1>4, <1>5, <1>6, QuietStep

\* A handoff that has the desktop only stops its pipeline: the desktop stays in its hands.
LEMMA HandoffDetachesCalm ==
  ASSUME IInv, CInv, IInv', NEW x \in Gens, HandoffDetaches(x) PROVE CInv'
<1>1. x \in Tasks /\ pc[x] = "handoff.detach"  BY DEF HandoffDetaches
<1>2. /\ UNCHANGED <<slots, background, pending, nextGen, poisoned, kind, origin, proc, fate,
                     client, authed, held, cl, us, ref, rk>>
      /\ Goto(x, "handoff.resume")
  BY DEF HandoffDetaches, manager, origins
<1>3. /\ pc'[x] = "handoff.resume" /\ held'[x] = held[x] /\ cl'[x] = cl[x] /\ us'[x] = us[x]
      /\ ref'[x] = ref[x] /\ \A y \in Tasks : y # x => Same(y)
  BY <1>1, <1>2, GoesOn
<1>4. Alone(x)
  BY <1>1, <1>3, NarrowAlone
     DEF ClientOpPcs, EmptyPcs, HandoffPcs, UserOpPcs, MovePcs, PollPcs, StagePcs, TakePcs
<1>5. TaskOK(x)'
  <2>1. Roles(x) /\ SlotOf(x) /\ Carries(x)  BY <1>1, CalmParts
  <2>2. Roles(x)'  BY <1>3, <2>1 DEF Roles, WatcherPcs, HoldPcs
  <2>3. SlotOf(x)'
    BY <1>1, <1>2, <1>3, <2>1 DEF SlotOf, ClientOpPcs, ClaimPcs, EmptyPcs, TakePcs, HandoffPcs, slots
  <2>4. Carries(x)'
    BY <1>1, <1>2, <1>3, <2>1 DEF Carries, CarryPcs, MovePcs, NewLoginPcs
  <2>5. Knows(x)' /\ Polls(x)'  BY <1>3 DEF Knows, Polls, PollPcs
  <2> QED BY <2>2, <2>3, <2>4, <2>5 DEF TaskOK
<1>6. "handoff.detach" \in UserOpPcs /\ "handoff.resume" \notin NewLoginPcs
  BY DEF NewLoginPcs, UserOpPcs, HandoffPcs
<1> QED BY <1>1, <1>2, <1>3, <1>4, <1>5, <1>6, QuietStep

\* Nobody moves a user's desktop that a watcher finds attached or parked.
LEMMA FoundAlone ==
  ASSUME IInv, CInv, NEW x \in Tasks, NEW d \in Gens, fate[d] = "live", kind[d] \in Users,
         \A y \in Tasks : held[y] # d,
         pc'[x] = "user.ask", us'[x] = kind[d],
         cl'[x] = "none" \/ (cl'[x] \in Clients /\ ses[cl'[x]] = d)
  PROVE  Alone(x)
<1> SUFFICES ASSUME NEW y \in Tasks, y # x
             PROVE  /\ ~Clash(pc'[x], cl'[x], us'[x], pc[y], cl[y], us[y])
                    /\ ~Clash(pc[y], cl[y], us[y], pc'[x], cl'[x], us'[x])
  BY DEF Alone
<1>1. pc[y] \in ClientOpPcs => cl[y] # cl'[x]
  <2> SUFFICES ASSUME pc[y] \in ClientOpPcs, cl[y] = cl'[x] PROVE FALSE
    OBVIOUS
  <2>1. cl[y] \in Clients /\ SlotOf(y)  BY CalmParts DEF SlotOf
  <2>2. ses[cl[y]] = d /\ d # 0  BY <2>1, Kinds
  <2>3. st[cl[y]] \notin {"Spawning", "Idle"}  BY <2>1, <2>2, Parts DEF SlotShape
  <2>4. pc[y] \in TakePcs  BY <2>1, <2>3 DEF SlotOf, ClientOpPcs
  <2> QED BY <2>1, <2>2, <2>4, Kinds DEF SlotOf
<1>2. pc[y] \in MovePcs => us[y] # kind[d]
  <2> SUFFICES ASSUME pc[y] \in MovePcs, us[y] = kind[d] PROVE FALSE
    OBVIOUS
  <2>1. held[y] # 0 /\ us[y] = UserOf(held[y])  BY Points, Owners, CalmParts DEF Carries
  <2>2. held[y] \in Gens /\ fate[held[y]] = "live"  BY <2>1, Owners
  <2>3. kind[held[y]] = kind[d]  BY <2>1, Kinds DEF UserOf
  <2> QED BY <2>2, <2>3, CalmParts DEF OneDesktopPerUser, IsDesktop
<1>3. /\ "user.ask" \in PollPcs
      /\ "user.ask" \notin ClientOpPcs \cup StagePcs \cup UserOpPcs \cup MovePcs \cup {"login.watch"}
  BY DEF ClientOpPcs, ClaimPcs, EmptyPcs, TakePcs, HandoffPcs, StagePcs, UserOpPcs, MovePcs, PollPcs
<1> QED BY <1>1, <1>2, <1>3 DEF Clash

\* A desktop's watcher that finds its user's desktop attached asks the broker about that one,
\* and about nothing that another task moves.
LEMMA UserTicksCalm ==
  ASSUME IInv, CInv, IInv', NEW x \in Gens, UserTicks(x) PROVE CInv'
<1> DEFINE attached == {c \in Clients : st[c] = "Streaming" /\ UserOf(ses[c]) = kind[x]}
<1>1. x \in Tasks /\ pc[x] = "user.tick" /\ kind[x] \in Users
  BY Parts DEF UserTicks, Hands, HandsOf, UserWatchPcs
<1>2. /\ UNCHANGED <<slots, background, pending, nextGen, poisoned, kind, origin, proc, fate,
                     client, authed, held, rk>>
      /\ us' = [us EXCEPT ![x] = kind[x]]
      /\ \/ \E c \in attached : /\ cl' = [cl EXCEPT ![x] = c]
                                /\ ref' = [ref EXCEPT ![x] = ses[c]]
                                /\ Goto(x, "user.ask")
         \/ Goto(x, "user.background") /\ UNCHANGED <<cl, ref>>
  BY DEF UserTicks, manager, origins
<1>3. held[x] = 0 /\ held'[x] = 0 /\ us'[x] = kind[x] /\ cl[x] = "none"
  BY <1>1, <1>2, Parts, CalmParts DEF Roles, HoldPcs, TypeOK
<1>4. \A y \in Tasks : y # x => Same(y)  BY <1>1, <1>2, Parts DEF Same, Goto, TypeOK
<1>5. ASSUME NEW c \in attached, cl' = [cl EXCEPT ![x] = c], ref' = [ref EXCEPT ![x] = ses[c]],
             Goto(x, "user.ask")
      PROVE  Alone(x) /\ TaskOK(x)' /\ pc'[x] = "user.ask"
  <2>1. pc'[x] = "user.ask" /\ cl'[x] = c /\ ref'[x] = ses[c]
    BY <1>1, <1>5, Parts DEF Goto, TypeOK
  <2>2. c \in Clients /\ ses[c] \in Gens /\ kind[ses[c]] = kind[x]
    BY <1>1, <1>5, Kinds DEF UserOf, IsDesktop
  <2>3. fate[ses[c]] = "live" /\ ses[c] # 0 /\ \A y \in Tasks : held[y] # ses[c]
    BY <2>2, Owners, Kinds, Parts DEF OneHome
  <2>4. Alone(x)  BY <1>1, <1>3, <2>1, <2>2, <2>3, FoundAlone
  <2>5. Roles(x)' /\ SlotOf(x)' /\ Carries(x)' /\ Knows(x)'
    BY <1>3, <2>1
       DEF Roles, SlotOf, Carries, Knows, WatcherPcs, HoldPcs, ClientOpPcs, ClaimPcs, EmptyPcs,
           TakePcs, HandoffPcs, CarryPcs, MovePcs, NewLoginPcs
  <2>6. Polls(x)'  BY <1>2, <1>3, <2>1, <2>2, Kinds DEF Polls, PollPcs, slots
  <2> QED BY <2>1, <2>4, <2>5, <2>6 DEF TaskOK
<1>6. ASSUME Goto(x, "user.background"), UNCHANGED <<cl, ref>>
      PROVE  Alone(x) /\ TaskOK(x)' /\ pc'[x] = "user.background"
  <2>1. pc'[x] = "user.background" /\ cl'[x] = "none"
    BY <1>1, <1>3, <1>6, Parts DEF Goto, TypeOK
  <2>2. Alone(x)
    BY <1>1, <2>1, NarrowAlone
       DEF ClientOpPcs, ClaimPcs, EmptyPcs, TakePcs, HandoffPcs, StagePcs, UserOpPcs, MovePcs, PollPcs
  <2>3. Roles(x)' /\ SlotOf(x)' /\ Carries(x)' /\ Knows(x)'
    BY <1>3, <2>1
       DEF Roles, SlotOf, Carries, Knows, WatcherPcs, HoldPcs, ClientOpPcs, ClaimPcs, EmptyPcs,
           TakePcs, HandoffPcs, CarryPcs, MovePcs, NewLoginPcs
  <2>4. Polls(x)'  BY <1>2, <1>3, <2>1 DEF Polls, PollPcs
  <2> QED BY <2>1, <2>2, <2>3, <2>4 DEF TaskOK
<1>7. Alone(x) /\ TaskOK(x)' /\ pc'[x] \in {"user.ask", "user.background"}
  BY <1>2, <1>5, <1>6
<1>8. pc'[x] \notin UserOpPcs \cup NewLoginPcs \cup {"handoff.start"}
  BY <1>7 DEF UserOpPcs, NewLoginPcs, ClaimPcs, HandoffPcs
<1> QED BY <1>1, <1>2, <1>3, <1>4, <1>7, <1>8, QuietStep

\* The same for a parked desktop; a watcher that finds none ends.
LEMMA UserLooksInBackgroundCalm ==
  ASSUME IInv, CInv, IInv', NEW x \in Gens, UserLooksInBackground(x) PROVE CInv'
<1> DEFINE d == background[kind[x]]
<1>1. x \in Tasks /\ pc[x] = "user.background" /\ kind[x] \in Users /\ held[x] = 0
  BY Parts, CalmParts DEF UserLooksInBackground, Hands, HandsOf, UserWatchPcs, Roles, HoldPcs
<1>2. /\ UNCHANGED <<slots, background, pending, nextGen, poisoned, kind, origin, proc, fate,
                     client, authed>>
      /\ \/ /\ d # 0 /\ ref' = [ref EXCEPT ![x] = d] /\ Goto(x, "user.ask")
            /\ UNCHANGED <<held, cl, us, rk>>
         \/ d = 0 /\ Return(x)
  BY DEF UserLooksInBackground, manager, origins
<1>3. CASE d = 0  BY <1>1, <1>2, <1>3, QuietReturn
<1>4. CASE d # 0
  <2>1. /\ pc'[x] = "user.ask" /\ held'[x] = 0 /\ cl'[x] = cl[x] /\ us'[x] = us[x] /\ ref'[x] = d
        /\ \A y \in Tasks : y # x => Same(y)
    BY <1>1, <1>2, <1>4, Parts DEF Goto, TypeOK, Same
  <2>2. us[x] = kind[x] /\ cl[x] = "none"  BY <1>1, CalmParts DEF Polls, Roles
  <2>3. /\ d \in Gens /\ fate[d] = "live" /\ kind[d] = kind[x]
        /\ \A y \in Tasks : held[y] # d
    BY <1>1, <1>4, Parts, SomeSession DEF TypeOK, BackgroundIsTheUsers, OneHome
  <2>4. Alone(x)
    <3>1. cl'[x] = "none" /\ us'[x] = kind[d] /\ kind[d] \in Users  BY <1>1, <2>1, <2>2, <2>3
    <3> QED BY <1>1, <2>1, <2>3, <3>1, FoundAlone
  <2>5. Roles(x)' /\ SlotOf(x)' /\ Carries(x)' /\ Knows(x)'
    BY <2>1
       DEF Roles, SlotOf, Carries, Knows, WatcherPcs, HoldPcs, ClientOpPcs, ClaimPcs, EmptyPcs,
           TakePcs, HandoffPcs, CarryPcs, MovePcs, NewLoginPcs
  <2>6. Polls(x)'  BY <1>2, <2>1, <2>2, <2>3 DEF Polls, PollPcs
  <2>7. TaskOK(x)'  BY <2>5, <2>6 DEF TaskOK
  <2>8. pc'[x] \notin UserOpPcs \cup NewLoginPcs \cup {"handoff.start"}
    BY <2>1 DEF UserOpPcs, NewLoginPcs, ClaimPcs, HandoffPcs
  <2> QED BY <1>1, <1>2, <2>1, <2>4, <2>7, <2>8, QuietStep
<1> QED BY <1>3, <1>4

\* The broker's answer only tells the watcher whether the desktop it saw is dead.
LEMMA UserAsksCalm ==
  ASSUME IInv, CInv, IInv', NEW x \in Gens, UserAsks(x) PROVE CInv'
<1>1. x \in Tasks /\ pc[x] = "user.ask" /\ held[x] = 0
  BY CalmParts DEF UserAsks, Roles, HoldPcs
<1>2. /\ UNCHANGED <<slots, background, pending, nextGen, poisoned, kind, origin, proc, fate,
                     client, authed, held, rk>>
      /\ \/ proc[ref[x]] = "dead" /\ Goto(x, "user.reap") /\ UNCHANGED <<cl, us, ref>>
         \/ /\ Goto(x, "user.tick")
            /\ cl' = [cl EXCEPT ![x] = "none"]
            /\ us' = [us EXCEPT ![x] = "none"]
            /\ ref' = [ref EXCEPT ![x] = 0]
  BY DEF UserAsks, manager, origins
<1>3. \A y \in Tasks : y # x => Same(y)  BY <1>1, <1>2, Parts DEF Same, Goto, TypeOK
<1>4. ASSUME proc[ref[x]] = "dead", Goto(x, "user.reap"), UNCHANGED <<cl, us, ref>>
      PROVE  Alone(x) /\ TaskOK(x)' /\ pc'[x] = "user.reap"
  <2>1. pc'[x] = "user.reap"  BY <1>1, <1>4, Parts DEF Goto, TypeOK
  <2>2. Alone(x)
    BY <1>1, <1>4, <2>1, NarrowAlone
       DEF ClientOpPcs, ClaimPcs, EmptyPcs, TakePcs, HandoffPcs, StagePcs, UserOpPcs, MovePcs, PollPcs
  <2>3. Roles(x)' /\ SlotOf(x)' /\ Carries(x)' /\ Knows(x)'
    BY <1>1, <1>2, <2>1
       DEF Roles, SlotOf, Carries, Knows, WatcherPcs, HoldPcs, ClientOpPcs, ClaimPcs, EmptyPcs,
           TakePcs, HandoffPcs, CarryPcs, MovePcs, NewLoginPcs
  <2>4. Polls(x)  BY <1>1, CalmParts
  <2>5. Polls(x)'  BY <1>1, <1>2, <1>4, <2>1, <2>4 DEF Polls, PollPcs, slots
  <2> QED BY <2>1, <2>2, <2>3, <2>5 DEF TaskOK
<1>5. ASSUME Goto(x, "user.tick"), cl' = [cl EXCEPT ![x] = "none"], us' = [us EXCEPT ![x] = "none"]
      PROVE  Alone(x) /\ TaskOK(x)' /\ pc'[x] = "user.tick"
  <2>1. pc'[x] = "user.tick" /\ cl'[x] = "none"  BY <1>1, <1>5, Parts DEF Goto, TypeOK
  <2>2. Alone(x)
    BY <1>1, <2>1, NarrowAlone
       DEF ClientOpPcs, ClaimPcs, EmptyPcs, TakePcs, HandoffPcs, StagePcs, UserOpPcs, MovePcs, PollPcs
  <2>3. Roles(x)' /\ SlotOf(x)' /\ Carries(x)' /\ Knows(x)' /\ Polls(x)'
    BY <1>1, <1>2, <2>1
       DEF Roles, SlotOf, Carries, Knows, WatcherPcs, HoldPcs, ClientOpPcs, ClaimPcs, EmptyPcs,
           TakePcs, HandoffPcs, CarryPcs, MovePcs, NewLoginPcs, Polls, PollPcs
  <2> QED BY <2>1, <2>2, <2>3 DEF TaskOK
<1>6. Alone(x) /\ TaskOK(x)' /\ pc'[x] \in {"user.tick", "user.reap"}
  BY <1>2, <1>4, <1>5
<1>7. pc'[x] \notin UserOpPcs \cup NewLoginPcs \cup {"handoff.start"}
  BY <1>6 DEF UserOpPcs, NewLoginPcs, ClaimPcs, HandoffPcs
<1>8. held'[x] = 0  BY <1>1, <1>2
<1> QED BY <1>1, <1>2, <1>3, <1>6, <1>7, <1>8, QuietStep

\* A watcher that finds its client's login stage gone ends; one that finds it over turns to
\* a slot nobody else works on and no watcher of a desktop asks about.
LEMMA WatchLoginExitCalm ==
  ASSUME IInv, CInv, IInv', NEW x \in Gens, WatchLoginExit(x) PROVE CInv'
<1> DEFINE c == cl[x]
           s == ses[c]
<1>1. x \in Tasks /\ pc[x] = "login.watch" /\ held[x] = 0 /\ c \in Clients
  BY Parts, CalmParts DEF WatchLoginExit, Roles, HoldPcs, Hands, HandsOf, ClientPcs
<1>2. UNCHANGED <<slots, background, pending, nextGen, kind, origin, proc, fate, client, authed>>
  BY DEF WatchLoginExit, origins
<1>3. \/ Return(x) /\ UNCHANGED poisoned
      \/ st[c] = "Streaming" /\ proc[s] = "lost"
      \/ /\ st[c] = "Streaming" /\ kind[s] = "login" /\ proc[s] \in {"ok", "failed"}
         /\ Goto(x, IF proc[s] = "ok" THEN "handoff.take" ELSE "cancel.take")
         /\ UNCHANGED <<poisoned, held, cl, us, ref, rk>>
  BY DEF WatchLoginExit
<1>4. CASE Return(x) /\ UNCHANGED poisoned  BY <1>1, <1>2, <1>4, QuietReturn
<1>5. st[c] = "Streaming" => s # 0 /\ s \in Gens /\ fate[s] = "live" /\ proc[s] # "lost"
  BY <1>1, Parts, Owners, CalmParts DEF SlotShape, Sound
<1>6. CASE /\ st[c] = "Streaming" /\ kind[s] = "login" /\ proc[s] \in {"ok", "failed"}
           /\ Goto(x, IF proc[s] = "ok" THEN "handoff.take" ELSE "cancel.take")
           /\ UNCHANGED <<poisoned, held, cl, us, ref, rk>>
  <2> DEFINE label == IF proc[s] = "ok" THEN "handoff.take" ELSE "cancel.take"
  <2>1. /\ pc'[x] = label /\ held'[x] = 0 /\ cl'[x] = c
        /\ \A y \in Tasks : y # x => Same(y)
    BY <1>1, <1>6, GoesOn
  <2>2. Alone(x)
    <3> SUFFICES ASSUME NEW y \in Tasks, y # x
                 PROVE  /\ ~Clash(pc'[x], cl'[x], us'[x], pc[y], cl[y], us[y])
                        /\ ~Clash(pc[y], cl[y], us[y], pc'[x], cl'[x], us'[x])
      BY DEF Alone
    <3>1. /\ ~Clash(pc[x], cl[x], us[x], pc[y], cl[y], us[y])
          /\ ~Clash(pc[y], cl[y], us[y], pc[x], cl[x], us[x])
      BY <1>1, CalmParts DEF Exclusive
    <3>2. cl[y] = c => pc[y] \notin ClientOpPcs
      <4> SUFFICES ASSUME cl[y] = c, pc[y] \in ClientOpPcs PROVE FALSE
        OBVIOUS
      <4>1. SlotOf(y)  BY CalmParts
      <4>2. pc[y] \in TakePcs  BY <1>6, <4>1 DEF SlotOf, ClientOpPcs
      <4>3. pc[y] \in StagePcs  BY <4>2 DEF StagePcs
      <4> QED BY <1>1, <3>1, <4>3 DEF Clash
    <3>3. cl[y] = c => pc[y] \notin PollPcs
      <4> SUFFICES ASSUME cl[y] = c, pc[y] \in PollPcs PROVE FALSE
        OBVIOUS
      <4>1. Polls(y)  BY CalmParts
      <4>2. pc[y] \in UserWatchPcs  BY DEF PollPcs, UserWatchPcs
      <4>3. kind[y] \in Users  BY <4>2, Parts DEF Hands, HandsOf
      <4>4. kind[ref[y]] \in Users /\ ses[c] = ref[y]
        BY <1>1, <1>5, <1>6, <4>1, <4>3, Kinds DEF Polls
      <4> QED BY <1>6, <4>4, Kinds
    <3>4. cl[y] = c => pc[y] # "login.watch"
      <4>1. "login.watch" \in StagePcs  BY DEF StagePcs
      <4> QED BY <1>1, <3>1, <4>1 DEF Clash
    <3>5. /\ pc'[x] \in TakePcs /\ pc'[x] # "login.watch"
          /\ pc'[x] \notin UserOpPcs \cup MovePcs \cup PollPcs
      BY <2>1 DEF TakePcs, UserOpPcs, MovePcs, PollPcs, ClaimPcs, HandoffPcs
    <3> QED BY <2>1, <3>2, <3>3, <3>4, <3>5, Points DEF Clash
  <2>3. Roles(x)' /\ Carries(x)' /\ Knows(x)' /\ Polls(x)'
    BY <2>1
       DEF Roles, Carries, Knows, Polls, PollPcs, HoldPcs, CarryPcs, MovePcs, NewLoginPcs
  <2>4. SlotOf(x)'
    <3>1. st'[c] = "Streaming" /\ ses'[c] = s /\ kind'[s] = "login"  BY <1>2, <1>6 DEF slots
    <3>2. fate'[s] = "live" /\ proc'[s] = proc[s]  BY <1>2, <1>5, <1>6
    <3>3. pc'[x] \in TakePcs /\ pc'[x] \notin ClaimPcs \cup EmptyPcs
      BY <2>1 DEF TakePcs, ClaimPcs, EmptyPcs, HandoffPcs
    <3>4. pc'[x] = "handoff.take" => proc[s] = "ok"  BY <2>1
    <3>5. pc'[x] = "handoff.take" => HandoffDue(ses[cl[x]])'
      BY <2>1, <3>1, <3>2, <3>4 DEF HandoffDue
    <3> QED BY <1>1, <1>6, <2>1, <3>1, <3>3, <3>5 DEF SlotOf
  <2>5. TaskOK(x)'  BY <2>3, <2>4 DEF TaskOK
  <2>6. pc'[x] \notin UserOpPcs \cup NewLoginPcs \cup {"handoff.start"}
    BY <2>1 DEF UserOpPcs, NewLoginPcs, ClaimPcs, HandoffPcs
  <2> QED BY <1>1, <1>2, <1>6, <2>1, <2>2, <2>5, <2>6, QuietStep
<1> QED BY <1>3, <1>4, <1>5, <1>6

-----------------------------------------------------------------------------
(* Steps that take a session from where it is *)

\* No operation works on a slot with a desktop in it, other than to take the desktop.
LEMMA DesktopSlotIsFree ==
  ASSUME IInv, CInv, NEW c \in Clients, ses[c] # 0, kind[ses[c]] # "login", NEW y \in Tasks
  PROVE  ~OpOn(y, c)
<1> SUFFICES ASSUME pc[y] \in ClientOpPcs, cl[y] = c PROVE FALSE
  BY DEF OpOn
<1>1. SlotOf(y)  BY CalmParts
<1>2. st[c] \notin {"Idle", "Spawning"}  BY Parts DEF SlotShape
<1> QED BY <1>1, <1>2 DEF SlotOf, ClientOpPcs

\* x takes the session in the slot of c.
LEMMA SlotMoves ==
  ASSUME IInv, CInv, IInv', NEW x \in Tasks, NEW c \in Clients, pc[x] # "none", held[x] = 0,
         UNCHANGED <<background, pending, nextGen, poisoned, kind, origin, proc, fate, client,
                     authed>>,
         st'[c] \in {"Idle", "Spawning"}, ses'[c] = 0, held'[x] = ses[c],
         \A d \in Clients : d # c => st'[d] = st[d] /\ ses'[d] = ses[d],
         \A y \in Tasks : y # x => Same(y) /\ ~OpOn(y, c),
         Alone(x), DuesStay(x), TaskOK(x)',
         pc'[x] \in NewLoginPcs \cup {"handoff.start"} => st[c] = "Launched"
  PROVE  CInv'
<1>1. Persists /\ RespectsSessions(x) /\ LossesStay /\ Sound'  BY SessionsStay
<1>2. RespectsSlots(x)
  BY DEF RespectsSlots
<1>3. WatchersStay(x)
  <2>1. st[c] = "Launched" => ses[c] \in Gens /\ pc[ses[c]] = "none"
    BY Parts, Owners, CalmParts DEF SlotShape, Unwatched
  <2>2. pc'[x] \in NewLoginPcs \cup {"handoff.start"} =>
          held'[x] \in Gens /\ held'[x] # x /\ pc[held'[x]] = "none"
    BY <2>1
  <2>3. \A d \in Clients : st'[d] = "Launched" => st[d] = "Launched" /\ ses'[d] = ses[d]
    OBVIOUS
  <2> QED BY <2>2, <2>3 DEF WatchersStay
<1>4. Homed'
  <2>1. \A d \in Clients : ses[d] # 0 /\ IsDesktop(ses[d]) => Kept(ses[d])
    <3> SUFFICES ASSUME NEW d \in Clients PROVE Kept(ses[d])
      OBVIOUS
    <3>1. CASE d = c  BY <3>1 DEF Kept
    <3>2. CASE d # c  BY <3>2 DEF Kept
    <3> QED BY <3>1, <3>2
  <2>2. \A u \in Users : background[u] # 0 => Kept(background[u])
    BY Parts DEF Kept, BackgroundIsTheUsers
  <2>3. \A y \in Tasks : held[y] # 0 => Kept(held[y])  BY DEF Kept, Same
  <2> QED BY <2>1, <2>2, <2>3, HomesStay
<1> QED BY <1>1, <1>2, <1>3, <1>4, CalmStep DEF Respects

\* A request begins an operation on the client c.
LEMMA Arrives ==
  ASSUME IInv, CInv, NEW c \in Clients, MayRequest(c)
  PROVE  /\ ~ClientBusy(c) /\ ~UserBusy(UserOf(ses[c]))
         /\ UserOf(ses[c]) \in Users \cup {"none"}
         /\ \A y \in Tasks : ~OpOn(y, c)
         /\ SpawningHasOwner => st[c] # "Spawning"
<1>1. ~ClientBusy(c) /\ ~UserBusy(UserOf(ses[c]))  BY CalmParts DEF MayRequest, CalmRuns
<1>2. \A y \in Tasks : ~OpOn(y, c)
  BY <1>1
     DEF OpOn, ClientBusy, Resting, ClientOpPcs, ClaimPcs, EmptyPcs, TakePcs, HandoffPcs
<1>3. SpawningHasOwner => st[c] # "Spawning"
  BY <1>1, RequestsAndWatchers, CalmParts DEF SpawningHasOwner, Sound, ClientBusy, Resting
<1> QED BY <1>1, <1>2, <1>3, UserOfType

\* A /launch claims the slot of a client nobody works on, and takes what it replaces from a
\* user to whom nothing happens.
LEMMA LaunchArrivesCalm ==
  ASSUME IInv, CInv, IInv', SpawningHasOwner, NEW x \in Requests, NEW c \in Clients,
         LaunchArrives(x, c)
  PROVE  CInv'
<1> DEFINE u == UserOf(ses[c])
           label == IF ses[c] = 0 THEN "launch.spawn" ELSE "launch.replace"
<1>1. x \in Tasks /\ pc[x] = "idle" /\ held[x] = 0
  BY CalmParts DEF LaunchArrives, Roles, HoldPcs
<1>2. ~ClientBusy(c) /\ ~UserBusy(u) /\ st[c] # "Spawning" /\ u \in Users \cup {"none"}
      /\ \A y \in Tasks : ~OpOn(y, c)
  BY Arrives DEF LaunchArrives
<1>3. /\ UNCHANGED <<background, pending, nextGen, poisoned, kind, origin, proc, fate, client,
                     authed, ref>>
      /\ ClaimSlot(x, c) /\ rk' = [rk EXCEPT ![x] = nextKey] /\ cl' = [cl EXCEPT ![x] = c]
  BY <1>2 DEF LaunchArrives, origins
<1>4. /\ st'[c] = "Spawning" /\ ses'[c] = 0 /\ held'[x] = ses[c]
      /\ \A d \in Clients : d # c => st'[d] = st[d] /\ ses'[d] = ses[d]
      /\ \A y \in Tasks : y # x => Same(y)
      /\ pc'[x] = label /\ cl'[x] = c /\ us'[x] = u
  BY <1>1, <1>3, Parts DEF ClaimSlot, Goto, TypeOK, Same
<1>5. pc'[x] \in ClaimPcs /\ pc'[x] \notin StagePcs \cup PollPcs \cup NewLoginPcs \cup {"handoff.start"}
  BY <1>4 DEF ClaimPcs, StagePcs, TakePcs, PollPcs, NewLoginPcs
<1>6. Alone(x) /\ \A g \in Gens : HandoffDue(g) => authed[g] # u
  <2>1. pc'[x] \notin PollPcs \cup {"login.watch"}  BY <1>5 DEF StagePcs
  <2>2. c \in Clients \cup {"none"} /\ pc'[x] \notin StagePcs /\ c # "none"
    BY <1>5, Kinds
  <2> QED BY <1>1, <1>2, <1>4, <2>1, <2>2, ArrivesAlone
<1>7. DuesStay(x)  BY <1>3, <1>4, <1>6 DEF DuesStay, HandoffDue
<1>8. TaskOK(x)'
  <2>1. Roles(x)' /\ Knows(x)' /\ Polls(x)'
    BY <1>4 DEF Roles, Knows, Polls, PollPcs, WatcherPcs, HoldPcs
  <2>2. SlotOf(x)'
    BY <1>4, <1>5 DEF SlotOf, ClaimPcs, EmptyPcs, TakePcs, HandoffPcs
  <2>3. Carries(x)'
    BY <1>3, <1>4 DEF Carries, CarryPcs, MovePcs, NewLoginPcs, UserOf, IsDesktop
  <2> QED BY <2>1, <2>2, <2>3 DEF TaskOK
<1> QED BY <1>1, <1>2, <1>3, <1>4, <1>5, <1>6, <1>7, <1>8, SlotMoves

\* What CancelTakes does to a slot with a session in it.
LEMMA CancelTakesCalm ==
  ASSUME IInv, CInv, IInv', NEW x \in Tasks, NEW c \in Clients, CancelTakes(x, c),
         ses[c] # 0, held[x] = 0, pc[x] # "none",
         \A y \in Tasks : y # x => ~OpOn(y, c),
         pc'[x] = "cancel.release" /\ cl'[x] = c /\ us'[x] = UserOf(ses[c]) =>
           Alone(x) /\ \A g \in Gens : HandoffDue(g) => authed[g] # us'[x]
  PROVE  CInv'
<1>1. /\ UNCHANGED <<background, pending, nextGen, poisoned, kind, origin, proc, fate, client,
                     authed, ref, rk>>
      /\ TakeSlot(c, x) /\ us' = [us EXCEPT ![x] = UserOf(ses[c])]
      /\ cl' = [cl EXCEPT ![x] = c] /\ Goto(x, "cancel.release")
  BY DEF CancelTakes, manager, origins
<1>2. /\ st'[c] = "Idle" /\ ses'[c] = 0 /\ held'[x] = ses[c]
      /\ \A d \in Clients : d # c => st'[d] = st[d] /\ ses'[d] = ses[d]
      /\ \A y \in Tasks : y # x => Same(y)
      /\ pc'[x] = "cancel.release" /\ cl'[x] = c /\ us'[x] = UserOf(ses[c])
  BY <1>1, Parts DEF TakeSlot, Goto, TypeOK, Same
<1>3. Alone(x) /\ \A g \in Gens : HandoffDue(g) => authed[g] # us'[x]  BY <1>2
<1>4. DuesStay(x)  BY <1>1, <1>3 DEF DuesStay, HandoffDue
<1>5. TaskOK(x)'
  <2>1. Roles(x)' /\ Knows(x)' /\ Polls(x)'
    BY <1>2 DEF Roles, Knows, Polls, PollPcs, WatcherPcs, HoldPcs
  <2>2. SlotOf(x)'
    BY <1>2 DEF SlotOf, ClaimPcs, EmptyPcs, TakePcs
  <2>3. Carries(x)'
    BY <1>1, <1>2 DEF Carries, CarryPcs, MovePcs, NewLoginPcs, UserOf, IsDesktop
  <2> QED BY <2>1, <2>2, <2>3 DEF TaskOK
<1>6. pc'[x] \notin NewLoginPcs \cup {"handoff.start"}  BY <1>2 DEF NewLoginPcs
<1> QED BY <1>1, <1>2, <1>3, <1>4, <1>5, <1>6, SlotMoves

\* So does a /cancel.
LEMMA CancelArrivesCalm ==
  ASSUME IInv, CInv, IInv', SpawningHasOwner, NEW x \in Requests, NEW c \in Clients,
         CancelArrives(x, c)
  PROVE  CInv'
<1>1. x \in Tasks /\ pc[x] = "idle" /\ held[x] = 0 /\ CancelTakes(x, c)
  BY CalmParts DEF CancelArrives, Roles, HoldPcs
<1>2. ~ClientBusy(c) /\ ~UserBusy(UserOf(ses[c])) /\ UserOf(ses[c]) \in Users \cup {"none"}
      /\ (\A y \in Tasks : ~OpOn(y, c)) /\ ses[c] # 0
  BY Arrives, Parts DEF CancelArrives, SlotShape
<1>3. ASSUME pc'[x] = "cancel.release", cl'[x] = c, us'[x] = UserOf(ses[c])
      PROVE  Alone(x) /\ \A g \in Gens : HandoffDue(g) => authed[g] # us'[x]
  <2>1. pc'[x] \notin PollPcs \cup {"login.watch"} \cup StagePcs
    BY <1>3 DEF PollPcs, StagePcs, TakePcs
  <2>2. c \in Clients \cup {"none"} /\ c # "none"  BY Kinds
  <2> QED BY <1>1, <1>2, <1>3, <2>1, <2>2, ArrivesAlone
<1> QED BY <1>1, <1>2, <1>3, CancelTakesCalm

\* The watcher of a failed login stage takes it from its slot: it is still the one its
\* watcher saw, since nobody else worked on the client in between.
LEMMA LoginResetCalm ==
  ASSUME IInv, CInv, IInv', NEW x \in Gens, LoginReset(x) PROVE CInv'
<1> DEFINE c == cl[x]
<1>1. x \in Tasks /\ pc[x] = "cancel.take" /\ held[x] = 0 /\ CancelTakes(x, c)
  BY CalmParts DEF LoginReset, Roles, HoldPcs
<1>2. pc[x] \in TakePcs /\ pc[x] \in ClientOpPcs  BY <1>1, Points DEF TakePcs
<1>3. c \in Clients /\ st[c] = "Streaming" /\ kind[ses[c]] = "login"
  BY <1>2, CalmParts DEF SlotOf
<1>4. ses[c] # 0  BY <1>3, Parts DEF SlotShape
<1>5. UserOf(ses[c]) = "none"  BY <1>3, Kinds DEF UserOf, IsDesktop
<1>6. \A y \in Tasks : y # x => ~OpOn(y, c)
  BY <1>1, <1>2, CalmParts DEF Exclusive, Clash, OpOn
<1>7. ASSUME pc'[x] = "cancel.release", cl'[x] = c, us'[x] = UserOf(ses[c])
      PROVE  Alone(x) /\ \A g \in Gens : HandoffDue(g) => authed[g] # us'[x]
  <2>1. ASSUME NEW y \in Tasks, y # x
        PROVE  /\ ~Clash(pc'[x], cl'[x], us'[x], pc[y], cl[y], us[y])
               /\ ~Clash(pc[y], cl[y], us[y], pc'[x], cl'[x], us'[x])
    <3>1. /\ ~Clash(pc[x], cl[x], us[x], pc[y], cl[y], us[y])
          /\ ~Clash(pc[y], cl[y], us[y], pc[x], cl[x], us[x])
      BY <1>1, <2>1, CalmParts DEF Exclusive
    <3>2. pc[y] \in PollPcs => us[y] # "none"
      BY CalmParts, Parts, Kinds DEF Polls, PollPcs, Hands, HandsOf, UserWatchPcs
    <3>3. pc'[x] # "login.watch" /\ pc'[x] \notin StagePcs \cup PollPcs /\ pc'[x] \in ClientOpPcs
      BY <1>7 DEF StagePcs, PollPcs, TakePcs, ClientOpPcs, EmptyPcs
    <3> QED BY <1>2, <1>5, <1>7, <3>1, <3>2, <3>3 DEF Clash
  <2>2. \A g \in Gens : HandoffDue(g) => authed[g] # "none"
    BY CalmParts, Kinds DEF DueAlone
  <2> QED BY <1>5, <1>7, <2>1, <2>2 DEF Alone
<1> QED BY <1>1, <1>3, <1>4, <1>6, <1>7, CancelTakesCalm

\* A PLAY takes a login stage that has not streamed and that no watcher follows yet.
LEMMA PlayArrivesCalm ==
  ASSUME IInv, CInv, IInv', NEW x \in Requests, NEW c \in Clients, PlayArrives(x, c)
  PROVE  CInv'
<1> DEFINE u == UserOf(ses[c])
<1>1. x \in Tasks /\ pc[x] = "idle" /\ held[x] = 0
  BY CalmParts DEF PlayArrives, Roles, HoldPcs
<1>2. MayRequest(c) /\ st[c] = "Launched" /\ ~Watched(c)
  BY CalmParts DEF PlayArrives, MayPlay, CalmRuns
<1>3. ~ClientBusy(c) /\ ~UserBusy(u) /\ u \in Users \cup {"none"}
      /\ \A y \in Tasks : ~OpOn(y, c)
  BY <1>2, Arrives
<1>4. /\ UNCHANGED <<background, pending, nextGen, poisoned, kind, origin, proc, fate, client,
                     authed, ref, rk>>
      /\ TakeSlot(c, x) /\ us' = [us EXCEPT ![x] = u]
      /\ cl' = [cl EXCEPT ![x] = c] /\ Goto(x, "play.fresh")
  BY <1>2 DEF PlayArrives, manager, origins
<1>5. /\ st'[c] = "Idle" /\ ses'[c] = 0 /\ held'[x] = ses[c]
      /\ \A d \in Clients : d # c => st'[d] = st[d] /\ ses'[d] = ses[d]
      /\ \A y \in Tasks : y # x => Same(y)
      /\ pc'[x] = "play.fresh" /\ cl'[x] = c /\ us'[x] = u
  BY <1>1, <1>4, Parts DEF TakeSlot, Goto, TypeOK, Same
<1>6. Alone(x) /\ \A g \in Gens : HandoffDue(g) => authed[g] # u
  <2>1. pc'[x] \notin PollPcs \cup {"login.watch"}  BY <1>5 DEF PollPcs
  <2>2. c \in Clients \cup {"none"} /\ c # "none"  BY Kinds
  <2> QED BY <1>1, <1>2, <1>3, <1>5, <2>1, <2>2, ArrivesAlone
<1>7. DuesStay(x)  BY <1>4, <1>5, <1>6 DEF DuesStay, HandoffDue
<1>8. TaskOK(x)'
  <2>1. Roles(x)' /\ Knows(x)' /\ Polls(x)'
    BY <1>5 DEF Roles, Knows, Polls, PollPcs, WatcherPcs, HoldPcs
  <2>2. SlotOf(x)'
    BY <1>5 DEF SlotOf, ClaimPcs, EmptyPcs, TakePcs, HandoffPcs
  <2>3. kind[ses[c]] = "login" /\ client[origin[ses[c]]] = c
    BY <1>2, CalmParts, Parts DEF Unwatched, SlotIsTheClients, SlotShape
  <2>4. Carries(x)'
    BY <1>4, <1>5, <2>3 DEF Carries, CarryPcs, MovePcs, NewLoginPcs
  <2> QED BY <2>1, <2>2, <2>4 DEF TaskOK
<1> QED BY <1>1, <1>2, <1>3, <1>4, <1>5, <1>6, <1>7, <1>8, SlotMoves

\* A log-out that finds the user's desktop attached takes it.
LEMMA LogoutLooksForActiveCalm ==
  ASSUME IInv, CInv, IInv', NEW x \in Requests, LogoutLooksForActive(x) PROVE CInv'
<1>1. x \in Tasks /\ pc[x] = "logout.active" /\ held[x] = 0 /\ us[x] \in Users
  BY Parts, CalmParts DEF LogoutLooksForActive, Roles, HoldPcs, Hands, HandsOf
<1>2. /\ UNCHANGED <<background, pending, nextGen, poisoned, kind, origin, proc, fate, client,
                     authed>>
      /\ \/ \E c \in Clients : /\ UserOf(ses[c]) = us[x] /\ TakeSlot(c, x)
                               /\ Goto(x, "logout.terminate") /\ UNCHANGED <<cl, us, ref, rk>>
         \/ Return(x) /\ UNCHANGED slots
  BY DEF LogoutLooksForActive, manager, origins
<1>3. CASE Return(x) /\ UNCHANGED slots  BY <1>1, <1>2, <1>3, QuietReturn
<1>4. ASSUME NEW c \in Clients, UserOf(ses[c]) = us[x], TakeSlot(c, x),
             Goto(x, "logout.terminate"), UNCHANGED <<cl, us, ref, rk>>
      PROVE  CInv'
  <2>1. /\ st'[c] = "Idle" /\ ses'[c] = 0 /\ held'[x] = ses[c]
        /\ \A d \in Clients : d # c => st'[d] = st[d] /\ ses'[d] = ses[d]
        /\ \A y \in Tasks : y # x => Same(y)
        /\ pc'[x] = "logout.terminate" /\ us'[x] = us[x]
    BY <1>1, <1>4, Parts DEF TakeSlot, Goto, TypeOK, Same
  <2>2. ses[c] \in Gens /\ kind[ses[c]] = us[x] /\ ses[c] # 0 /\ kind[ses[c]] # "login"
    BY <1>1, <1>4, Kinds DEF UserOf, IsDesktop
  <2>3. \A y \in Tasks : y # x => ~OpOn(y, c)  BY <2>2, DesktopSlotIsFree
  <2>4. pc'[x] \notin ClientOpPcs \cup StagePcs \cup PollPcs \cup MovePcs \cup NewLoginPcs
        /\ pc'[x] \notin CarryPcs \cup TakePcs \cup ClaimPcs \cup EmptyPcs \cup {"handoff.start", "login.watch"}
    BY <2>1 DEF ClientOpPcs, ClaimPcs, EmptyPcs, TakePcs, HandoffPcs, StagePcs, PollPcs, MovePcs,
                NewLoginPcs, CarryPcs
  <2>5. pc[x] \in UserOpPcs  BY <1>1 DEF UserOpPcs
  <2>6. Alone(x)  BY <1>1, <2>1, <2>4, <2>5, NarrowAlone
  <2>7. DuesStay(x)  BY <1>1, <1>2, <2>1, <2>5, DuesNarrow
  <2>8. TaskOK(x)'
    <3>1. Roles(x)' /\ SlotOf(x)' /\ Knows(x)' /\ Polls(x)'
      BY <2>1, <2>4 DEF Roles, SlotOf, Knows, Polls, WatcherPcs, HoldPcs, TakePcs
    <3>2. Carries(x)'  BY <1>1, <1>2, <2>1, <2>2, <2>4 DEF Carries
    <3> QED BY <3>1, <3>2 DEF TaskOK
  <2> QED BY <1>1, <1>2, <2>1, <2>3, <2>4, <2>6, <2>7, <2>8, SlotMoves
<1> QED BY <1>2, <1>3, <1>4

\* A handoff that finds no desktop of its user parked takes an attached one, or knows from
\* then on that there is none.
LEMMA HandoffLooksForActiveCalm ==
  ASSUME IInv, CInv, IInv', NEW x \in Gens, HandoffLooksForActive(x) PROVE CInv'
<1>1. x \in Tasks /\ pc[x] = "handoff.active" /\ held[x] = 0 /\ us[x] \in Users
  BY Parts, CalmParts DEF HandoffLooksForActive, Roles, HoldPcs, Hands, HandsOf, CarryPcs
<1>2. /\ UNCHANGED <<background, pending, nextGen, poisoned, kind, origin, proc, fate, client,
                     authed, cl, us, ref, rk>>
      /\ \/ \E c \in Clients : /\ UserOf(ses[c]) = us[x] /\ TakeSlot(c, x)
                               /\ Goto(x, "handoff.detach")
         \/ /\ \A c \in Clients : UserOf(ses[c]) # us[x]
            /\ Goto(x, "handoff.spawn") /\ UNCHANGED <<slots, held>>
  BY DEF HandoffLooksForActive, manager, origins
<1>3. pc[x] \in UserOpPcs /\ pc[x] \in ClientOpPcs /\ pc[x] \in EmptyPcs /\ pc[x] \in CarryPcs
  BY <1>1 DEF UserOpPcs, ClientOpPcs, EmptyPcs, HandoffPcs, CarryPcs
<1>4. cl[x] \in Clients /\ st[cl[x]] = "Idle" /\ client[ref[x]] = cl[x] /\ background[us[x]] = 0
  BY <1>1, <1>3, CalmParts DEF SlotOf, Carries, Knows
<1>5. ASSUME pc'[x] \in {"handoff.detach", "handoff.spawn"}
      PROVE  /\ pc'[x] \in EmptyPcs /\ pc'[x] \in ClientOpPcs
             /\ pc'[x] \notin StagePcs \cup PollPcs \cup MovePcs \cup NewLoginPcs
             /\ pc'[x] \notin TakePcs \cup ClaimPcs \cup {"handoff.start", "login.watch"}
  BY <1>5 DEF ClientOpPcs, ClaimPcs, EmptyPcs, TakePcs, HandoffPcs, StagePcs, PollPcs, MovePcs,
              NewLoginPcs
<1>6. ASSUME NEW c \in Clients, UserOf(ses[c]) = us[x], TakeSlot(c, x), Goto(x, "handoff.detach")
      PROVE  CInv'
  <2>1. /\ st'[c] = "Idle" /\ ses'[c] = 0 /\ held'[x] = ses[c]
        /\ \A d \in Clients : d # c => st'[d] = st[d] /\ ses'[d] = ses[d]
        /\ \A y \in Tasks : y # x => Same(y)
        /\ pc'[x] = "handoff.detach" /\ us'[x] = us[x] /\ cl'[x] = cl[x] /\ ref'[x] = ref[x]
    BY <1>1, <1>2, <1>6, Parts DEF TakeSlot, Goto, TypeOK, Same
  <2>2. ses[c] \in Gens /\ kind[ses[c]] = us[x] /\ ses[c] # 0 /\ kind[ses[c]] # "login"
    BY <1>1, <1>6, Kinds DEF UserOf, IsDesktop
  <2>3. \A y \in Tasks : y # x => ~OpOn(y, c)  BY <2>2, DesktopSlotIsFree
  <2>4. Alone(x)  BY <1>1, <1>3, <1>5, <2>1, NarrowAlone
  <2>5. DuesStay(x)  BY <1>1, <1>2, <1>3, <2>1, DuesNarrow
  <2>6. TaskOK(x)'
    <3>1. Roles(x)' /\ Knows(x)' /\ Polls(x)'
      BY <2>1, <1>1, <1>5 DEF Roles, Knows, Polls, WatcherPcs, HoldPcs
    <3>2. SlotOf(x)'  BY <1>4, <1>5, <2>1 DEF SlotOf
    <3>3. Carries(x)'  BY <1>2, <1>4, <1>5, <2>1 DEF Carries
    <3> QED BY <3>1, <3>2, <3>3 DEF TaskOK
  <2> QED BY <1>1, <1>2, <1>5, <2>1, <2>3, <2>4, <2>5, <2>6, SlotMoves
<1>7. ASSUME \A c \in Clients : UserOf(ses[c]) # us[x], Goto(x, "handoff.spawn"),
             UNCHANGED <<slots, held>>
      PROVE  CInv'
  <2>1. /\ pc'[x] = "handoff.spawn" /\ held'[x] = held[x] /\ us'[x] = us[x] /\ cl'[x] = cl[x]
        /\ ref'[x] = ref[x] /\ \A y \in Tasks : y # x => Same(y)
    BY <1>1, <1>2, <1>7, GoesOn
  <2>2. \A d \in Gens : ~(fate[d] = "live" /\ kind[d] = us[x])
    <3> SUFFICES ASSUME NEW d \in Gens, fate[d] = "live", kind[d] = us[x] PROVE FALSE
      OBVIOUS
    <3>1. HasHome(d)  BY <1>1, CalmParts DEF Homed, IsDesktop
    <3>2. \A c \in Clients : ses[c] # d  BY <1>1, <1>7 DEF UserOf, IsDesktop
    <3>3. background[kind[d]] # d  BY <1>4, Kinds
    <3>4. ASSUME NEW y \in Tasks, held[y] = d PROVE FALSE
      <4>1. OpOf(y, us[x])  BY <1>1, <3>4, Kinds, HeldDesktop
      <4>2. y # x  BY <1>1, <3>4, Kinds
      <4> QED BY <1>1, <1>3, <4>1, <4>2, CalmParts, Kinds DEF OpOf, Exclusive, Clash
    <3> QED BY <3>1, <3>2, <3>3, <3>4 DEF HasHome
  <2>3. Alone(x)  BY <1>1, <1>3, <1>5, <2>1, NarrowAlone
  <2>4. TaskOK(x)'
    <3>1. Roles(x)' /\ Polls(x)'
      BY <1>1, <2>1, <1>5 DEF Roles, Polls, WatcherPcs
    <3>2. SlotOf(x)'  BY <1>4, <1>5, <1>7, <2>1 DEF SlotOf, slots
    <3>3. Carries(x)'  BY <1>2, <1>4, <1>5, <2>1 DEF Carries
    <3>4. Knows(x)'  BY <1>2, <2>1, <2>2 DEF Knows
    <3> QED BY <3>1, <3>2, <3>3, <3>4 DEF TaskOK
  <2> QED BY <1>1, <1>2, <1>3, <1>5, <1>7, <2>1, <2>3, <2>4, QuietStep
<1> QED BY <1>2, <1>6, <1>7

\* x takes what is parked under the name u.
LEMMA BackgroundMoves ==
  ASSUME IInv, CInv, IInv', NEW x \in Tasks, NEW u \in Users, pc[x] # "none", held[x] = 0,
         UNCHANGED <<slots, pending, nextGen, poisoned, kind, origin, proc, fate, client, authed>>,
         background'[u] = 0, held'[x] = background[u],
         \A v \in Users : v # u => background'[v] = background[v],
         \A y \in Tasks : y # x => Same(y),
         Alone(x), DuesStay(x), TaskOK(x)',
         pc'[x] \notin NewLoginPcs \cup {"handoff.start"}
  PROVE  CInv'
<1>1. Persists /\ RespectsSessions(x) /\ LossesStay /\ Sound'  BY SessionsStay
<1>2. st' = st /\ ses' = ses  BY DEF slots
<1>3. RespectsSlots(x)  BY <1>2 DEF RespectsSlots
<1>4. WatchersStay(x)  BY <1>2, WatchersNarrow
<1>5. Homed'
  <2>1. \A d \in Clients : ses[d] # 0 /\ IsDesktop(ses[d]) => Kept(ses[d])
    BY <1>2 DEF Kept
  <2>2. \A v \in Users : background[v] # 0 => Kept(background[v])
    <3> SUFFICES ASSUME NEW v \in Users, background[v] # 0 PROVE Kept(background[v])
      OBVIOUS
    <3>1. CASE v = u  BY <3>1 DEF Kept
    <3>2. CASE v # u  BY <3>2, Parts DEF Kept, BackgroundIsTheUsers
    <3> QED BY <3>1, <3>2
  <2>3. \A y \in Tasks : held[y] # 0 => Kept(held[y])  BY DEF Kept, Same
  <2> QED BY <2>1, <2>2, <2>3, HomesStay
<1> QED BY <1>1, <1>3, <1>4, <1>5, CalmStep DEF Respects

\* A log-out begins when nothing else happens to the user.
LEMMA LogoutArrivesCalm ==
  ASSUME IInv, CInv, IInv', NEW x \in Requests, NEW u \in Users, LogoutArrives(x, u)
  PROVE  CInv'
<1> DEFINE label == IF background[u] # 0 THEN "logout.terminate" ELSE "logout.active"
<1>1. x \in Tasks /\ pc[x] = "idle" /\ held[x] = 0 /\ ~UserBusy(u)
  BY CalmParts DEF LogoutArrives, MayLogIn, CalmRuns, Roles, HoldPcs
<1>2. /\ UNCHANGED <<slots, pending, nextGen, poisoned, kind, origin, proc, fate, client, authed,
                     cl, ref, rk>>
      /\ us' = [us EXCEPT ![x] = u] /\ background' = [background EXCEPT ![u] = 0]
      /\ held' = [held EXCEPT ![x] = background[u]] /\ Goto(x, label)
  BY DEF LogoutArrives, manager, origins
<1>3. /\ background'[u] = 0 /\ held'[x] = background[u]
      /\ \A v \in Users : v # u => background'[v] = background[v]
      /\ \A y \in Tasks : y # x => Same(y)
      /\ pc'[x] = label /\ us'[x] = u
  BY <1>1, <1>2, Parts DEF Goto, TypeOK, Same
<1>4. pc'[x] \notin ClientOpPcs \cup StagePcs \cup PollPcs \cup MovePcs \cup NewLoginPcs
      /\ pc'[x] \notin CarryPcs \cup TakePcs \cup ClaimPcs \cup EmptyPcs \cup {"handoff.start", "login.watch"}
  BY <1>3 DEF ClientOpPcs, ClaimPcs, EmptyPcs, TakePcs, HandoffPcs, StagePcs, PollPcs, MovePcs,
              NewLoginPcs, CarryPcs
<1>5. Alone(x)
  <2>1. ASSUME NEW y \in Tasks, y # x, pc[y] \in UserOpPcs PROVE us[y] # u
    <3>1. pc[y] \notin Resting  BY <2>1 DEF Resting, UserOpPcs, ClaimPcs, HandoffPcs
    <3> QED BY <1>1, <3>1, Kinds DEF UserBusy
  <2> QED BY <1>3, <1>4, <2>1 DEF Alone, Clash
<1>6. DuesStay(x)
  <2>1. \A g \in Gens : HandoffDue(g) => authed[g] # u  BY <1>1, Kinds DEF UserBusy
  <2> QED BY <1>2, <1>3, <2>1 DEF DuesStay, HandoffDue
<1>7. TaskOK(x)'
  <2>1. Roles(x)' /\ SlotOf(x)' /\ Knows(x)' /\ Polls(x)'
    BY <1>3, <1>4 DEF Roles, SlotOf, Knows, Polls, WatcherPcs, HoldPcs, TakePcs
  <2>2. background[u] # 0 => kind[background[u]] = u  BY Parts DEF BackgroundIsTheUsers
  <2>3. Carries(x)'  BY <1>2, <1>3, <1>4, <2>2 DEF Carries
  <2> QED BY <2>1, <2>3 DEF TaskOK
<1> QED BY <1>1, <1>2, <1>3, <1>4, <1>5, <1>6, <1>7, BackgroundMoves

\* A handoff takes the parked desktop of its user, or knows that there is none parked.
LEMMA HandoffLooksInBackgroundCalm ==
  ASSUME IInv, CInv, IInv', NEW x \in Gens, HandoffLooksInBackground(x) PROVE CInv'
<1> DEFINE u == us[x]
           label == IF background[u] # 0 THEN "handoff.detach" ELSE "handoff.active"
<1>1. x \in Tasks /\ pc[x] = "handoff.background" /\ held[x] = 0 /\ u \in Users
  BY Parts, CalmParts DEF HandoffLooksInBackground, Roles, HoldPcs, Hands, HandsOf, CarryPcs
<1>2. /\ UNCHANGED <<slots, pending, nextGen, poisoned, kind, origin, proc, fate, client, authed,
                     cl, us, ref, rk>>
      /\ background' = [background EXCEPT ![u] = 0]
      /\ held' = [held EXCEPT ![x] = background[u]] /\ Goto(x, label)
  BY CalmParts DEF HandoffLooksInBackground, manager, origins, CalmRuns
<1>3. /\ background'[u] = 0 /\ held'[x] = background[u]
      /\ \A v \in Users : v # u => background'[v] = background[v]
      /\ \A y \in Tasks : y # x => Same(y)
      /\ pc'[x] = label /\ us'[x] = u /\ cl'[x] = cl[x] /\ ref'[x] = ref[x]
  BY <1>1, <1>2, Parts DEF Goto, TypeOK, Same
<1>4. /\ pc'[x] \in EmptyPcs /\ pc'[x] \in ClientOpPcs
      /\ pc'[x] \notin StagePcs \cup PollPcs \cup MovePcs \cup NewLoginPcs
      /\ pc'[x] \notin TakePcs \cup ClaimPcs \cup {"handoff.start", "login.watch"}
  BY <1>3 DEF ClientOpPcs, ClaimPcs, EmptyPcs, TakePcs, HandoffPcs, StagePcs, PollPcs, MovePcs,
              NewLoginPcs
<1>5. pc[x] \in UserOpPcs /\ pc[x] \in ClientOpPcs /\ pc[x] \in EmptyPcs /\ pc[x] \in CarryPcs
  BY <1>1 DEF UserOpPcs, ClientOpPcs, EmptyPcs, HandoffPcs, CarryPcs
<1>6. cl[x] \in Clients /\ st[cl[x]] = "Idle" /\ client[ref[x]] = cl[x]
  BY <1>1, <1>5, CalmParts DEF SlotOf, Carries
<1>7. Alone(x)  BY <1>1, <1>3, <1>4, <1>5, NarrowAlone
<1>8. DuesStay(x)  BY <1>1, <1>2, <1>3, <1>5, DuesNarrow
<1>9. TaskOK(x)'
  <2>1. Roles(x)' /\ Polls(x)'
    BY <1>1, <1>3, <1>4 DEF Roles, Polls, WatcherPcs, HoldPcs
  <2>2. SlotOf(x)'  BY <1>2, <1>3, <1>4, <1>6 DEF SlotOf, slots
  <2>3. Carries(x)'  BY <1>2, <1>3, <1>4, <1>6 DEF Carries
  <2>4. Knows(x)'  BY <1>3 DEF Knows
  <2> QED BY <2>1, <2>2, <2>3, <2>4 DEF TaskOK
<1> QED BY <1>1, <1>2, <1>3, <1>4, <1>7, <1>8, <1>9, BackgroundMoves

-----------------------------------------------------------------------------
(* Steps that release a session or put it into a slot *)

\* background_or_discard parks a desktop where none of the user is parked.
LEMMA Releases ==
  ASSUME IInv, CInv, IInv', NEW x \in Tasks, pc[x] \in MovePcs, Release(held[x]), held'[x] = 0,
         UNCHANGED <<slots, pending, nextGen, poisoned, kind, origin, proc, client, authed>>,
         \A y \in Tasks : y # x => Same(y),
         Alone(x), TaskOK(x)',
         pc'[x] \in UserOpPcs => us'[x] = us[x],
         pc'[x] \notin NewLoginPcs \cup {"handoff.start"}
  PROVE  CInv'
<1> DEFINE s == held[x]
<1>1. s \in Gens /\ fate[s] = "live" /\ s # 0  BY Points, Owners
<1>2. us[x] = UserOf(s) /\ pc[x] \in UserOpPcs /\ pc[x] # "none"
  BY Points, CalmParts DEF Carries, MovePcs
<1>3. st' = st /\ ses' = ses  BY DEF slots
<1>4. WatchersStay(x)  BY <1>2, <1>3, WatchersNarrow
<1>5. CASE IsDesktop(s)
  <2> DEFINE u == kind[s]
  <2>1. u \in Users /\ us[x] = u  BY <1>2, <1>5 DEF IsDesktop, UserOf
  <2>2. background[u] = 0
    <3>1. background[u] # 0 => /\ background[u] \in Gens /\ fate[background[u]] = "live"
                               /\ kind[background[u]] = u
      BY <2>1, Parts, SomeSession DEF BackgroundIsTheUsers, TypeOK
    <3>2. background[u] # 0 => background[u] # s  BY <2>1, Parts DEF OneHome
    <3> QED BY <1>1, <2>1, <3>1, <3>2, CalmParts DEF OneDesktopPerUser, IsDesktop
  <2>3. background' = [background EXCEPT ![u] = s] /\ fate' = Ended(0, "dropped")
    BY <1>5, <2>2 DEF Release
  <2>4. fate' = fate  BY <2>3, Parts, Kinds DEF Ended, TypeOK
  <2>5. Persists /\ RespectsSessions(x) /\ LossesStay /\ Sound'  BY <2>4, SessionsStay
  <2>6. /\ background'[u] = s
        /\ \A v \in Users : v # u => background'[v] = background[v]
    BY <2>1, <2>3, Parts DEF TypeOK
  <2>7. RespectsSlots(x)  BY <1>3, <2>1, <2>6 DEF RespectsSlots
  <2>8. DuesStay(x)  BY <1>2, <2>4, DuesNarrow
  <2>9. Homed'
    <3>1. \A c \in Clients : ses[c] # 0 /\ IsDesktop(ses[c]) => Kept(ses[c])  BY <1>3 DEF Kept
    <3>2. \A v \in Users : background[v] # 0 => Kept(background[v])
      <4> SUFFICES ASSUME NEW v \in Users, background[v] # 0 PROVE Kept(background[v])
        OBVIOUS
      <4>1. v # u  BY <2>2
      <4> QED BY <2>6, <4>1, Parts DEF Kept, BackgroundIsTheUsers
    <3>3. \A y \in Tasks : held[y] # 0 => Kept(held[y])
      <4> SUFFICES ASSUME NEW y \in Tasks PROVE Kept(held[y])
        OBVIOUS
      <4>1. CASE y = x  BY <2>6, <4>1 DEF Kept
      <4>2. CASE y # x  BY <4>2 DEF Kept, Same
      <4> QED BY <4>1, <4>2
    <3> QED BY <2>4, <3>1, <3>2, <3>3, HomesStay
  <2> QED BY <1>4, <2>5, <2>7, <2>8, <2>9, CalmStep DEF Respects
<1>6. CASE ~IsDesktop(s)
  <2>1. fate' = Ended(s, "discarded") /\ background' = background  BY <1>6 DEF Release
  <2>2. Persists /\ RespectsSessions(x) /\ LossesStay /\ Sound'
    BY <1>1, <1>6, <2>1, SessionEnds DEF IsDesktop
  <2>3. RespectsSlots(x)  BY <1>3, <2>1 DEF RespectsSlots
  <2>4. \A h \in Gens : fate'[h] = "live" => fate[h] = "live" /\ h # s  BY <2>1 DEF Ended
  <2>5. DuesStay(x)  BY <1>2, <2>4, DuesNarrow
  <2>6. Homed'
    <3>1. \A c \in Clients : ses[c] # 0 /\ IsDesktop(ses[c]) => Kept(ses[c])  BY <1>3 DEF Kept
    <3>2. \A v \in Users : background[v] # 0 => Kept(background[v])
      BY <2>1, Parts DEF Kept, BackgroundIsTheUsers
    <3>3. \A y \in Tasks : held[y] # 0 => Kept(held[y])
      <4> SUFFICES ASSUME NEW y \in Tasks PROVE Kept(held[y])
        OBVIOUS
      <4>1. CASE y = x  BY <1>1, <2>4, <4>1 DEF Kept
      <4>2. CASE y # x  BY <4>2 DEF Kept, Same
      <4> QED BY <4>1, <4>2
    <3> QED BY <2>4, <3>1, <3>2, <3>3, HomesStay
  <2> QED BY <1>4, <2>2, <2>3, <2>5, <2>6, CalmStep DEF Respects
<1> QED BY <1>5, <1>6

\* /launch releases what was in the slot and goes on to spawn a login stage.
LEMMA LaunchReplaceCalm ==
  ASSUME IInv, CInv, IInv', NEW x \in Requests, LaunchReplace(x) PROVE CInv'
<1>1. x \in Tasks /\ pc[x] = "launch.replace"  BY DEF LaunchReplace
<1>2. /\ UNCHANGED <<slots, pending, nextGen, poisoned, kind, origin, proc, client, authed, cl, us,
                     ref, rk>>
      /\ Release(held[x]) /\ held' = [held EXCEPT ![x] = 0] /\ Goto(x, "launch.spawn")
  BY DEF LaunchReplace, manager, origins
<1>3. /\ held'[x] = 0 /\ pc'[x] = "launch.spawn" /\ cl'[x] = cl[x] /\ us'[x] = us[x]
      /\ \A y \in Tasks : y # x => Same(y)
  BY <1>1, <1>2, Parts DEF Goto, TypeOK, Same
<1>4. /\ pc[x] \in MovePcs /\ pc[x] \in ClaimPcs /\ pc[x] \in ClientOpPcs /\ pc[x] \in UserOpPcs
      /\ pc'[x] \in ClaimPcs /\ pc'[x] \in ClientOpPcs
      /\ pc'[x] \notin StagePcs \cup PollPcs \cup MovePcs \cup NewLoginPcs \cup CarryPcs
      /\ pc'[x] \notin TakePcs \cup EmptyPcs \cup {"handoff.start", "login.watch"}
  BY <1>1, <1>3
     DEF ClientOpPcs, ClaimPcs, EmptyPcs, TakePcs, HandoffPcs, UserOpPcs, StagePcs, PollPcs, MovePcs,
         NewLoginPcs, CarryPcs
<1>5. Alone(x)  BY <1>1, <1>3, <1>4, NarrowAlone
<1>6. TaskOK(x)'
  <2>1. Roles(x)' /\ Knows(x)' /\ Polls(x)' /\ Carries(x)'
    BY <1>3, <1>4 DEF Roles, Knows, Polls, Carries, WatcherPcs, HoldPcs
  <2>2. SlotOf(x)  BY <1>1, CalmParts
  <2>3. SlotOf(x)'  BY <1>2, <1>3, <1>4, <2>2 DEF SlotOf, slots
  <2> QED BY <2>1, <2>3 DEF TaskOK
<1> QED BY <1>1, <1>2, <1>3, <1>4, <1>5, <1>6, Releases

\* cancel parks the desktop it took, or ends the login stage.
LEMMA CancelReleasesCalm ==
  ASSUME IInv, CInv, IInv', NEW x \in Tasks, CancelReleases(x) PROVE CInv'
<1>1. pc[x] \in MovePcs  BY DEF CancelReleases, MovePcs
<1>2. /\ UNCHANGED <<slots, pending, nextGen, poisoned, kind, origin, proc, client, authed>>
      /\ Release(held[x]) /\ Return(x)
  BY DEF CancelReleases, manager, origins
<1>3. pc'[x] = Rest(x) /\ held'[x] = 0  BY <1>2, Parts DEF Return, Goto, TypeOK
<1>4. \A y \in Tasks : y # x => Same(y)  BY <1>2, Parts, ReturnEffect
<1> QED BY <1>1, <1>2, <1>3, <1>4, RestCalm, Releases

\* An operation on a client that has a claim to the slot puts what it owns there: the slot
\* is empty, and nobody else works on it.
LEMMA Puts ==
  ASSUME IInv, CInv, NEW x \in Tasks, pc[x] \in ClaimPcs \cup EmptyPcs, NEW state,
         PutSlot(cl[x], state, held[x]), held'[x] = 0,
         UNCHANGED <<background, poisoned, kind, proc, client>>,
         \A h \in Gens : h # held[x] => origin'[h] = origin[h],
         \A y \in Tasks : y # x => held'[y] = held[y]
  PROVE  /\ Persists /\ Respects(x) /\ LossesStay /\ Sound' /\ Homed' /\ fate' = fate
         /\ cl[x] \in Clients /\ ses[cl[x]] = 0
         /\ st'[cl[x]] = state /\ ses'[cl[x]] = held[x]
         /\ \A d \in Clients : d # cl[x] => st'[d] = st[d] /\ ses'[d] = ses[d]
<1> DEFINE c == cl[x]
<1>1. pc[x] \in ClientOpPcs /\ pc[x] # "none"  BY Points DEF ClaimPcs, EmptyPcs, HandoffPcs
<1>2. c \in Clients /\ ses[c] = 0
  BY <1>1, CalmParts, Parts DEF SlotOf, SlotShape
<1>3. /\ st'[c] = state /\ ses'[c] = held[x]
      /\ \A d \in Clients : d # c => st'[d] = st[d] /\ ses'[d] = ses[d]
  BY <1>2, Parts DEF PutSlot, TypeOK
<1>4. fate' = fate  BY <1>2, Parts, Kinds DEF PutSlot, Ended, TypeOK
<1>5. Persists /\ LossesStay /\ Sound'
  BY <1>4, CalmParts DEF Persists, LossesStay, Sound
<1>6. RespectsSessions(x)
  <2>1. \A y \in Tasks : y # x /\ held[y] # 0 => held[y] \in Gens /\ held[y] # held[x]
    BY Parts, Owners DEF OneHome
  <2> QED BY <1>4, <2>1 DEF RespectsSessions
<1>7. RespectsSlots(x)
  <2>1. \A y \in Tasks : y # x => ~OpOn(y, c)
    BY <1>1, CalmParts DEF OpOn, Exclusive, Clash
  <2>2. OpOn(x, c)  BY <1>1 DEF OpOn
  <2> QED BY <1>3, <2>1, <2>2 DEF RespectsSlots
<1>8. Homed'
  <2>1. \A d \in Clients : ses[d] # 0 /\ IsDesktop(ses[d]) => Kept(ses[d])
    <3> SUFFICES ASSUME NEW d \in Clients, ses[d] # 0 PROVE Kept(ses[d])
      OBVIOUS
    <3>1. d # c  BY <1>2
    <3> QED BY <1>3, <3>1 DEF Kept
  <2>2. \A v \in Users : background[v] # 0 => Kept(background[v])
    BY Parts DEF Kept, BackgroundIsTheUsers
  <2>3. \A y \in Tasks : held[y] # 0 => Kept(held[y])
    <3> SUFFICES ASSUME NEW y \in Tasks PROVE Kept(held[y])
      OBVIOUS
    <3>1. CASE y = x  BY <1>2, <1>3, <3>1 DEF Kept
    <3>2. CASE y # x  BY <3>2 DEF Kept
    <3> QED BY <3>1, <3>2
  <2> QED BY <1>4, <2>1, <2>2, <2>3, HomesStay
<1> QED BY <1>2, <1>3, <1>4, <1>5, <1>6, <1>7, <1>8 DEF Respects

\* /launch puts its login stage into the slot it claimed, or leaves the slot empty.
LEMMA LaunchEndsCalm ==
  ASSUME IInv, CInv, IInv', NEW x \in Requests, LaunchInsert(x) \/ LaunchFails(x) PROVE CInv'
<1> DEFINE state == IF pc[x] = "launch.insert" THEN "Launched" ELSE "Idle"
<1>1. x \in Tasks /\ pc[x] \in {"launch.insert", "launch.fail"}
  BY DEF LaunchInsert, LaunchFails
<1>2. pc[x] = "launch.fail" => held[x] = 0  BY <1>1, CalmParts DEF Roles, HoldPcs
<1>3. /\ UNCHANGED <<background, pending, nextGen, poisoned, kind, origin, proc, client, authed>>
      /\ PutSlot(cl[x], state, held[x]) /\ Return(x)
  BY <1>2 DEF LaunchInsert, LaunchFails, manager, origins
<1>4. pc'[x] = Rest(x) /\ held'[x] = 0  BY <1>1, <1>3, Parts DEF Return, Goto, TypeOK
<1>5. \A y \in Tasks : y # x => Same(y)  BY <1>1, <1>3, Parts, ReturnEffect
<1>6. pc[x] \in ClaimPcs /\ pc[x] # "none"  BY <1>1 DEF ClaimPcs
<1>7. /\ Persists /\ Respects(x) /\ LossesStay /\ Sound' /\ Homed' /\ fate' = fate
      /\ st'[cl[x]] = state /\ ses'[cl[x]] = held[x]
      /\ \A d \in Clients : d # cl[x] => st'[d] = st[d] /\ ses'[d] = ses[d]
  <2>1. \A y \in Tasks : y # x => held'[y] = held[y]  BY <1>5 DEF Same
  <2> QED BY <1>1, <1>3, <1>4, <1>6, <2>1, Puts
<1>8. /\ TaskOK(x)' /\ Alone(x)
      /\ pc'[x] \notin UserOpPcs \cup NewLoginPcs \cup {"handoff.start"} \cup MovePcs
  BY <1>1, <1>4, RestCalm
<1>9. DuesStay(x)  BY <1>1, <1>3, <1>7, <1>8, DuesNarrow
<1>10. WatchersStay(x)
  <2>1. pc[x] = "launch.insert" => /\ held[x] \in Gens /\ kind[held[x]] = "login"
                                   /\ pc[held[x]] = "none"
    <3>1. "launch.insert" \in NewLoginPcs /\ "launch.insert" \in HoldPcs
      BY DEF NewLoginPcs, HoldPcs
    <3> QED BY <1>1, <3>1, Owners, CalmParts DEF Carries, Unwatched
  <2> QED BY <1>3, <1>6, <1>7, <1>8, <2>1 DEF WatchersStay
<1> QED BY <1>1, <1>5, <1>7, <1>8, <1>9, <1>10, CalmStep

\* A resumed desktop goes to the client of the login it was resumed by.
LEMMA HandoffResumesCalm ==
  ASSUME IInv, CInv, IInv', NEW x \in Gens, HandoffResumes(x) PROVE CInv'
<1>1. x \in Tasks /\ pc[x] = "handoff.resume"  BY DEF HandoffResumes
<1>2. pc[x] \in EmptyPcs /\ pc[x] \in UserOpPcs /\ pc[x] \in CarryPcs /\ pc[x] \in HoldPcs /\ pc[x] # "none"
  BY <1>1 DEF EmptyPcs, UserOpPcs, HandoffPcs, CarryPcs, HoldPcs
<1>3. client[ref[x]] = cl[x] /\ held[x] \in Gens /\ fate[held[x]] = "live"
  BY <1>2, CalmParts, Owners DEF Carries
<1>4. UNCHANGED <<background, pending, nextGen, poisoned, kind, proc, client, authed>>
  BY DEF HandoffResumes, manager, origins
<1>5. CASE origin' = [origin EXCEPT ![held[x]] = ref[x]] /\ StartStreaming(x, held[x], cl[x], FALSE)
  <2>1. /\ pc'[x] = Rest(x) /\ held'[x] = 0 /\ PutSlot(cl[x], "Streaming", held[x])
        /\ \A y \in Tasks : y # x => Same(y)
    BY <1>1, <1>5, Parts DEF StartStreaming, TypeOK, Same
  <2>2. /\ Persists /\ Respects(x) /\ LossesStay /\ Sound' /\ Homed' /\ fate' = fate
        /\ st'[cl[x]] = "Streaming"
        /\ \A d \in Clients : d # cl[x] => st'[d] = st[d] /\ ses'[d] = ses[d]
    <3>1. \A h \in Gens : h # held[x] => origin'[h] = origin[h]  BY <1>5
    <3>2. \A y \in Tasks : y # x => held'[y] = held[y]  BY <2>1 DEF Same
    <3> QED BY <1>1, <1>2, <1>4, <2>1, <3>1, <3>2, Puts
  <2>3. /\ TaskOK(x)' /\ Alone(x)
        /\ pc'[x] \notin UserOpPcs \cup NewLoginPcs \cup {"handoff.start"} \cup MovePcs
    BY <1>1, <2>1, RestCalm
  <2>4. DuesStay(x)  BY <1>1, <1>4, <2>2, <2>3, DuesNarrow
  <2>5. WatchersStay(x)  BY <1>1, <1>2, <1>4, <2>2, <2>3, WatchersNarrow
  <2> QED BY <1>1, <2>1, <2>2, <2>3, <2>4, <2>5, CalmStep
<1>6. CASE fate' = Ended(held[x], "failed") /\ Return(x) /\ UNCHANGED <<slots, origin>>
  <2>1. pc'[x] = Rest(x) /\ held'[x] = 0 /\ st' = st /\ ses' = ses
    BY <1>1, <1>6, Parts DEF Return, Goto, TypeOK, slots
  <2>2. \A y \in Tasks : y # x => Same(y)  BY <1>1, <1>6, Parts, ReturnEffect
  <2>3. Persists /\ RespectsSessions(x) /\ LossesStay /\ Sound'
    BY <1>1, <1>3, <1>4, <1>6, SessionEnds
  <2>4. RespectsSlots(x)  BY <1>4, <2>1 DEF RespectsSlots
  <2>5. \A h \in Gens : fate'[h] = "live" => fate[h] = "live" /\ h # held[x]  BY <1>6 DEF Ended
  <2>6. /\ TaskOK(x)' /\ Alone(x)
        /\ pc'[x] \notin UserOpPcs \cup NewLoginPcs \cup {"handoff.start"} \cup MovePcs
    BY <1>1, <2>1, RestCalm
  <2>7. DuesStay(x)  BY <1>1, <1>4, <2>5, <2>6, DuesNarrow
  <2>8. WatchersStay(x)  BY <1>1, <1>2, <1>4, <2>1, <2>6, WatchersNarrow
  <2>9. Homed'
    <3>1. \A c \in Clients : ses[c] # 0 /\ IsDesktop(ses[c]) => Kept(ses[c])  BY <2>1 DEF Kept
    <3>2. \A v \in Users : background[v] # 0 => Kept(background[v])
      BY <1>4, Parts DEF Kept, BackgroundIsTheUsers
    <3>3. \A y \in Tasks : held[y] # 0 => Kept(held[y])
      <4> SUFFICES ASSUME NEW y \in Tasks PROVE Kept(held[y])
        OBVIOUS
      <4>1. CASE y = x  BY <1>3, <2>5, <4>1 DEF Kept
      <4>2. CASE y # x  BY <2>2, <4>2 DEF Kept, Same
      <4> QED BY <4>1, <4>2
    <3> QED BY <1>4, <2>5, <3>1, <3>2, <3>3, HomesStay
  <2> QED BY <1>1, <2>2, <2>3, <2>4, <2>6, <2>7, <2>8, <2>9, CalmStep DEF Respects
<1> QED BY <1>1, <1>3, <1>5, <1>6 DEF HandoffResumes

\* A session that streams for the first time gets its watcher; that of a login stage is the
\* only one for its client.
LEMMA StreamsCalm ==
  ASSUME IInv, CInv, IInv', NEW x \in Tasks, pc[x] \in {"play.fresh", "handoff.start"},
         StartStreaming(x, held[x], cl[x], TRUE),
         UNCHANGED <<background, pending, nextGen, poisoned, kind, origin, proc, client, authed>>
  PROVE  CInv'
<1> DEFINE c == cl[x]
<1>0. PICK g : g = held[x]  OBVIOUS
<1>1. /\ pc[x] \in EmptyPcs /\ pc[x] \in ClientOpPcs /\ pc[x] \in HoldPcs /\ pc[x] # "none"
      /\ pc[x] \in NewLoginPcs \cup {"handoff.start"}
  BY DEF EmptyPcs, ClientOpPcs, HandoffPcs, HoldPcs, NewLoginPcs
<1>2. g \in Gens /\ fate[g] = "live" /\ pc[g] = "none" /\ g # x /\ g \in Tasks
  BY <1>0, <1>1, Owners, CalmParts DEF Unwatched
<1>3. held[g] = 0 /\ cl[g] = "none"  BY <1>2, CalmParts DEF Roles, HoldPcs
<1>4. kind[g] = "login" => pc[x] = "play.fresh"
  BY <1>0, CalmParts, Kinds DEF Carries
<1>5. /\ PutSlot(c, "Streaming", g) /\ held'[x] = 0 /\ pc'[x] = Rest(x)
      /\ \A y \in Tasks : y # x => held'[y] = held[y]
      /\ \A y \in Tasks : y # x /\ y # g => Same(y)
      /\ kind[g] = "login" => pc'[g] = "login.watch" /\ cl'[g] = c
      /\ kind[g] # "login" => pc'[g] = "user.tick" /\ cl'[g] = "none"
      /\ held'[g] = 0
  BY <1>0, <1>2, <1>3, Parts DEF StartStreaming, TypeOK, Same
<1>6. /\ Persists /\ Respects(x) /\ LossesStay /\ Sound' /\ Homed' /\ fate' = fate
      /\ c \in Clients /\ ses[c] = 0 /\ st'[c] = "Streaming" /\ ses'[c] = g
      /\ \A d \in Clients : d # c => st'[d] = st[d] /\ ses'[d] = ses[d]
  BY <1>0, <1>1, <1>5, Puts
<1>7. /\ TaskOK(x)'
      /\ pc'[x] \notin UserOpPcs \cup NewLoginPcs \cup {"handoff.start"} \cup MovePcs
  BY <1>5, RestCalm
<1>8. TaskOK(g)' /\ pc'[g] \in {"login.watch", "user.tick"}
  <2>1. pc'[g] \in {"login.watch", "user.tick"} /\ (pc'[g] = "user.tick" => cl'[g] = "none")
    BY <1>5
  <2>2. Roles(g)'  BY <1>2, <1>5, <2>1 DEF Roles
  <2>3. SlotOf(g)' /\ Carries(g)' /\ Knows(g)' /\ Polls(g)'
    BY <2>1
       DEF SlotOf, Carries, Knows, Polls, PollPcs, ClientOpPcs, ClaimPcs, EmptyPcs, TakePcs,
           HandoffPcs, CarryPcs, MovePcs, NewLoginPcs
  <2> QED BY <2>1, <2>2, <2>3 DEF TaskOK
<1>9. \A y \in Tasks : TaskOK(y)'
  <2> SUFFICES ASSUME NEW y \in Tasks, y # x, y # g PROVE TaskOK(y)'
    BY <1>7, <1>8
  <2> QED BY <1>5, <1>6, OthersKnow
<1>10. Exclusive'
  <2>1. pc'[x] \in {"idle", "stopped"}  BY <1>5, RestPcs
  <2>2. pc'[x] \notin ClientOpPcs \cup UserOpPcs \cup PollPcs \cup MovePcs \cup StagePcs
        /\ pc'[g] \notin ClientOpPcs \cup UserOpPcs \cup PollPcs \cup MovePcs
        /\ pc'[x] # "login.watch"
    BY <2>1, <1>8 DEF ClientOpPcs, ClaimPcs, EmptyPcs, TakePcs, HandoffPcs, UserOpPcs, PollPcs, MovePcs,
                      StagePcs
  <2>3. ASSUME NEW y \in Tasks, y # x, y # g, pc'[g] = "login.watch", pc[y] \in StagePcs PROVE cl[y] # c
    <3>1. pc[x] = "play.fresh" /\ pc[x] \in StagePcs  BY <1>4, <1>5, <2>3 DEF StagePcs
    <3>2. /\ ~Clash(pc[x], cl[x], us[x], pc[y], cl[y], us[y])
          /\ ~Clash(pc[y], cl[y], us[y], pc[x], cl[x], us[x])
      BY <2>3, CalmParts DEF Exclusive
    <3>3. CASE pc[y] = "login.watch"  BY <3>1, <3>2, <3>3 DEF Clash
    <3>4. CASE pc[y] # "login.watch"
      <4>1. pc[y] \in ClientOpPcs  BY <2>3, <3>4 DEF StagePcs, ClientOpPcs, EmptyPcs
      <4> QED BY <1>1, <3>2, <4>1 DEF Clash
    <3> QED BY <3>3, <3>4
  <2>4. pc'[g] \in StagePcs => pc'[g] = "login.watch"  BY <1>8 DEF StagePcs, TakePcs
  <2> SUFFICES ASSUME NEW a \in Tasks, NEW b \in Tasks, a # b
               PROVE  ~Clash(pc'[a], cl'[a], us'[a], pc'[b], cl'[b], us'[b])
    BY DEF Exclusive, Clash
  <2>5. CASE a = x \/ b = x  BY <2>2, <2>5 DEF Clash
  <2>6. CASE a = g /\ b # x
    <3>1. Same(b)  BY <1>5, <2>6
    <3>2. pc[b] = pc'[b] /\ cl[b] = cl'[b] /\ us[b] = us'[b]  BY <3>1 DEF Same
    <3>3. pc'[g] = "login.watch" => cl'[g] = c  BY <1>5
    <3> QED BY <2>2, <2>3, <2>6, <3>2, <3>3 DEF Clash
  <2>7. CASE b = g /\ a # x
    <3>1. Same(a)  BY <1>5, <2>7
    <3>2. pc[a] = pc'[a] /\ cl[a] = cl'[a] /\ us[a] = us'[a]  BY <3>1 DEF Same
    <3>3. pc'[g] = "login.watch" => cl'[g] = c  BY <1>5
    <3>4. "login.watch" \in StagePcs  BY DEF StagePcs
    <3> QED BY <2>2, <2>3, <2>4, <2>7, <3>2, <3>3, <3>4 DEF Clash
  <2>8. CASE a \notin {x, g} /\ b \notin {x, g}
    <3>1. Same(a) /\ Same(b)  BY <1>5, <2>8
    <3>2. ~Clash(pc[a], cl[a], us[a], pc[b], cl[b], us[b])  BY CalmParts DEF Exclusive
    <3> QED BY <3>1, <3>2 DEF Same, Clash
  <2> QED BY <2>5, <2>6, <2>7, <2>8
<1>11. DueAlone'
  <2>1. \A h \in Gens : HandoffDue(h)' <=> HandoffDue(h)  BY <1>6 DEF HandoffDue
  <2>2. pc'[g] \notin UserOpPcs  BY <1>8 DEF UserOpPcs, ClaimPcs, HandoffPcs
  <2>3. \A y \in Tasks : pc'[y] \in UserOpPcs => pc[y] \in UserOpPcs /\ us'[y] = us[y]
    BY <1>5, <1>7, <2>2 DEF Same
  <2> QED BY <2>1, <2>3, CalmParts DEF DueAlone
<1>12. Unwatched'
  <2>1. \A h \in Gens : pc[h] = "none" /\ h # g => pc'[h] = "none"
    BY <1>1, <1>5 DEF Same
  <2>2. g < nextGen
    <3>1. nextGen \in Nat /\ g \in Nat  BY GenNumbers, <1>2
    <3> QED BY <1>2, <3>1, Parts DEF Unborn
  <2>3. \A h \in Gens : h >= nextGen' => pc'[h] = "none"
    <3> SUFFICES ASSUME NEW h \in Gens, h >= nextGen PROVE pc'[h] = "none"
      OBVIOUS
    <3>1. h # g
      <4>1. nextGen \in Nat /\ g \in Nat  BY GenNumbers, <1>2
      <4> QED BY <2>2, <4>1
    <3> QED BY <2>1, <3>1, CalmParts DEF Unwatched
  <2>4. \A y \in Tasks : pc'[y] \in NewLoginPcs \cup {"handoff.start"} => pc'[held'[y]] = "none"
    <3> SUFFICES ASSUME NEW y \in Tasks, pc'[y] \in NewLoginPcs \cup {"handoff.start"}
                 PROVE  pc'[held'[y]] = "none"
      OBVIOUS
    <3>1. y # x /\ y # g  BY <1>7, <1>8 DEF NewLoginPcs
    <3>2. pc[y] = pc'[y] /\ held[y] = held'[y]  BY <1>5, <3>1 DEF Same
    <3>3. held[y] \in Gens /\ held[y] # 0  BY <3>2, Points, Owners
    <3>4. held[y] # g  BY <1>0, <3>1, <3>3, Parts DEF OneHome
    <3>5. pc[held[y]] = "none"  BY <3>2, CalmParts DEF Unwatched
    <3> QED BY <2>1, <3>2, <3>3, <3>4, <3>5
  <2>5. \A d \in Clients : st'[d] = "Launched" => kind'[ses'[d]] = "login" /\ pc'[ses'[d]] = "none"
    <3> SUFFICES ASSUME NEW d \in Clients, st'[d] = "Launched"
                 PROVE  kind[ses'[d]] = "login" /\ pc'[ses'[d]] = "none"
      OBVIOUS
    <3>1. d # c /\ st[d] = "Launched" /\ ses'[d] = ses[d]  BY <1>6
    <3>2. ses[d] # 0 /\ ses[d] \in Gens  BY <3>1, Parts, Owners DEF SlotShape
    <3>3. ses[d] # g  BY <1>0, <3>2, Parts DEF OneHome
    <3>4. kind[ses[d]] = "login" /\ pc[ses[d]] = "none"  BY <3>1, CalmParts DEF Unwatched
    <3> QED BY <2>1, <3>1, <3>2, <3>3, <3>4
  <2> QED BY <2>3, <2>4, <2>5 DEF Unwatched
<1>13. NoDesktopLost' /\ OneDesktopPerUser'  BY <1>6, NoneLost, OneDesktopStays DEF Respects
<1>14. CalmRuns'  BY CalmParts DEF CalmRuns
<1> QED BY <1>6, <1>9, <1>10, <1>11, <1>12, <1>13, <1>14 DEF CInv

\* The first PLAY streams the login stage to the client that launched it.
LEMMA PlayFreshCalm ==
  ASSUME IInv, CInv, IInv', NEW x \in Requests, PlayFresh(x) PROVE CInv'
<1>1. x \in Tasks /\ pc[x] = "play.fresh"  BY DEF PlayFresh
<1>2. client[origin[held[x]]] = cl[x]  BY <1>1, CalmParts DEF Carries
<1>3. StartStreaming(x, held[x], cl[x], TRUE)  BY <1>2 DEF PlayFresh
<1>4. UNCHANGED <<background, pending, nextGen, poisoned, kind, origin, proc, client, authed>>
  BY CalmParts DEF PlayFresh, manager, origins, CalmRuns
<1> QED BY <1>1, <1>3, <1>4, StreamsCalm

\* A new desktop streams to the client its user logged in on.
LEMMA HandoffStreamsCalm ==
  ASSUME IInv, CInv, IInv', NEW x \in Gens, HandoffStreams(x) PROVE CInv'
<1>1. x \in Tasks /\ pc[x] = "handoff.start"  BY DEF HandoffStreams
<1>2. client[origin[held[x]]] = cl[x]  BY <1>1, CalmParts DEF Carries
<1>3. StartStreaming(x, held[x], cl[x], TRUE)  BY <1>2 DEF HandoffStreams
<1>4. UNCHANGED <<background, pending, nextGen, poisoned, kind, origin, proc, client, authed>>
  BY DEF HandoffStreams, manager, origins
<1> QED BY <1>1, <1>3, <1>4, StreamsCalm

-----------------------------------------------------------------------------
(* Steps that make a session *)

\* x makes a session: a login stage, or the desktop of a user who has none.
LEMMA Makes ==
  ASSUME IInv, CInv, IInv', NEW x \in Tasks, pc[x] # "none", held[x] = 0, NEW k, NEW o,
         NewSession(x, k, o),
         k = "login" \/ (pc[x] = "handoff.spawn" /\ k = us[x]),
         UNCHANGED <<slots, background, pending, poisoned, authed>>,
         \A h \in Gens : h # nextGen => client'[h] = client[h],
         \A y \in Tasks : y # x => Same(y),
         Alone(x), TaskOK(x)',
         pc'[x] \in UserOpPcs => pc[x] \in UserOpPcs /\ us'[x] = us[x]
  PROVE  CInv'
<1>0. PICK g \in Gens : g = nextGen  BY DEF NewSession
<1>1. /\ kind'[g] = k /\ proc'[g] = "running" /\ fate'[g] = "live" /\ held'[x] = g
      /\ \A h \in Gens : h # g =>
           /\ kind'[h] = kind[h] /\ origin'[h] = origin[h] /\ proc'[h] = proc[h]
           /\ fate'[h] = fate[h] /\ client'[h] = client[h]
      /\ nextGen' = nextGen + 1
  BY <1>0, Parts DEF NewSession, TypeOK
<1>2. fate[g] = "none" /\ kind[g] = "none"  BY <1>0, Kinds
<1>3. Persists  BY <1>1, <1>2 DEF Persists
<1>4. RespectsSessions(x)
  <2>1. \A y \in Tasks : held[y] # 0 => held[y] \in Gens /\ held[y] # g  BY <1>2, Owners
  <2> QED BY <1>0, <1>1, <2>1, Kinds DEF RespectsSessions
<1>5. LossesStay
  <2> SUFFICES ASSUME NEW h \in Gens, fate'[h] \in {"dropped", "discarded", "reaped"}
               PROVE  fate[h] # "none" /\ fate'[h] = fate[h]
    BY DEF LossesStay
  <2> QED BY <1>1
<1>6. Sound'  BY <1>1, CalmParts DEF Sound
<1>7. st' = st /\ ses' = ses  BY DEF slots
<1>8. RespectsSlots(x)  BY <1>7 DEF RespectsSlots
<1>9. DuesStay(x)
  <2> SUFFICES ASSUME NEW h \in Gens, HandoffDue(h)'
               PROVE  /\ HandoffDue(h) /\ authed'[h] = authed[h] /\ pending'[h] = pending[h]
                      /\ pc'[x] \in UserOpPcs => us'[x] # authed[h]
    BY DEF DuesStay
  <2>1. HandoffDue(h)  BY <1>1 DEF HandoffDue
  <2> QED BY <2>1, CalmParts DEF DueAlone
<1>10. WatchersStay(x)
  <2>1. pc[g] = "none"
    <3>1. nextGen >= nextGen  BY Parts, ConstantsAssumption DEF TypeOK, ConstantsAssumption
    <3> QED BY <1>0, <3>1, CalmParts DEF Unwatched
  <2>2. ASSUME NEW c \in Clients, st'[c] = "Launched" PROVE st[c] = "Launched" /\ ses'[c] = ses[c]
    BY <1>7, <2>2
  <2> QED BY <1>1, <2>1, <2>2 DEF WatchersStay
<1>11. Homed'
  <2>1. ASSUME NEW h \in Gens, fate'[h] = "live", kind'[h] \in Users
        PROVE  HasHome(h)' \/ (fate[h] = "live" /\ kind'[h] = kind[h])
    BY <1>1, <2>1 DEF HasHome
  <2>2. \A c \in Clients : ses[c] # 0 /\ IsDesktop(ses[c]) => Kept(ses[c])  BY <1>7 DEF Kept
  <2>3. \A v \in Users : background[v] # 0 => Kept(background[v])
    BY Parts DEF Kept, BackgroundIsTheUsers
  <2>4. \A y \in Tasks : held[y] # 0 => Kept(held[y])  BY DEF Kept, Same
  <2> QED BY <2>1, <2>2, <2>3, <2>4, HomesStay
<1> QED BY <1>3, <1>4, <1>5, <1>6, <1>8, <1>9, <1>10, <1>11, CalmStep DEF Respects

\* /launch makes a login stage for its client, or fails.
LEMMA LaunchSpawnCalm ==
  ASSUME IInv, CInv, IInv', NEW x \in Requests, LaunchSpawn(x) PROVE CInv'
<1>1. x \in Tasks /\ pc[x] = "launch.spawn" /\ held[x] = 0
  BY CalmParts DEF LaunchSpawn, Roles, HoldPcs
<1>2. UNCHANGED <<slots, background, pending, poisoned, authed, cl, us, ref, rk>>
  BY DEF LaunchSpawn
<1>3. pc[x] \in ClaimPcs /\ pc[x] \in ClientOpPcs /\ pc[x] \in UserOpPcs
  BY <1>1, Points DEF ClaimPcs
<1>4. ASSUME pc'[x] \in {"launch.register", "launch.fail"}
      PROVE  /\ pc'[x] \in ClaimPcs /\ pc'[x] \in ClientOpPcs /\ pc'[x] \in UserOpPcs
             /\ pc'[x] \notin StagePcs \cup PollPcs \cup MovePcs \cup CarryPcs
             /\ pc'[x] \notin TakePcs \cup EmptyPcs \cup {"handoff.start", "login.watch"}
  BY <1>4 DEF ClientOpPcs, ClaimPcs, EmptyPcs, TakePcs, HandoffPcs, UserOpPcs, StagePcs, PollPcs,
              MovePcs, CarryPcs
<1>5. SlotOf(x)  BY <1>1, CalmParts
<1>6. CASE /\ NewSession(x, "login", nextGen) /\ client' = [client EXCEPT ![nextGen] = cl[x]]
           /\ Goto(x, "launch.register")
  <2>1. /\ pc'[x] = "launch.register" /\ held'[x] = nextGen /\ us'[x] = us[x] /\ cl'[x] = cl[x]
        /\ kind'[nextGen] = "login"
        /\ \A y \in Tasks : y # x => Same(y)
    BY <1>1, <1>2, <1>6, Parts DEF NewSession, Goto, TypeOK, Same
  <2>2. Alone(x)  BY <1>1, <1>3, <1>4, <2>1, NarrowAlone
  <2>3. TaskOK(x)'
    <3>1. Roles(x)' /\ Knows(x)' /\ Polls(x)'
      BY <1>4, <2>1 DEF Roles, Knows, Polls, WatcherPcs, HoldPcs
    <3>2. SlotOf(x)'  BY <1>2, <1>3, <1>4, <1>5, <2>1 DEF SlotOf, slots
    <3>3. Carries(x)'  BY <1>4, <2>1 DEF Carries
    <3> QED BY <3>1, <3>2, <3>3 DEF TaskOK
  <2>4. \A h \in Gens : h # nextGen => client'[h] = client[h]  BY <1>6
  <2> QED BY <1>1, <1>2, <1>3, <1>6, <2>1, <2>2, <2>3, <2>4, Makes
<1>7. CASE Goto(x, "launch.fail") /\ UNCHANGED <<nextGen, kind, origin, proc, fate, held, client>>
  <2>1. /\ pc'[x] = "launch.fail" /\ held'[x] = held[x] /\ us'[x] = us[x] /\ cl'[x] = cl[x]
        /\ \A y \in Tasks : y # x => Same(y)
    BY <1>1, <1>2, <1>7, GoesOn
  <2>2. Alone(x)  BY <1>1, <1>3, <1>4, <2>1, NarrowAlone
  <2>3. TaskOK(x)'
    <3>1. Roles(x)' /\ Knows(x)' /\ Polls(x)'
      BY <1>1, <1>4, <2>1 DEF Roles, Knows, Polls, WatcherPcs
    <3>2. SlotOf(x)'  BY <1>2, <1>3, <1>4, <1>5, <2>1 DEF SlotOf, slots
    <3>3. Carries(x)'  BY <1>4, <2>1 DEF Carries, NewLoginPcs
    <3> QED BY <3>1, <3>2, <3>3 DEF TaskOK
  <2>4. pc'[x] \notin NewLoginPcs \cup {"handoff.start"}  BY <2>1 DEF NewLoginPcs
  <2> QED BY <1>1, <1>2, <1>3, <1>7, <2>1, <2>2, <2>3, <2>4, QuietStep
<1> QED BY <1>6, <1>7 DEF LaunchSpawn

\* A handoff makes the only desktop of its user, or fails.
LEMMA HandoffSpawnsCalm ==
  ASSUME IInv, CInv, IInv', NEW x \in Gens, HandoffSpawns(x) PROVE CInv'
<1>1. x \in Tasks /\ pc[x] = "handoff.spawn" /\ held[x] = 0 /\ us[x] \in Users /\ ref[x] \in Gens
      /\ kind[ref[x]] = "login"
  BY Parts, CalmParts DEF HandoffSpawns, Roles, HoldPcs, Hands, HandsOf, CarryPcs
<1>2. UNCHANGED <<slots, background, pending, poisoned, client, authed>>
  BY DEF HandoffSpawns, origins
<1>3. pc[x] \in EmptyPcs /\ pc[x] \in ClientOpPcs /\ pc[x] \in UserOpPcs /\ pc[x] \in CarryPcs
  BY <1>1 DEF EmptyPcs, ClientOpPcs, HandoffPcs, UserOpPcs, CarryPcs
<1>4. SlotOf(x) /\ client[ref[x]] = cl[x]  BY <1>1, <1>3, CalmParts DEF Carries
<1>5. CASE NewSession(x, us[x], ref[x]) /\ Goto(x, "handoff.start") /\ UNCHANGED <<cl, us, ref, rk>>
  <2>1. /\ pc'[x] = "handoff.start" /\ held'[x] = nextGen /\ us'[x] = us[x] /\ cl'[x] = cl[x]
        /\ kind'[nextGen] = us[x] /\ origin'[nextGen] = ref[x]
        /\ \A y \in Tasks : y # x => Same(y)
    BY <1>1, <1>5, Parts DEF NewSession, Goto, TypeOK, Same
  <2>2. /\ pc'[x] \in EmptyPcs /\ pc'[x] \in ClientOpPcs /\ pc'[x] \in UserOpPcs
        /\ pc'[x] \notin StagePcs \cup PollPcs \cup MovePcs \cup CarryPcs \cup NewLoginPcs
        /\ pc'[x] \notin TakePcs \cup ClaimPcs \cup {"login.watch"}
    BY <2>1 DEF ClientOpPcs, ClaimPcs, EmptyPcs, TakePcs, HandoffPcs, UserOpPcs, StagePcs, PollPcs,
                MovePcs, CarryPcs, NewLoginPcs
  <2>3. Alone(x)  BY <1>1, <1>3, <2>1, <2>2, NarrowAlone
  <2>4. TaskOK(x)'
    <3>1. Roles(x)' /\ Knows(x)' /\ Polls(x)'
      BY <2>1, <2>2 DEF Roles, Knows, Polls, WatcherPcs, HoldPcs
    <3>2. SlotOf(x)'  BY <1>2, <1>3, <1>4, <2>1, <2>2 DEF SlotOf, slots
    <3>3. Carries(x)'  BY <1>1, <1>2, <1>4, <2>1, <2>2 DEF Carries
    <3> QED BY <3>1, <3>2, <3>3 DEF TaskOK
  <2>5. \A h \in Gens : h # nextGen => client'[h] = client[h]  BY <1>2
  <2> QED BY <1>1, <1>2, <1>3, <1>5, <2>1, <2>3, <2>4, <2>5, Makes
<1>6. CASE Return(x) /\ UNCHANGED <<nextGen, kind, origin, proc, fate>>
  BY <1>1, <1>2, <1>6, QuietReturn
<1>7. CASE /\ nextGen \in Gens
           /\ nextGen' = nextGen + 1
           /\ kind' = [kind EXCEPT ![nextGen] = us[x]]
           /\ origin' = [origin EXCEPT ![nextGen] = ref[x]]
           /\ proc' = [proc EXCEPT ![nextGen] = "running"]
           /\ fate' = Ended(nextGen, "failed")
           /\ Return(x)
  <2>0. PICK g \in Gens : g = nextGen  BY <1>7
  <2>1. pc'[x] = Rest(x) /\ held'[x] = 0 /\ st' = st /\ ses' = ses
    BY <1>1, <1>2, <1>7, Parts DEF Return, Goto, TypeOK, slots
  <2>2. \A y \in Tasks : y # x => Same(y)  BY <1>1, <1>7, Parts, ReturnEffect
  <2>3. /\ fate[g] = "none" /\ kind[g] = "none"
        /\ fate'[g] = "failed" /\ proc'[g] = "running"
        /\ \A h \in Gens : h # g =>
             /\ kind'[h] = kind[h] /\ origin'[h] = origin[h] /\ proc'[h] = proc[h]
             /\ fate'[h] = fate[h]
    BY <1>7, <2>0, Kinds, Parts DEF Ended, TypeOK
  <2>4. Persists  BY <1>2, <2>3 DEF Persists
  <2>5. RespectsSessions(x)
    <3>1. \A y \in Tasks : held[y] # 0 => held[y] \in Gens /\ held[y] # g  BY <2>3, Owners
    <3> QED BY <2>3, <3>1 DEF RespectsSessions
  <2>6. LossesStay
    <3> SUFFICES ASSUME NEW h \in Gens, fate'[h] \in {"dropped", "discarded", "reaped"}
                 PROVE  fate[h] # "none" /\ fate'[h] = fate[h]
      BY DEF LossesStay
    <3> QED BY <2>3
  <2>7. Sound'  BY <1>2, <2>3, CalmParts DEF Sound
  <2>8. RespectsSlots(x)  BY <1>2, <2>1 DEF RespectsSlots
  <2>9. /\ TaskOK(x)' /\ Alone(x)
        /\ pc'[x] \notin UserOpPcs \cup NewLoginPcs \cup {"handoff.start"} \cup MovePcs
    BY <1>1, <2>1, RestCalm
  <2>10. DuesStay(x)
    <3> SUFFICES ASSUME NEW h \in Gens, HandoffDue(h)'
                 PROVE  HandoffDue(h) /\ authed'[h] = authed[h] /\ pending'[h] = pending[h]
      BY <2>9 DEF DuesStay
    <3> QED BY <1>2, <2>3 DEF HandoffDue
  <2>11. WatchersStay(x)  BY <1>1, <1>7, <2>1, <2>9 DEF WatchersStay
  <2>12. Homed'
    <3>1. \A h \in Gens : fate'[h] = "live" => fate[h] = "live" /\ kind'[h] = kind[h]
      BY <2>3
    <3>2. \A c \in Clients : ses[c] # 0 /\ IsDesktop(ses[c]) => Kept(ses[c])  BY <2>1 DEF Kept
    <3>3. \A v \in Users : background[v] # 0 => Kept(background[v])
      BY <1>2, Parts DEF Kept, BackgroundIsTheUsers
    <3>4. \A y \in Tasks : held[y] # 0 => Kept(held[y])  BY <1>1, <2>2 DEF Kept, Same
    <3> QED BY <3>1, <3>2, <3>3, <3>4, HomesStay
  <2> QED BY <1>1, <2>2, <2>4, <2>5, <2>6, <2>7, <2>8, <2>9, <2>10, <2>11, <2>12, CalmStep DEF Respects
<1> QED BY <1>5, <1>6, <1>7 DEF HandoffSpawns

-----------------------------------------------------------------------------
(* Steps that end a session *)

\* A handoff ends the login stage it is for, and nothing else happens to its user.
LEMMA HandoffTakesCalm ==
  ASSUME IInv, CInv, IInv', NEW x \in Gens, HandoffTakes(x) PROVE CInv'
<1>0. PICK c, s : c = cl[x] /\ s = ses[c]  OBVIOUS
<1>1. x \in Tasks /\ pc[x] = "handoff.take" /\ held[x] = 0
  BY CalmParts DEF HandoffTakes, Roles, HoldPcs
<1>2. pc[x] \in TakePcs /\ pc[x] \in ClientOpPcs /\ pc[x] \in StagePcs
  BY <1>1 DEF TakePcs, ClientOpPcs, StagePcs
<1>3. c \in Clients /\ st[c] = "Streaming" /\ kind[s] = "login" /\ HandoffDue(s)
  BY <1>0, <1>1, <1>2, CalmParts DEF SlotOf
<1>4. s \in Gens /\ fate[s] = "live" /\ s # 0  BY <1>0, <1>3, Parts, Owners DEF SlotShape
<1>5. pending[s] = authed[s] /\ authed[s] \in Users /\ pending[s] # "none"
  BY <1>3, <1>4, CalmParts, Kinds DEF DueAlone
<1>6. /\ UNCHANGED <<background, nextGen, poisoned, kind, origin, proc, client, authed, held, cl, rk>>
      /\ st' = [st EXCEPT ![c] = "Idle"] /\ ses' = [ses EXCEPT ![c] = 0]
      /\ fate' = Ended(s, "discarded") /\ pending' = [pending EXCEPT ![s] = "none"]
      /\ us' = [us EXCEPT ![x] = pending[s]] /\ ref' = [ref EXCEPT ![x] = origin[s]]
      /\ Goto(x, "handoff.background")
  BY <1>0, <1>3, <1>5 DEF HandoffTakes, origins
<1>7. /\ pc'[x] = "handoff.background" /\ held'[x] = 0 /\ cl'[x] = c /\ us'[x] = authed[s]
      /\ ref'[x] = origin[s] /\ st'[c] = "Idle" /\ ses'[c] = 0
      /\ \A d \in Clients : d # c => st'[d] = st[d] /\ ses'[d] = ses[d]
      /\ \A y \in Tasks : y # x => Same(y)
  BY <1>0, <1>1, <1>3, <1>5, <1>6, Parts DEF Goto, TypeOK, Same
<1>8. /\ pc'[x] \in EmptyPcs /\ pc'[x] \in ClientOpPcs /\ pc'[x] \in UserOpPcs /\ pc'[x] \in CarryPcs
      /\ pc'[x] \notin StagePcs \cup PollPcs \cup MovePcs \cup NewLoginPcs
      /\ pc'[x] \notin TakePcs \cup ClaimPcs \cup {"login.watch", "handoff.start"}
  BY <1>7 DEF ClientOpPcs, ClaimPcs, EmptyPcs, TakePcs, HandoffPcs, UserOpPcs, StagePcs, PollPcs,
              MovePcs, CarryPcs, NewLoginPcs
<1>9. Persists /\ RespectsSessions(x) /\ LossesStay /\ Sound'
  BY <1>1, <1>3, <1>4, <1>6, Kinds, SessionEnds
<1>10. RespectsSlots(x)
  <2>1. \A y \in Tasks : y # x => ~OpOn(y, c)
    BY <1>0, <1>1, <1>2, CalmParts DEF OpOn, Exclusive, Clash
  <2> QED BY <1>6, <1>7, <2>1 DEF RespectsSlots
<1>11. Alone(x)
  <2> SUFFICES ASSUME NEW y \in Tasks, y # x
               PROVE  /\ ~Clash(pc'[x], cl'[x], us'[x], pc[y], cl[y], us[y])
                      /\ ~Clash(pc[y], cl[y], us[y], pc'[x], cl'[x], us'[x])
    BY DEF Alone
  <2>1. /\ ~Clash(pc[x], cl[x], us[x], pc[y], cl[y], us[y])
        /\ ~Clash(pc[y], cl[y], us[y], pc[x], cl[x], us[x])
    BY <1>1, CalmParts DEF Exclusive
  <2>2. pc[y] \in UserOpPcs => us[y] # authed[s]
    BY <1>3, <1>4, CalmParts DEF DueAlone
  <2>3. pc[y] \in MovePcs => pc[y] \in UserOpPcs  BY Points
  <2> QED BY <1>0, <1>2, <1>7, <1>8, <2>1, <2>2, <2>3 DEF Clash
<1>12. \A h \in Gens : fate'[h] = "live" => fate[h] = "live" /\ h # s  BY <1>6 DEF Ended
<1>13. DuesStay(x)
  <2> SUFFICES ASSUME NEW h \in Gens, HandoffDue(h)'
               PROVE  /\ HandoffDue(h) /\ authed'[h] = authed[h] /\ pending'[h] = pending[h]
                      /\ us'[x] # authed[h]
    BY DEF DuesStay
  <2>1. HandoffDue(h) /\ h # s  BY <1>6, <1>12 DEF HandoffDue
  <2>2. pending'[h] = pending[h]  BY <1>6, <2>1
  <2> QED BY <1>3, <1>4, <1>6, <1>7, <2>1, <2>2, CalmParts DEF DueAlone
<1>14. WatchersStay(x)
  BY <1>1, <1>6, <1>7, <1>8, WatchersNarrow
<1>15. TaskOK(x)'
  <2>1. Roles(x)' /\ Knows(x)' /\ Polls(x)'
    BY <1>7, <1>8 DEF Roles, Knows, Polls, WatcherPcs
  <2>2. SlotOf(x)'  BY <1>3, <1>7, <1>8 DEF SlotOf
  <2>3. client[origin[s]] = c  BY <1>0, <1>3, <1>4, Parts DEF SlotIsTheClients
  <2>4. Carries(x)'  BY <1>6, <1>7, <1>8, <2>3 DEF Carries
  <2> QED BY <2>1, <2>2, <2>4 DEF TaskOK
<1>16. Homed'
  <2>1. \A d \in Clients : ses[d] # 0 /\ IsDesktop(ses[d]) => Kept(ses[d])
    <3> SUFFICES ASSUME NEW d \in Clients, IsDesktop(ses[d]) PROVE Kept(ses[d])
      OBVIOUS
    <3>1. d # c  BY <1>0, <1>3, Kinds DEF IsDesktop
    <3> QED BY <1>7, <3>1 DEF Kept
  <2>2. \A v \in Users : background[v] # 0 => Kept(background[v])
    BY <1>6, Parts DEF Kept, BackgroundIsTheUsers
  <2>3. \A y \in Tasks : held[y] # 0 => Kept(held[y])  BY <1>6 DEF Kept
  <2> QED BY <1>6, <1>12, <2>1, <2>2, <2>3, HomesStay
<1> QED BY <1>1, <1>7, <1>9, <1>10, <1>11, <1>13, <1>14, <1>15, <1>16, CalmStep DEF Respects

\* A log-out ends the desktop it has taken, which is reported.
LEMMA LogoutTerminatesCalm ==
  ASSUME IInv, CInv, IInv', NEW x \in Requests, LogoutTerminates(x) PROVE CInv'
<1>0. PICK d : d = held[x]  OBVIOUS
<1>1. x \in Tasks /\ pc[x] = "logout.terminate"  BY DEF LogoutTerminates
<1>2. d \in Gens /\ fate[d] = "live" /\ d # 0 /\ kind[d] \in Users
  <2>1. pc[x] \in HoldPcs  BY <1>1 DEF HoldPcs
  <2>2. kind[held[x]] \in Users  BY <1>1, CalmParts DEF Carries
  <2> QED BY <1>0, <1>1, <2>1, <2>2, Owners
<1>3. /\ UNCHANGED <<slots, background, pending, nextGen, poisoned, kind, origin, client, authed>>
      /\ proc' = [proc EXCEPT ![d] = "dead"] \/ proc' = proc
      /\ fate' = Ended(d, "loggedout") /\ Return(x)
  BY <1>0 DEF LogoutTerminates, manager, origins
<1>4. /\ \A h \in Gens : h # d => proc'[h] = proc[h] /\ fate'[h] = fate[h]
      /\ proc'[d] \in {proc[d], "dead"} /\ fate'[d] = "loggedout"
  BY <1>2, <1>3, Parts DEF Ended, TypeOK
<1>5. pc'[x] = Rest(x) /\ held'[x] = 0 /\ st' = st /\ ses' = ses
  BY <1>1, <1>3, Parts DEF Return, Goto, TypeOK, slots
<1>6. \A y \in Tasks : y # x => Same(y)  BY <1>1, <1>3, Parts, ReturnEffect
<1>7. Persists  BY <1>2, <1>3, <1>4, Kinds DEF Persists
<1>8. Respects(x)  BY <1>3, <1>4, <1>5 DEF Respects, RespectsSlots, RespectsSessions
<1>9. LossesStay
  <2> SUFFICES ASSUME NEW h \in Gens, fate'[h] \in {"dropped", "discarded", "reaped"}
               PROVE  fate[h] # "none" /\ fate'[h] = fate[h]
    BY DEF LossesStay
  <2> QED BY <1>4
<1>10. Sound'  BY <1>3, <1>4, CalmParts DEF Sound
<1>11. /\ TaskOK(x)' /\ Alone(x)
       /\ pc'[x] \notin UserOpPcs \cup NewLoginPcs \cup {"handoff.start"} \cup MovePcs
  BY <1>1, <1>5, RestCalm
<1>12. DuesStay(x)
  <2> SUFFICES ASSUME NEW h \in Gens, HandoffDue(h)'
               PROVE  HandoffDue(h) /\ authed'[h] = authed[h] /\ pending'[h] = pending[h]
    BY <1>11 DEF DuesStay
  <2> QED BY <1>2, <1>3, <1>4, Kinds DEF HandoffDue
<1>13. WatchersStay(x)  BY <1>1, <1>3, <1>5, <1>11, WatchersNarrow
<1>14. Homed'
  <2>1. \A h \in Gens : fate'[h] = "live" => fate[h] = "live" /\ kind'[h] = kind[h]
    BY <1>3, <1>4
  <2>2. \A c \in Clients : ses[c] # 0 /\ IsDesktop(ses[c]) => Kept(ses[c])  BY <1>5 DEF Kept
  <2>3. \A v \in Users : background[v] # 0 => Kept(background[v])
    BY <1>3, Parts DEF Kept, BackgroundIsTheUsers
  <2>4. \A y \in Tasks : held[y] # 0 => Kept(held[y])
    <3> SUFFICES ASSUME NEW y \in Tasks PROVE Kept(held[y])
      OBVIOUS
    <3>1. CASE y = x  BY <1>0, <1>4, <3>1 DEF Kept
    <3>2. CASE y # x  BY <1>6, <3>2 DEF Kept, Same
    <3> QED BY <3>1, <3>2
  <2> QED BY <2>1, <2>2, <2>3, <2>4, HomesStay
<1> QED BY <1>1, <1>6, <1>7, <1>8, <1>9, <1>10, <1>11, <1>12, <1>13, <1>14, CalmStep

\* A watcher that the broker told of a dead desktop ends that one, or finds nothing there.
LEMMA UserReapsCalm ==
  ASSUME IInv, CInv, IInv', NEW x \in Gens, UserReaps(x) PROVE CInv'
<1>0. PICK c, u : c = cl[x] /\ u = kind[x]  OBVIOUS
<1>1. x \in Tasks /\ pc[x] = "user.reap" /\ held[x] = 0 /\ u \in Users
  BY <1>0, Parts, CalmParts DEF UserReaps, Roles, HoldPcs, Hands, HandsOf, UserWatchPcs
<1>2. /\ ref[x] \in Gens /\ us[x] = u /\ proc[ref[x]] = "dead"
      /\ c # "none" => ses[c] \in {0, ref[x]}
      /\ c = "none" => background[u] \in {0, ref[x]}
  <2>1. Polls(x) /\ pc[x] \in PollPcs  BY <1>1, CalmParts DEF PollPcs
  <2> QED BY <1>0, <1>1, <2>1 DEF Polls
<1>3. /\ UNCHANGED <<pending, nextGen, poisoned, kind, origin, proc, client, authed>>
      /\ Return(x)
      /\ \/ /\ c = "none" /\ background' = [background EXCEPT ![u] = 0]
            /\ fate' = Ended(background[u], "reaped") /\ UNCHANGED slots
         \/ /\ c # "none" /\ st' = [st EXCEPT ![c] = "Idle"] /\ ses' = [ses EXCEPT ![c] = 0]
            /\ fate' = Ended(ses[c], "reaped") /\ UNCHANGED background
  BY <1>0 DEF UserReaps, manager, origins
<1>4. pc'[x] = Rest(x) /\ held'[x] = 0  BY <1>1, <1>3, Parts DEF Return, Goto, TypeOK
<1>5. \A y \in Tasks : y # x => Same(y)  BY <1>1, <1>3, Parts, ReturnEffect
<1>6. /\ TaskOK(x)' /\ Alone(x)
      /\ pc'[x] \notin UserOpPcs \cup NewLoginPcs \cup {"handoff.start"} \cup MovePcs
  BY <1>1, <1>4, RestCalm
<1>7. \A y \in Tasks : held[y] # 0 => Kept(held[y])  BY <1>1, <1>5 DEF Kept, Same
<1>8. CASE /\ c = "none" /\ background' = [background EXCEPT ![u] = 0]
           /\ fate' = Ended(background[u], "reaped") /\ UNCHANGED slots
  <2>0. PICK b : b = background[u]  OBVIOUS
  <2>1. b \in Gens => fate[b] = "live" /\ proc[b] = "dead"
    BY <1>1, <1>2, <1>8, <2>0, Parts, Kinds DEF BackgroundIsTheUsers
  <2>2. /\ \A h \in Gens : fate'[h] = IF h = b THEN "reaped" ELSE fate[h]
        /\ background'[u] = 0
        /\ \A v \in Users : v # u => background'[v] = background[v]
        /\ st' = st /\ ses' = ses
    BY <1>1, <1>8, <2>0, Parts DEF Ended, TypeOK, slots
  <2>3. Persists /\ RespectsSessions(x) /\ LossesStay /\ Sound'
    <3>1. fate' = Ended(b, "reaped")  BY <1>8, <2>0
    <3> QED BY <1>1, <1>3, <2>1, <3>1, SessionEnds
  <2>4. RespectsSlots(x)  BY <2>2 DEF RespectsSlots
  <2>5. DuesStay(x)  BY <1>1, <1>3, <1>6, <2>2, DuesNarrow
  <2>6. WatchersStay(x)  BY <1>1, <1>3, <1>6, <2>2, WatchersNarrow
  <2>7. Homed'
    <3>1. \A h \in Gens : fate'[h] = "live" => fate[h] = "live" /\ kind'[h] = kind[h]
      BY <1>3, <2>2
    <3>2. \A d \in Clients : ses[d] # 0 /\ IsDesktop(ses[d]) => Kept(ses[d])  BY <2>2 DEF Kept
    <3>3. \A v \in Users : background[v] # 0 => Kept(background[v])
      <4> SUFFICES ASSUME NEW v \in Users, background[v] # 0 PROVE Kept(background[v])
        OBVIOUS
      <4>1. background[v] \in Gens /\ kind[background[v]] = v
        BY Parts, SomeSession DEF TypeOK, BackgroundIsTheUsers
      <4>2. CASE v = u  BY <2>0, <2>2, <4>1, <4>2 DEF Kept
      <4>3. CASE v # u  BY <2>2, <4>1, <4>3 DEF Kept
      <4> QED BY <4>2, <4>3
    <3> QED BY <1>7, <3>1, <3>2, <3>3, HomesStay
  <2> QED BY <1>1, <1>5, <1>6, <2>3, <2>4, <2>5, <2>6, <2>7, CalmStep DEF Respects
<1>9. CASE /\ c # "none" /\ st' = [st EXCEPT ![c] = "Idle"] /\ ses' = [ses EXCEPT ![c] = 0]
           /\ fate' = Ended(ses[c], "reaped") /\ UNCHANGED background
  <2>0. PICK s : s = ses[c]  OBVIOUS
  <2>1. c \in Clients /\ (s \in Gens => fate[s] = "live" /\ proc[s] = "dead")
    <3>1. c \in Clients  BY <1>0, <1>1, <1>9, Parts DEF TypeOK
    <3> QED BY <1>2, <1>9, <2>0, <3>1, Owners, Kinds
  <2>2. /\ \A h \in Gens : fate'[h] = IF h = s THEN "reaped" ELSE fate[h]
        /\ st'[c] = "Idle" /\ ses'[c] = 0
        /\ \A d \in Clients : d # c => st'[d] = st[d] /\ ses'[d] = ses[d]
    BY <1>9, <2>0, <2>1, Parts DEF Ended, TypeOK
  <2>3. Persists /\ RespectsSessions(x) /\ LossesStay /\ Sound'
    <3>1. fate' = Ended(s, "reaped")  BY <1>9, <2>0
    <3> QED BY <1>1, <1>3, <2>1, <3>1, SessionEnds
  <2>4. RespectsSlots(x)
    <3>1. \A y \in Tasks : y # x => ~OpOn(y, c)
      BY <1>0, <1>1, CalmParts DEF OpOn, Exclusive, Clash, PollPcs
    <3> QED BY <1>9, <2>2, <3>1 DEF RespectsSlots
  <2>5. DuesStay(x)  BY <1>1, <1>3, <1>6, <2>2, DuesNarrow
  <2>6. WatchersStay(x)  BY <1>1, <1>3, <1>6, <2>2, WatchersNarrow
  <2>7. Homed'
    <3>1. \A h \in Gens : fate'[h] = "live" => fate[h] = "live" /\ kind'[h] = kind[h]
      BY <1>3, <2>2
    <3>2. \A d \in Clients : ses[d] # 0 /\ IsDesktop(ses[d]) => Kept(ses[d])
      <4> SUFFICES ASSUME NEW d \in Clients, ses[d] # 0, IsDesktop(ses[d]) PROVE Kept(ses[d])
        OBVIOUS
      <4>1. CASE d = c  BY <2>0, <2>2, <4>1 DEF Kept, IsDesktop
      <4>2. CASE d # c  BY <2>2, <4>2 DEF Kept
      <4> QED BY <4>1, <4>2
    <3>3. \A v \in Users : background[v] # 0 => Kept(background[v])
      BY <1>9, Parts DEF Kept, BackgroundIsTheUsers
    <3> QED BY <1>7, <3>1, <3>2, <3>3, HomesStay
  <2> QED BY <1>1, <1>5, <1>6, <2>3, <2>4, <2>5, <2>6, <2>7, CalmStep DEF Respects
<1> QED BY <1>3, <1>8, <1>9

-----------------------------------------------------------------------------
(* The processes *)

\* A process that changes leaves everything to the tasks as it was.
LEMMA ProcessStep ==
  ASSUME IInv, CInv, Persists, DueAlone', \A g \in Gens : proc'[g] # "lost",
         UNCHANGED <<slots, background, nextGen, poisoned, kind, origin, client, fate, locals>>
  PROVE  CInv'
<1>1. /\ st' = st /\ ses' = ses /\ pc' = pc /\ held' = held /\ cl' = cl /\ us' = us /\ ref' = ref
  BY DEF slots, locals
<1>2. ASSUME NEW y \in Tasks PROVE TaskOK(y)'
  <2>0. Roles(y) /\ SlotOf(y) /\ Carries(y) /\ Knows(y) /\ Polls(y)  BY CalmParts
  <2>1. Roles(y)'  BY <1>1, <2>0 DEF Roles
  <2>2. SlotOf(y)'
    <3>1. ASSUME pc[y] = "handoff.take" PROVE HandoffDue(ses[cl[y]])'
      <4>1. pc[y] \in TakePcs /\ pc[y] \in ClientOpPcs  BY <3>1 DEF TakePcs, ClientOpPcs
      <4>2. cl[y] \in Clients /\ st[cl[y]] = "Streaming" /\ HandoffDue(ses[cl[y]])
        BY <2>0, <3>1, <4>1 DEF SlotOf
      <4>3. ses[cl[y]] \in Gens  BY <4>2, Parts, Owners DEF SlotShape
      <4>4. proc'[ses[cl[y]]] = "ok"  BY <4>2, <4>3, Kinds DEF Persists, HandoffDue
      <4> QED BY <1>1, <4>2, <4>4 DEF HandoffDue
    <3> QED BY <1>1, <2>0, <3>1 DEF SlotOf
  <2>3. Carries(y)'  BY <1>1, <2>0 DEF Carries, UserOf, IsDesktop
  <2>4. Knows(y)'  BY <1>1, <2>0 DEF Knows
  <2>5. Polls(y)'
    <3>1. ASSUME pc[y] = "user.reap" PROVE proc'[ref[y]] = "dead"
      <4>1. pc[y] \in PollPcs /\ pc[y] \in UserWatchPcs  BY <3>1 DEF PollPcs, UserWatchPcs
      <4>2. ref[y] \in Gens /\ kind[ref[y]] = us[y] /\ us[y] = kind[y] /\ proc[ref[y]] = "dead"
        BY <2>0, <3>1, <4>1 DEF Polls
      <4>3. kind[y] \in Users  BY <4>1, Parts DEF Hands, HandsOf
      <4> QED BY <4>2, <4>3, Kinds DEF Persists
    <3> QED BY <1>1, <2>0, <3>1 DEF Polls
  <2> QED BY <2>1, <2>2, <2>3, <2>4, <2>5 DEF TaskOK
<1>3. Exclusive'  BY <1>1, CalmParts DEF Exclusive, Clash
<1>4. Homed'  BY <1>1, CalmParts DEF Homed, HasHome, IsDesktop
<1>5. Unwatched'  BY <1>1, CalmParts DEF Unwatched
<1>6. NoDesktopLost'
  <2> SUFFICES ASSUME NEW g \in Gens, kind[g] \in Users, fate[g] \in {"dropped", "discarded", "reaped"}
               PROVE  proc'[g] = "dead"
    BY DEF NoDesktopLost, IsDesktop
  <2> QED BY CalmParts, Kinds DEF NoDesktopLost, IsDesktop, Persists
<1>7. OneDesktopPerUser'  BY CalmParts DEF OneDesktopPerUser, IsDesktop
<1>8. Sound' /\ CalmRuns'  BY CalmParts DEF Sound, CalmRuns
<1> QED BY <1>2, <1>3, <1>4, <1>5, <1>6, <1>7, <1>8 DEF CInv

\* A process that dies makes no login due.
LEMMA ProcessDiesCalm ==
  ASSUME IInv, CInv, NEW g \in Gens, ProcessDies(g) PROVE CInv'
<1>1. /\ proc[g] = "running"
      /\ proc' = [proc EXCEPT ![g] = IF kind[g] = "login" THEN "failed" ELSE "dead"]
      /\ UNCHANGED <<slots, background, nextGen, poisoned, kind, origin, client, fate, locals>>
      /\ UNCHANGED <<pending, authed>>
  BY DEF ProcessDies, manager, origins
<1>2. proc'[g] \in {"failed", "dead"} /\ \A h \in Gens : h # g => proc'[h] = proc[h]
  BY <1>1, Parts DEF TypeOK
<1>3. Persists  BY <1>1, <1>2 DEF Persists
<1>4. \A h \in Gens : HandoffDue(h)' => HandoffDue(h)  BY <1>1, <1>2 DEF HandoffDue
<1>5. DueAlone'  BY <1>1, <1>4, CalmParts DEF DueAlone, locals
<1>6. \A h \in Gens : proc'[h] # "lost"  BY <1>2, CalmParts DEF Sound
<1> QED BY <1>1, <1>3, <1>5, <1>6, ProcessStep

\* A login is accepted when nothing else happens to its user.
LEMMA LoginSucceedsCalm ==
  ASSUME IInv, CInv, NEW g \in Gens, NEW u \in Users, LoginSucceeds(g, u) PROVE CInv'
<1>1. /\ proc[g] = "running" /\ ~UserBusy(u)
      /\ proc' = [proc EXCEPT ![g] = "ok"]
      /\ pending' = [pending EXCEPT ![g] = u] /\ authed' = [authed EXCEPT ![g] = u]
      /\ UNCHANGED <<slots, background, nextGen, poisoned, kind, origin, client, fate, locals>>
  BY CalmParts DEF LoginSucceeds, MayLogIn, CalmRuns
<1>2. /\ proc'[g] = "ok" /\ pending'[g] = u /\ authed'[g] = u
      /\ \A h \in Gens : h # g =>
           proc'[h] = proc[h] /\ pending'[h] = pending[h] /\ authed'[h] = authed[h]
  BY <1>1, Parts DEF TypeOK
<1>3. Persists  BY <1>1, <1>2 DEF Persists
<1>4. \A h \in Gens : HandoffDue(h)' => h = g \/ (h # g /\ HandoffDue(h))
  BY <1>1, <1>2 DEF HandoffDue
<1>5. \A h \in Gens : HandoffDue(h) => authed[h] # u  BY <1>1, Kinds DEF UserBusy
<1>6. \A x \in Tasks : pc[x] \in UserOpPcs => us[x] # u
  <2>1. UserOpPcs \cap Resting = {}  BY DEF UserOpPcs, ClaimPcs, HandoffPcs, Resting
  <2> QED BY <1>1, <2>1, Kinds DEF UserBusy
<1>7. DueAlone'
  <2>1. \A h \in Gens : HandoffDue(h)' => authed'[h] \in Users /\ pending'[h] = authed'[h]
    BY <1>2, <1>4, CalmParts DEF DueAlone
  <2>2. \A h, i \in Gens : HandoffDue(h)' /\ HandoffDue(i)' /\ authed'[h] = authed'[i] => h = i
    <3> SUFFICES ASSUME NEW h \in Gens, NEW i \in Gens, HandoffDue(h)', HandoffDue(i)',
                        authed'[h] = authed'[i], h # i
                 PROVE  FALSE
      OBVIOUS
    <3>1. CASE h = g  BY <1>2, <1>4, <1>5, <3>1
    <3>2. CASE i = g  BY <1>2, <1>4, <1>5, <3>2
    <3>3. CASE h # g /\ i # g  BY <1>2, <1>4, <3>3, CalmParts DEF DueAlone
    <3> QED BY <3>1, <3>2, <3>3
  <2>3. \A h \in Gens, x \in Tasks : HandoffDue(h)' /\ pc'[x] \in UserOpPcs => us'[x] # authed'[h]
    BY <1>1, <1>2, <1>4, <1>6, CalmParts DEF DueAlone, locals
  <2> QED BY <2>1, <2>2, <2>3 DEF DueAlone
<1>8. \A h \in Gens : proc'[h] # "lost"  BY <1>2, CalmParts DEF Sound
<1> QED BY <1>1, <1>3, <1>7, <1>8, ProcessStep

-----------------------------------------------------------------------------
(* The invariant *)

\* Nobody waits for another /launch of its client, retakes or adopts a session, or meets a
\* poisoned mutex.
LEMMA NeverTaken ==
  ASSUME CInv, NEW x \in Tasks
  PROVE  ~LaunchWakes(x) /\ ~LaunchTimesOut(x) /\ ~LaunchAdopt(x) /\ ~PlayRetake(x) /\ ~Panics(x)
<1>1. pc[x] \notin {"launch.wait", "launch.adopt", "play.retake"} /\ ~poisoned
  BY CalmParts DEF Roles, Sound
<1> QED BY <1>1 DEF LaunchWakes, LaunchTimesOut, LaunchAdopt, PlayRetake, Panics

\* A step in which nothing changes.
LEMMA StutterCalm == ASSUME IInv, CInv, UNCHANGED vars PROVE CInv'
<1>1. UNCHANGED <<slots, background, nextGen, poisoned, kind, origin, client, fate, locals>>
      /\ UNCHANGED <<proc, pending, authed>>
  BY DEF vars, slots, locals
<1>2. Persists  BY <1>1 DEF Persists
<1>3. DueAlone'  BY <1>1, CalmParts DEF DueAlone, HandoffDue, locals
<1>4. \A g \in Gens : proc'[g] # "lost"  BY <1>1, CalmParts DEF Sound
<1> QED BY <1>1, <1>2, <1>3, <1>4, ProcessStep

\* Initially nobody does anything and there is no session.
LEMMA InitCalm == Init /\ CalmRuns => CInv
<1> SUFFICES ASSUME Init, CalmRuns PROVE CInv
  OBVIOUS
<1>1. /\ \A x \in Tasks : pc[x] \in {"idle", "none"} /\ held[x] = 0 /\ cl[x] = "none"
                          /\ (pc[x] = "none" => x \in Gens)
      /\ \A g \in Gens : pc[g] = "none" /\ proc[g] = "none" /\ kind[g] = "none" /\ fate[g] = "none"
      /\ \A c \in Clients : st[c] = "Idle"
      /\ ~poisoned
  BY ConstantsAssumption DEF Init, ConstantsAssumption
<1>2. {"idle", "none"} \cap (ClientOpPcs \cup UserOpPcs \cup PollPcs \cup NewLoginPcs \cup CarryPcs
                             \cup {"handoff.start", "login.watch"}) = {}
      /\ "idle" \notin WatcherPcs
  BY DEF ClientOpPcs, ClaimPcs, EmptyPcs, TakePcs, HandoffPcs, UserOpPcs, PollPcs, NewLoginPcs,
         CarryPcs, WatcherPcs
<1>3. ASSUME NEW x \in Tasks PROVE TaskOK(x)
  <2>1. Roles(x)  BY <1>1, <1>2 DEF Roles
  <2>2. SlotOf(x) /\ Carries(x) /\ Knows(x) /\ Polls(x)
    BY <1>1, <1>2, Points DEF SlotOf, Carries, Knows, Polls, CarryPcs, PollPcs, TakePcs
  <2> QED BY <2>1, <2>2 DEF TaskOK
<1>4. Exclusive  BY <1>1, <1>2, Points DEF Exclusive, Clash
<1>5. DueAlone  BY <1>1 DEF DueAlone, HandoffDue
<1>6. Homed /\ Unwatched  BY <1>1, <1>2 DEF Homed, Unwatched
<1>7. NoDesktopLost /\ OneDesktopPerUser /\ Sound
  BY <1>1 DEF NoDesktopLost, OneDesktopPerUser, Sound
<1> QED BY <1>3, <1>4, <1>5, <1>6, <1>7 DEF CInv

\* Every step keeps the invariant.
LEMMA NextCalm ==
  IInv /\ IInv' /\ SpawningHasOwner /\ CInv /\ [Next]_vars => CInv'
<1> SUFFICES ASSUME IInv, IInv', SpawningHasOwner, CInv, [Next]_vars PROVE CInv'
  OBVIOUS
<1>1. CASE UNCHANGED vars  BY <1>1, StutterCalm
<1>2. ASSUME NEW t \in Requests, Request(t) PROVE CInv'
  <2>1. ASSUME NEW c \in Clients, LaunchArrives(t, c) PROVE CInv'  BY <2>1, LaunchArrivesCalm
  <2>2. ASSUME NEW c \in Clients, CancelArrives(t, c) PROVE CInv'  BY <2>2, CancelArrivesCalm
  <2>3. ASSUME NEW c \in Clients, PlayArrives(t, c) PROVE CInv'  BY <2>3, PlayArrivesCalm
  <2>4. ASSUME NEW u \in Users, LogoutArrives(t, u) PROVE CInv'  BY <2>4, LogoutArrivesCalm
  <2> QED BY <1>2, <2>1, <2>2, <2>3, <2>4 DEF Request
<1>3. ASSUME NEW t \in Requests, Serve(t) PROVE CInv'
  <2>1. t \in Tasks  OBVIOUS
  <2>2. ~LaunchWakes(t) /\ ~LaunchTimesOut(t) /\ ~LaunchAdopt(t) /\ ~PlayRetake(t) /\ ~Panics(t)
    BY <2>1, NeverTaken
  <2>3. CASE LaunchReplace(t)  BY <2>3, LaunchReplaceCalm
  <2>4. CASE LaunchSpawn(t)  BY <2>4, LaunchSpawnCalm
  <2>5. CASE LaunchFails(t) \/ LaunchInsert(t)  BY <2>5, LaunchEndsCalm
  <2>6. CASE LaunchRegister(t)  BY <2>6, LaunchRegisterCalm
  <2>7. CASE CancelReleases(t)  BY <2>1, <2>7, CancelReleasesCalm
  <2>8. CASE PlayFresh(t)  BY <2>8, PlayFreshCalm
  <2>9. CASE LogoutLooksForActive(t)  BY <2>9, LogoutLooksForActiveCalm
  <2>10. CASE LogoutTerminates(t)  BY <2>10, LogoutTerminatesCalm
  <2> QED BY <1>3, <2>2, <2>3, <2>4, <2>5, <2>6, <2>7, <2>8, <2>9, <2>10 DEF Serve
<1>4. ASSUME NEW g \in Gens, Watch(g) PROVE CInv'
  <2>1. g \in Tasks  OBVIOUS
  <2>2. ~Panics(g)  BY <2>1, NeverTaken
  <2>3. CASE WatchLoginExit(g)  BY <2>3, WatchLoginExitCalm
  <2>4. CASE LoginReset(g)  BY <2>4, LoginResetCalm
  <2>5. CASE CancelReleases(g)  BY <2>1, <2>5, CancelReleasesCalm
  <2>6. CASE HandoffTakes(g)  BY <2>6, HandoffTakesCalm
  <2>7. CASE HandoffLooksInBackground(g)  BY <2>7, HandoffLooksInBackgroundCalm
  <2>8. CASE HandoffLooksForActive(g)  BY <2>8, HandoffLooksForActiveCalm
  <2>9. CASE HandoffDetaches(g)  BY <2>9, HandoffDetachesCalm
  <2>10. CASE HandoffResumes(g)  BY <2>10, HandoffResumesCalm
  <2>11. CASE HandoffSpawns(g)  BY <2>11, HandoffSpawnsCalm
  <2>12. CASE HandoffStreams(g)  BY <2>12, HandoffStreamsCalm
  <2>13. CASE UserTicks(g)  BY <2>13, UserTicksCalm
  <2>14. CASE UserLooksInBackground(g)  BY <2>14, UserLooksInBackgroundCalm
  <2>15. CASE UserAsks(g)  BY <2>15, UserAsksCalm
  <2>16. CASE UserReaps(g)  BY <2>16, UserReapsCalm
  <2> QED BY <1>4, <2>2, <2>3, <2>4, <2>5, <2>6, <2>7, <2>8, <2>9, <2>10, <2>11, <2>12, <2>13,
             <2>14, <2>15, <2>16 DEF Watch
<1>5. ASSUME NEW g \in Gens, Environment(g) PROVE CInv'
  BY <1>5, ProcessDiesCalm, LoginSucceedsCalm DEF Environment
<1> QED BY <1>1, <1>2, <1>3, <1>4, <1>5 DEF Next

\* In a calm run the invariant holds in every reachable state.
LEMMA CalmInvariance == ASSUME CalmRuns PROVE Spec => []CInv
<1>1. Init => CInv  BY InitCalm
<1> QED BY <1>1, NextCalm, Invariance, SpawningSlotsHaveOwners, PTL DEF Spec

\* When the requests of one client or of one user do not overlap, no live desktop is ended by
\* a /launch, a /cancel, a handoff or a watcher: background_or_discard, PutSlot's drop and
\* watch_user_session_exit meet only login stages and desktops whose processes are dead.
THEOREM NoLiveDesktopIsLost == ASSUME CalmRuns PROVE Spec => []NoDesktopLost
<1>1. CInv => NoDesktopLost  BY CalmParts
<1> QED BY <1>1, CalmInvariance, PTL

\* Nor does a user have two desktops: handoff_to_user spawns one only after it has seen, step
\* by step and without a common lock, that there is none parked, attached or in a task's hands.
THEOREM OneDesktopForEachUser == ASSUME CalmRuns PROVE Spec => []OneDesktopPerUser
<1>1. CInv => OneDesktopPerUser  BY CalmParts
<1> QED BY <1>1, CalmInvariance, PTL

-----------------------------------------------------------------------------
(* The registry *)

\* Without these failures no handoff ends with the rikey of its login still registered.
KeyRuns == {"compositor", "session", "reconcile"} \cap Failures = {}

\* Program points at which the rikey of the session a task owns may be registered: a desktop
\* that is resumed or logged out has lost its own by then.
RetainPcs == HoldPcs \ {"handoff.resume", "logout.terminate"}

\* The origin o is that of an attached session, or of one on its way, or carried by a handoff.
Borne(o) ==
  \/ \E c \in Clients : ses[c] # 0 /\ origin[ses[c]] = o
  \/ \E x \in Tasks : pc[x] \in RetainPcs /\ origin[held[x]] = o
  \/ \E x \in Tasks : pc[x] \in CarryPcs /\ ref[x] = o

Exact == \A k \in registry : \E o \in Gens : Borne(o) /\ key[o] = k

\* A step of x that registers nothing.  Whoever else bore an origin still does; what x and
\* the slots bore is borne, or its rikey is forgotten.
LEMMA ExactStep ==
  ASSUME IInv, Exact, NEW x \in Tasks, registry' \subseteq registry,
         \A g \in Gens : kind[g] # "none" => key'[g] = key[g],
         \A y \in Tasks : y # x =>
           /\ pc'[y] = pc[y] \/ pc[y] = "none"
           /\ held'[y] = held[y] /\ ref'[y] = ref[y]
           /\ held[y] # 0 => origin'[held[y]] = origin[held[y]],
         \A o \in Gens : key[o] \in registry' =>
           /\ (\E c \in Clients : ses[c] # 0 /\ origin[ses[c]] = o) => Borne(o)'
           /\ pc[x] \in RetainPcs /\ origin[held[x]] = o => Borne(o)'
           /\ pc[x] \in CarryPcs /\ ref[x] = o => Borne(o)'
  PROVE  Exact'
<1> SUFFICES ASSUME NEW k \in registry' PROVE \E o \in Gens : Borne(o)' /\ key'[o] = k
  BY DEF Exact
<1>1. PICK o \in Gens : Borne(o) /\ key[o] = k  BY DEF Exact
<1>2. "none" \notin RetainPcs /\ "none" \notin CarryPcs /\ RetainPcs \subseteq HoldPcs
  BY DEF RetainPcs, HoldPcs, CarryPcs
<1>3. kind[o] # "none"
  <2>1. CASE \E c \in Clients : ses[c] # 0 /\ origin[ses[c]] = o  BY <2>1, Owners, Kinds
  <2>2. CASE \E y \in Tasks : pc[y] \in RetainPcs /\ origin[held[y]] = o
    BY <1>2, <2>2, Owners, Kinds
  <2>3. CASE \E y \in Tasks : pc[y] \in CarryPcs /\ ref[y] = o
    BY <2>3, Parts DEF Hands, HandsOf
  <2> QED BY <1>1, <2>1, <2>2, <2>3 DEF Borne
<1>4. Borne(o)'
  <2>1. CASE \E c \in Clients : ses[c] # 0 /\ origin[ses[c]] = o  BY <1>1, <2>1
  <2>2. ASSUME NEW y \in Tasks, pc[y] \in RetainPcs, origin[held[y]] = o PROVE Borne(o)'
    <3>1. CASE y = x  BY <1>1, <2>2, <3>1
    <3>2. CASE y # x
      <4>1. held[y] # 0  BY <1>2, <2>2, Owners
      <4>2. pc'[y] \in RetainPcs /\ held'[y] = held[y] /\ origin'[held'[y]] = o
        BY <1>2, <2>2, <3>2, <4>1
      <4> QED BY <4>2 DEF Borne
    <3> QED BY <3>1, <3>2
  <2>3. ASSUME NEW y \in Tasks, pc[y] \in CarryPcs, ref[y] = o PROVE Borne(o)'
    <3>1. CASE y = x  BY <1>1, <2>3, <3>1
    <3>2. CASE y # x
      <4>1. pc'[y] \in CarryPcs /\ ref'[y] = o  BY <1>2, <2>3, <3>2
      <4> QED BY <4>1 DEF Borne
    <3> QED BY <3>1, <3>2
  <2> QED BY <1>1, <2>1, <2>2, <2>3 DEF Borne
<1> QED BY <1>1, <1>3, <1>4

\* The same for a step that changes no origin and no rikey, and no other task.
LEMMA ExactQuiet ==
  ASSUME IInv, Exact, NEW x \in Tasks, registry' \subseteq registry, UNCHANGED <<key, origin>>,
         \A y \in Tasks : y # x => Same(y),
         \A c \in Clients : \/ ses'[c] = ses[c]
                            \/ ses[c] = 0
                            \/ key[origin[ses[c]]] \notin registry'
                            \/ held'[x] = ses[c] /\ pc'[x] \in RetainPcs
                            \/ ref'[x] = origin[ses[c]] /\ pc'[x] \in CarryPcs,
         pc[x] \in RetainPcs =>
           \/ key[origin[held[x]]] \notin registry'
           \/ held'[x] = held[x] /\ pc'[x] \in RetainPcs
           \/ \E c \in Clients : ses'[c] = held[x],
         pc[x] \in CarryPcs => ref'[x] = ref[x] /\ pc'[x] \in CarryPcs
  PROVE  Exact'
<1>1. \A y \in Tasks : y # x => /\ pc'[y] = pc[y] \/ pc[y] = "none"
                                /\ held'[y] = held[y] /\ ref'[y] = ref[y]
                                /\ held[y] # 0 => origin'[held[y]] = origin[held[y]]
  BY DEF Same
<1>2. ASSUME NEW o \in Gens, key[o] \in registry', \E c \in Clients : ses[c] # 0 /\ origin[ses[c]] = o
      PROVE  Borne(o)'
  BY <1>2 DEF Borne
<1>3. ASSUME NEW o \in Gens, key[o] \in registry', pc[x] \in RetainPcs, origin[held[x]] = o
      PROVE  Borne(o)'
  <2>1. held[x] # 0  BY <1>3, Owners DEF RetainPcs
  <2> QED BY <1>3, <2>1 DEF Borne
<1>4. ASSUME NEW o \in Gens, pc[x] \in CarryPcs, ref[x] = o PROVE Borne(o)'  BY <1>4 DEF Borne
<1> QED BY <1>1, <1>2, <1>3, <1>4, ExactStep

\* A login stage is watched, a desktop is polled, a log-out begins or ends, a /launch fails:
\* the task has no rikey that is registered, and forgets that of a session it ends.
LEMMA BystanderExact ==
  ASSUME IInv, CInv, Exact, NEW x \in Tasks,
         \/ UserTicks(x) \/ UserLooksInBackground(x) \/ UserAsks(x) \/ UserReaps(x)
         \/ WatchLoginExit(x) \/ LogoutTerminates(x) \/ LaunchFails(x)
         \/ \E u \in Users : LogoutArrives(x, u)
  PROVE  Exact'
<1>1. /\ pc[x] \in {"user.tick", "user.background", "user.ask", "user.reap", "login.watch",
                    "logout.terminate", "launch.fail", "idle"}
      /\ UNCHANGED <<key, origin>> /\ registry' \subseteq registry
  BY DEF UserTicks, UserLooksInBackground, UserAsks, UserReaps, WatchLoginExit, LogoutTerminates,
         LaunchFails, LogoutArrives, origins
<1>2. pc[x] \notin RetainPcs /\ pc[x] \notin CarryPcs  BY <1>1 DEF RetainPcs, HoldPcs, CarryPcs
<1>3. \A y \in Tasks : y # x => Same(y)
  <2>1. CASE UserTicks(x)  BY <2>1, Parts DEF UserTicks, Goto, TypeOK, Same
  <2>2. CASE UserLooksInBackground(x)
    BY <2>2, Parts, ReturnEffect DEF UserLooksInBackground, Goto, TypeOK, Same
  <2>3. CASE UserAsks(x)  BY <2>3, Parts DEF UserAsks, Goto, TypeOK, Same
  <2>4. CASE UserReaps(x)  BY <2>4, Parts, ReturnEffect DEF UserReaps
  <2>5. CASE WatchLoginExit(x)
    BY <2>5, Parts, ReturnEffect DEF WatchLoginExit, Goto, TypeOK, Same
  <2>6. CASE LogoutTerminates(x)  BY <2>6, Parts, ReturnEffect DEF LogoutTerminates
  <2>7. CASE LaunchFails(x)  BY <2>7, Parts, ReturnEffect DEF LaunchFails
  <2>8. ASSUME NEW u \in Users, LogoutArrives(x, u) PROVE \A y \in Tasks : y # x => Same(y)
    BY <2>8, Parts DEF LogoutArrives, Goto, TypeOK, Same
  <2> QED BY <2>1, <2>2, <2>3, <2>4, <2>5, <2>6, <2>7, <2>8
<1>4. ASSUME NEW c \in Clients
      PROVE  ses'[c] = ses[c] \/ ses[c] = 0 \/ key[origin[ses[c]]] \notin registry'
  <2>1. CASE UserReaps(x)  BY <2>1, Parts DEF UserReaps, slots, TypeOK
  <2>2. CASE LaunchFails(x)
    <3>1. pc[x] \in ClaimPcs /\ pc[x] \in ClientOpPcs  BY <2>2 DEF LaunchFails, ClaimPcs, ClientOpPcs
    <3>2. cl[x] \in Clients /\ ses[cl[x]] = 0  BY <3>1, CalmParts, Parts DEF SlotOf, SlotShape
    <3> QED BY <2>2, <3>2, Parts DEF LaunchFails, PutSlot, TypeOK
  <2>3. CASE ~UserReaps(x) /\ ~LaunchFails(x)
    BY <2>3 DEF UserTicks, UserLooksInBackground, UserAsks, WatchLoginExit, LogoutTerminates,
                LogoutArrives, slots
  <2> QED BY <2>1, <2>2, <2>3
<1> QED BY <1>1, <1>2, <1>3, <1>4, ExactQuiet

\* The rikey of what is released is forgotten.
LEMMA ReleaseExact ==
  ASSUME IInv, Exact, NEW x \in Tasks, LaunchReplace(x) \/ CancelReleases(x) PROVE Exact'
<1>1. /\ pc[x] \in {"launch.replace", "cancel.release"}
      /\ UNCHANGED <<key, origin, slots>> /\ registry' = registry \ {key[origin[held[x]]]}
  BY DEF LaunchReplace, CancelReleases, Release, origins
<1>2. \A y \in Tasks : y # x => Same(y)
  BY Parts, ReturnEffect DEF LaunchReplace, CancelReleases, Goto, TypeOK, Same
<1>3. pc[x] \notin CarryPcs /\ ses' = ses  BY <1>1 DEF CarryPcs, slots
<1> QED BY <1>1, <1>2, <1>3, ExactQuiet

\* A session that is taken from its slot goes into the hands of the task.
LEMMA TakesExact ==
  ASSUME IInv, CInv, Exact, NEW x \in Tasks, NEW c \in Clients,
         (CancelTakes(x, c) /\ pc[x] \in {"idle", "cancel.take"}) \/ PlayArrives(x, c)
  PROVE  Exact'
<1>1. /\ pc[x] \in {"idle", "cancel.take"} /\ UNCHANGED <<key, origin, registry>> /\ TakeSlot(c, x)
      /\ \A y \in Tasks : y # x => Same(y)
  BY Parts DEF CancelTakes, PlayArrives, TakeSlot, Goto, TypeOK, Same, origins
<1>2. ses[c] # 0 => pc'[x] \in RetainPcs
  BY Parts DEF CancelTakes, PlayArrives, Goto, TypeOK, RetainPcs, HoldPcs
<1>3. held'[x] = ses[c] /\ \A d \in Clients : d # c => ses'[d] = ses[d]
  BY <1>1, Parts DEF TakeSlot, TypeOK
<1>4. pc[x] \notin CarryPcs /\ pc[x] \notin RetainPcs  BY <1>1 DEF CarryPcs, RetainPcs, HoldPcs
<1> QED BY <1>1, <1>2, <1>3, <1>4, ExactQuiet

\* A /launch takes what it replaces.
LEMMA LaunchArrivesExact ==
  ASSUME IInv, CInv, Exact, SpawningHasOwner, NEW x \in Requests, NEW c \in Clients,
         LaunchArrives(x, c)
  PROVE  Exact'
<1>1. st[c] # "Spawning"  BY Arrives DEF LaunchArrives
<1>2. /\ pc[x] = "idle" /\ UNCHANGED <<key, origin, registry, ref>> /\ ClaimSlot(x, c)
      /\ \A y \in Tasks : y # x => Same(y)
  BY <1>1, Parts DEF LaunchArrives, ClaimSlot, Goto, TypeOK, Same, origins
<1>3. /\ held'[x] = ses[c] /\ \A d \in Clients : d # c => ses'[d] = ses[d]
      /\ ses[c] # 0 => pc'[x] = "launch.replace"
  BY <1>2, Parts DEF ClaimSlot, Goto, TypeOK
<1>4. pc[x] \notin CarryPcs /\ pc[x] \notin RetainPcs /\ "launch.replace" \in RetainPcs
  BY <1>2 DEF CarryPcs, RetainPcs, HoldPcs
<1> QED BY <1>2, <1>3, <1>4, ExactQuiet

\* A log-out forgets the rikey of the desktop it takes.
LEMMA LogoutExact ==
  ASSUME IInv, Exact, NEW x \in Tasks, LogoutLooksForActive(x) PROVE Exact'
<1>1. /\ pc[x] = "logout.active" /\ UNCHANGED <<key, origin>> /\ registry' \subseteq registry
      /\ \/ \E c \in Clients : TakeSlot(c, x) /\ registry' = registry \ {key[origin[ses[c]]]}
         \/ UNCHANGED slots
      /\ \A y \in Tasks : y # x => Same(y)
  BY Parts, ReturnEffect DEF LogoutLooksForActive, TakeSlot, Goto, TypeOK, Same, origins
<1>2. \A c \in Clients : ses'[c] = ses[c] \/ key[origin[ses[c]]] \notin registry'
  BY <1>1, Parts DEF TakeSlot, slots, TypeOK
<1>3. pc[x] \notin CarryPcs /\ pc[x] \notin RetainPcs  BY <1>1 DEF CarryPcs, RetainPcs, HoldPcs
<1> QED BY <1>1, <1>2, <1>3, ExactQuiet

\* /launch attaches the login stage it made.
LEMMA LaunchInsertExact ==
  ASSUME IInv, CInv, Exact, NEW x \in Requests, LaunchInsert(x) PROVE Exact'
<1>1. /\ pc[x] = "launch.insert" /\ UNCHANGED <<key, origin, registry>>
      /\ PutSlot(cl[x], "Launched", held[x])
      /\ \A y \in Tasks : y # x => Same(y)
  BY Parts, ReturnEffect DEF LaunchInsert, origins
<1>2. pc[x] \in ClaimPcs /\ pc[x] \in ClientOpPcs /\ pc[x] \notin CarryPcs
  BY <1>1 DEF ClaimPcs, ClientOpPcs, CarryPcs
<1>3. cl[x] \in Clients /\ ses[cl[x]] = 0  BY <1>2, CalmParts, Parts DEF SlotOf, SlotShape
<1>4. ses'[cl[x]] = held[x] /\ \A d \in Clients : d # cl[x] => ses'[d] = ses[d]
  BY <1>1, <1>3, Parts DEF PutSlot, TypeOK
<1> QED BY <1>1, <1>2, <1>3, <1>4, ExactQuiet

\* A handoff carries the origin of the login stage it ends, until it has the desktop.
LEMMA HandoffLooksExact ==
  ASSUME IInv, CInv, Exact, NEW x \in Gens,
         \/ HandoffTakes(x) \/ HandoffLooksInBackground(x) \/ HandoffLooksForActive(x)
         \/ HandoffDetaches(x)
  PROVE  Exact'
<1>1. x \in Tasks /\ UNCHANGED <<key, origin>> /\ registry' \subseteq registry
  BY DEF HandoffTakes, HandoffLooksInBackground, HandoffLooksForActive, HandoffDetaches, origins
<1>2. CASE HandoffTakes(x)
  <2>0. PICK c, s : c = cl[x] /\ s = ses[c]  OBVIOUS
  <2>1. pc[x] = "handoff.take" /\ pc[x] \in TakePcs /\ pc[x] \in ClientOpPcs
    BY <1>2 DEF HandoffTakes, TakePcs, ClientOpPcs
  <2>2. c \in Clients /\ st[c] = "Streaming" /\ HandoffDue(s)
    BY <2>0, <1>1, <2>1, CalmParts DEF SlotOf
  <2>3. s \in Gens /\ s # 0  BY <2>0, <2>2, Parts, Owners DEF SlotShape
  <2>4. pending[s] # "none"  BY <2>2, <2>3, CalmParts, Kinds DEF DueAlone
  <2>5. /\ ses' = [ses EXCEPT ![c] = 0] /\ ref' = [ref EXCEPT ![x] = origin[s]]
        /\ us' = [us EXCEPT ![x] = pending[s]]
        /\ Goto(x, "handoff.background") /\ UNCHANGED <<held, cl, rk>>
    BY <1>2, <2>0, <2>2, <2>4 DEF HandoffTakes
  <2>6. /\ ref'[x] = origin[s] /\ pc'[x] = "handoff.background"
        /\ \A d \in Clients : d # c => ses'[d] = ses[d]
        /\ \A y \in Tasks : y # x => Same(y)
    BY <1>1, <2>2, <2>5, Parts DEF Goto, TypeOK, Same
  <2>7. pc'[x] \in CarryPcs /\ pc[x] \notin CarryPcs \cup RetainPcs
    BY <2>1, <2>6 DEF CarryPcs, RetainPcs, HoldPcs
  <2> QED BY <1>1, <2>0, <2>6, <2>7, ExactQuiet
<1>3. CASE HandoffLooksInBackground(x)
  <2>1. /\ pc[x] = "handoff.background" /\ ref'[x] = ref[x]
        /\ pc'[x] \in {"handoff.detach", "handoff.spawn", "handoff.active"} /\ ses' = ses
        /\ \A y \in Tasks : y # x => Same(y)
    BY <1>1, <1>3, Parts DEF HandoffLooksInBackground, Goto, TypeOK, Same, slots
  <2>2. pc'[x] \in CarryPcs /\ pc[x] \notin RetainPcs
    BY <2>1 DEF CarryPcs, RetainPcs, HoldPcs
  <2> QED BY <1>1, <2>1, <2>2, ExactQuiet
<1>4. CASE HandoffLooksForActive(x)
  <2>1. /\ pc[x] = "handoff.active" /\ ref'[x] = ref[x]
        /\ \A y \in Tasks : y # x => Same(y)
        /\ \/ pc'[x] = "handoff.detach" /\ \E c \in Clients : TakeSlot(c, x)
           \/ pc'[x] = "handoff.spawn" /\ ses' = ses
    BY <1>1, <1>4, Parts DEF HandoffLooksForActive, TakeSlot, Goto, TypeOK, Same, slots
  <2>2. /\ pc'[x] \in CarryPcs /\ pc[x] \notin RetainPcs
        /\ pc'[x] = "handoff.detach" => pc'[x] \in RetainPcs
    BY <2>1 DEF CarryPcs, RetainPcs, HoldPcs
  <2>3. \A c \in Clients : ses'[c] = ses[c] \/ (held'[x] = ses[c] /\ pc'[x] \in RetainPcs)
    BY <1>1, <2>1, <2>2, Parts DEF TakeSlot, TypeOK
  <2> QED BY <1>1, <2>1, <2>2, <2>3, ExactQuiet
<1>5. CASE HandoffDetaches(x)
  <2>1. /\ pc[x] = "handoff.detach" /\ ref'[x] = ref[x] /\ pc'[x] = "handoff.resume" /\ ses' = ses
        /\ registry' = registry \ {key[origin[held[x]]]}
        /\ \A y \in Tasks : y # x => Same(y)
    BY <1>1, <1>5, Parts DEF HandoffDetaches, Goto, TypeOK, Same, slots
  <2>2. pc'[x] \in CarryPcs  BY <2>1 DEF CarryPcs
  <2> QED BY <1>1, <2>1, <2>2, ExactQuiet
<1> QED BY <1>2, <1>3, <1>4, <1>5

\* What streams, or is resumed, is attached with the origin that was carried.
LEMMA StreamsExact ==
  ASSUME IInv, CInv, Exact, KeyRuns, NEW x \in Tasks,
         PlayFresh(x) \/ HandoffStreams(x) \/ HandoffResumes(x)
  PROVE  Exact'
<1>0. PICK d, c : d = held[x] /\ c = cl[x]  OBVIOUS
<1>1. /\ pc[x] \in {"play.fresh", "handoff.start", "handoff.resume"}
      /\ UNCHANGED <<key, registry>>
  BY DEF PlayFresh, HandoffStreams, HandoffResumes, origins
<1>2. pc[x] \in HoldPcs /\ pc[x] \in EmptyPcs /\ pc[x] \in ClientOpPcs
  BY <1>1 DEF HoldPcs, EmptyPcs, HandoffPcs, ClientOpPcs
<1>3. d \in Gens /\ d # 0 /\ c \in Clients /\ ses[c] = 0
  BY <1>0, <1>2, Owners, CalmParts, Parts DEF SlotOf, SlotShape
<1>4. \/ /\ pc[x] # "handoff.resume" /\ origin' = origin /\ StartStreaming(x, d, c, TRUE)
         /\ pc[d] = "none"
      \/ /\ pc[x] = "handoff.resume" /\ origin' = [origin EXCEPT ![d] = ref[x]]
         /\ StartStreaming(x, d, c, FALSE)
  <2>1. pc[x] \in {"play.fresh", "handoff.start"} => client[origin[d]] = c /\ pc[d] = "none"
    BY <1>0, CalmParts DEF Carries, Unwatched, NewLoginPcs
  <2>2. pc[x] = "handoff.resume" => client[ref[x]] = c
    BY <1>0, CalmParts DEF Carries, CarryPcs
  <2>3. CASE PlayFresh(x) \/ HandoffStreams(x)
    BY <1>0, <1>1, <2>1, <2>3 DEF PlayFresh, HandoffStreams
  <2>4. CASE HandoffResumes(x)
    BY <1>0, <2>2, <2>4 DEF HandoffResumes, KeyRuns
  <2> QED BY <2>3, <2>4
<1>5. /\ ses'[c] = d /\ \A e \in Clients : e # c => ses'[e] = ses[e]
      /\ \A y \in Tasks : y # x => /\ pc'[y] = pc[y] \/ pc[y] = "none"
                                   /\ held'[y] = held[y] /\ ref'[y] = ref[y]
  BY <1>3, <1>4, Parts DEF StartStreaming, PutSlot, TypeOK
<1>6. \A h \in Gens : h # d => origin'[h] = origin[h]  BY <1>3, <1>4, Parts DEF TypeOK
<1>7. \A y \in Tasks : y # x /\ held[y] # 0 => origin'[held[y]] = origin[held[y]]
  BY <1>0, <1>3, <1>6, Owners, Parts DEF OneHome
<1>8. ASSUME NEW o \in Gens
      PROVE  /\ (\E e \in Clients : ses[e] # 0 /\ origin[ses[e]] = o) => Borne(o)'
             /\ pc[x] \in RetainPcs /\ origin[held[x]] = o => Borne(o)'
             /\ pc[x] \in CarryPcs /\ ref[x] = o => Borne(o)'
  <2>1. ASSUME NEW e \in Clients, ses[e] # 0, origin[ses[e]] = o PROVE Borne(o)'
    <3>1. ses[e] \in Gens /\ ses[e] # d /\ e # c  BY <1>0, <1>3, <2>1, Owners, Parts DEF OneHome
    <3>2. ses'[e] # 0 /\ origin'[ses'[e]] = o  BY <1>5, <1>6, <2>1, <3>1
    <3> QED BY <3>2 DEF Borne
  <2>2. ASSUME pc[x] \in RetainPcs, origin[held[x]] = o PROVE Borne(o)'
    <3>1. origin' = origin  BY <1>4, <2>2 DEF RetainPcs
    <3>2. ses'[c] # 0 /\ origin'[ses'[c]] = o  BY <1>0, <1>3, <1>5, <2>2, <3>1
    <3> QED BY <1>3, <3>2 DEF Borne
  <2>3. ASSUME pc[x] \in CarryPcs, ref[x] = o PROVE Borne(o)'
    <3>1. pc[x] = "handoff.resume"  BY <1>1, <2>3 DEF CarryPcs
    <3>2. ses'[c] # 0 /\ origin'[ses'[c]] = o  BY <1>3, <1>4, <1>5, <2>3, <3>1, Parts DEF TypeOK
    <3> QED BY <1>3, <3>2 DEF Borne
  <2> QED BY <2>1, <2>2, <2>3
<1> QED BY <1>1, <1>5, <1>7, <1>8, ExactStep

\* A new session bears the origin that its /launch makes, or that the handoff carried.
LEMMA SpawnExact ==
  ASSUME IInv, CInv, Exact, KeyRuns, NEW x \in Tasks, LaunchSpawn(x) \/ HandoffSpawns(x)
  PROVE  Exact'
<1>1. /\ pc[x] \in {"launch.spawn", "handoff.spawn"} /\ registry' = registry
      /\ pc[x] = "handoff.spawn" => key' = key
      /\ key' = key \/ key' = [key EXCEPT ![nextGen] = rk[x]]
      /\ ses' = ses
  BY DEF LaunchSpawn, HandoffSpawns, origins, slots
<1>2. pc[x] \notin RetainPcs /\ (pc[x] \in CarryPcs => pc[x] = "handoff.spawn")
  BY <1>1 DEF RetainPcs, HoldPcs, CarryPcs
<1>3. \A g \in Gens : kind[g] # "none" => key'[g] = key[g]
  <2> SUFFICES ASSUME NEW g \in Gens, kind[g] # "none" PROVE key'[g] = key[g]
    OBVIOUS
  <2>1. g # nextGen  BY Kinds
  <2> QED BY <1>1, <2>1, Parts DEF TypeOK
<1>4. \A y \in Tasks : y # x => Same(y)
  BY Parts, ReturnEffect DEF LaunchSpawn, HandoffSpawns, NewSession, Goto, TypeOK, Same
<1>5. \A g \in Gens : kind[g] # "none" => origin'[g] = origin[g]
  <2> SUFFICES ASSUME NEW g \in Gens, kind[g] # "none" PROVE origin'[g] = origin[g]
    OBVIOUS
  <2>1. g # nextGen  BY Kinds
  <2> QED BY <2>1, Parts DEF LaunchSpawn, HandoffSpawns, NewSession, TypeOK
<1>6. \A y \in Tasks : held[y] # 0 => origin'[held[y]] = origin[held[y]]
  BY <1>5, Owners, Kinds
<1>7. ASSUME NEW o \in Gens, NEW c \in Clients, ses[c] # 0, origin[ses[c]] = o PROVE Borne(o)'
  <2>1. ses[c] \in Gens /\ kind[ses[c]] # "none"  BY <1>7, Owners, Kinds
  <2>2. ses'[c] # 0 /\ origin'[ses'[c]] = o  BY <1>1, <1>5, <1>7, <2>1
  <2> QED BY <2>2 DEF Borne
<1>8. ASSUME NEW o \in Gens, pc[x] \in CarryPcs, ref[x] = o PROVE Borne(o)'
  <2>1. NewSession(x, us[x], ref[x]) /\ Goto(x, "handoff.start")
    BY <1>2, <1>8 DEF HandoffSpawns, LaunchSpawn, KeyRuns
  <2>2. pc'[x] = "handoff.start" /\ held'[x] = nextGen /\ origin'[nextGen] = o
    BY <1>8, <2>1, Parts DEF NewSession, Goto, TypeOK
  <2>3. "handoff.start" \in RetainPcs  BY DEF RetainPcs, HoldPcs
  <2> QED BY <2>2, <2>3 DEF Borne
<1>9. \A y \in Tasks : y # x => /\ pc'[y] = pc[y] \/ pc[y] = "none"
                                /\ held'[y] = held[y] /\ ref'[y] = ref[y]
  BY <1>4 DEF Same
<1> QED BY <1>1, <1>2, <1>3, <1>6, <1>7, <1>8, <1>9, ExactStep

\* The rikey a /launch registers is that of the login stage it has just made.
LEMMA LaunchRegisterExact ==
  ASSUME IInv, KInv, Exact, NEW x \in Tasks, LaunchRegister(x) PROVE Exact'
<1>1. /\ pc[x] = "launch.register" /\ registry' = registry \cup {rk[x]}
      /\ UNCHANGED <<key, origin, held, ref, ses>> /\ Goto(x, "launch.insert")
  BY DEF LaunchRegister, origins, slots
<1>2. pc'[x] = "launch.insert" /\ \A y \in Tasks : y # x => pc'[y] = pc[y]
  BY <1>1, Parts DEF Goto, TypeOK
<1>3. /\ "launch.insert" \in RetainPcs /\ pc[x] \in HoldPcs /\ pc[x] \notin CarryPcs
  BY <1>1 DEF RetainPcs, HoldPcs, CarryPcs
<1>4. \A o \in Gens : Borne(o) => Borne(o)'
  BY <1>1, <1>2, <1>3 DEF Borne
<1>5. PICK o \in Gens : o = origin[held[x]]  BY <1>3, Owners
<1>6. Borne(o)' /\ key[o] = rk[x]
  <2>1. key[origin[held[x]]] = rk[x]  BY <1>1 DEF KInv, KeysApart
  <2>2. pc'[x] \in RetainPcs /\ origin'[held'[x]] = o  BY <1>1, <1>2, <1>3, <1>5
  <2> QED BY <1>5, <2>1, <2>2 DEF Borne
<1> SUFFICES ASSUME NEW k \in registry' PROVE \E h \in Gens : Borne(h)' /\ key'[h] = k
  BY DEF Exact
<1>7. CASE k = rk[x]  BY <1>1, <1>6, <1>7
<1>8. CASE k \in registry
  <2>1. PICK h \in Gens : Borne(h) /\ key[h] = k  BY <1>8 DEF Exact
  <2> QED BY <1>1, <1>4, <2>1
<1> QED BY <1>1, <1>7, <1>8

\* A process that ends, or a login that is accepted, registers nothing and moves nothing.
LEMMA UnmovedExact ==
  ASSUME Exact, UNCHANGED <<ses, pc, held, ref, origin, key, registry>> PROVE Exact'
BY DEF Exact, Borne

\* Nothing is registered at first.
LEMMA InitExact == Init => Exact
BY DEF Init, Exact

\* Every step keeps the registry exact.
LEMMA NextExact ==
  IInv /\ SpawningHasOwner /\ CInv /\ KInv /\ KeyRuns /\ Exact /\ [Next]_vars => Exact'
<1> SUFFICES ASSUME IInv, SpawningHasOwner, CInv, KInv, KeyRuns, Exact, [Next]_vars PROVE Exact'
  OBVIOUS
<1>1. CASE UNCHANGED vars  BY <1>1, UnmovedExact DEF vars, slots, locals, origins
<1>2. ASSUME NEW t \in Requests, Request(t) PROVE Exact'
  <2>0. t \in Tasks  OBVIOUS
  <2>1. ASSUME NEW c \in Clients, LaunchArrives(t, c) PROVE Exact'  BY <2>1, LaunchArrivesExact
  <2>2. ASSUME NEW c \in Clients, CancelArrives(t, c) PROVE Exact'
    BY <2>0, <2>2, TakesExact DEF CancelArrives
  <2>3. ASSUME NEW c \in Clients, PlayArrives(t, c) PROVE Exact'  BY <2>0, <2>3, TakesExact
  <2>4. ASSUME NEW u \in Users, LogoutArrives(t, u) PROVE Exact'
    BY <2>0, <2>4, BystanderExact
  <2> QED BY <1>2, <2>1, <2>2, <2>3, <2>4 DEF Request
<1>3. ASSUME NEW t \in Requests, Serve(t) PROVE Exact'
  <2>1. t \in Tasks  OBVIOUS
  <2>2. ~LaunchWakes(t) /\ ~LaunchTimesOut(t) /\ ~LaunchAdopt(t) /\ ~PlayRetake(t) /\ ~Panics(t)
    BY <2>1, NeverTaken
  <2>3. CASE LaunchReplace(t) \/ CancelReleases(t)  BY <2>1, <2>3, ReleaseExact
  <2>4. CASE LaunchSpawn(t)  BY <2>1, <2>4, SpawnExact
  <2>5. CASE LaunchFails(t) \/ LogoutTerminates(t)  BY <2>1, <2>5, BystanderExact
  <2>6. CASE LaunchRegister(t)  BY <2>1, <2>6, LaunchRegisterExact
  <2>7. CASE LaunchInsert(t)  BY <2>7, LaunchInsertExact
  <2>8. CASE PlayFresh(t)  BY <2>1, <2>8, StreamsExact
  <2>9. CASE LogoutLooksForActive(t)  BY <2>1, <2>9, LogoutExact
  <2> QED BY <1>3, <2>2, <2>3, <2>4, <2>5, <2>6, <2>7, <2>8, <2>9 DEF Serve
<1>4. ASSUME NEW g \in Gens, Watch(g) PROVE Exact'
  <2>1. g \in Tasks  OBVIOUS
  <2>2. ~Panics(g)  BY <2>1, NeverTaken
  <2>3. CASE WatchLoginExit(g) \/ UserTicks(g) \/ UserLooksInBackground(g) \/ UserAsks(g) \/ UserReaps(g)
    BY <2>1, <2>3, BystanderExact
  <2>4. CASE LoginReset(g)
    <3>1. pc[g] = "cancel.take" /\ CancelTakes(g, cl[g])  BY <2>4 DEF LoginReset
    <3>2. cl[g] \in Clients  BY <2>1, <3>1, Parts DEF Hands, HandsOf, ClientPcs
    <3> QED BY <2>1, <3>1, <3>2, TakesExact
  <2>5. CASE CancelReleases(g)  BY <2>1, <2>5, ReleaseExact
  <2>6. CASE HandoffTakes(g) \/ HandoffLooksInBackground(g) \/ HandoffLooksForActive(g)
             \/ HandoffDetaches(g)
    BY <2>6, HandoffLooksExact
  <2>7. CASE HandoffResumes(g) \/ HandoffStreams(g)  BY <2>1, <2>7, StreamsExact
  <2>8. CASE HandoffSpawns(g)  BY <2>1, <2>8, SpawnExact
  <2> QED BY <1>4, <2>2, <2>3, <2>4, <2>5, <2>6, <2>7, <2>8 DEF Watch
<1>5. ASSUME NEW g \in Gens, Environment(g) PROVE Exact'
  BY <1>5, UnmovedExact
     DEF Environment, ProcessDies, LoginSucceeds, slots, manager, origins, locals
<1> QED BY <1>1, <1>2, <1>3, <1>4, <1>5 DEF Next

\* No rikey outlives its session: what the registry holds is borne by an attached session, by
\* one in the hands of an operation, or by a handoff on its way, whatever that operation has
\* released, replaced, resumed or reaped before.
THEOREM NoRikeyOutlivesItsSession ==
  ASSUME CalmRuns, KeyRuns PROVE Spec => []RegistryIsExact
<1>1. IInv /\ CInv /\ Exact => RegistryIsExact
  <2> SUFFICES ASSUME IInv, CInv, Exact, NEW k \in registry
               PROVE  \/ \E c \in Clients : ses[c] # 0 /\ key[origin[ses[c]]] = k
                      \/ \E x \in Tasks : held[x] # 0 /\ key[origin[held[x]]] = k
                      \/ \E g \in Gens : /\ pc[g] \in WatcherPcs \ UserWatchPcs
                                         /\ ref[g] # 0 /\ key[ref[g]] = k
    BY DEF RegistryIsExact
  <2>1. PICK o \in Gens : Borne(o) /\ key[o] = k  BY DEF Exact
  <2>2. \A x \in Tasks : pc[x] \in RetainPcs => held[x] # 0  BY Owners DEF RetainPcs
  <2>3. \A x \in Tasks : pc[x] \in CarryPcs => x \in Gens /\ pc[x] \in WatcherPcs \ UserWatchPcs
    BY CalmParts DEF Roles, CarryPcs, WatcherPcs, UserWatchPcs
  <2>4. o # 0  BY <2>1
  <2> QED BY <2>1, <2>2, <2>3, <2>4 DEF Borne
<1>2. Init => KInv /\ Exact  BY InitKInv, InitExact
<1>3. IInv /\ KInv /\ [Next]_vars => KInv'  BY NextKInv
<1>4. IInv /\ SpawningHasOwner /\ CInv /\ KInv /\ Exact /\ [Next]_vars => Exact'  BY NextExact
<1> QED BY <1>1, <1>2, <1>3, <1>4, CalmInvariance, Invariance, SpawningSlotsHaveOwners, PTL DEF Spec

-----------------------------------------------------------------------------
(***************************************************************************)
(* The steps of Desktops: every step of the manager is one of them or      *)
(* changes nothing there.                                                  *)
(***************************************************************************)

\* Without these failures no desktop is given up by a handoff.
NoneGivenUp == {"session", "reconcile"} \cap Failures = {}

\* A login screen accepts one password.  A desktop, alive or not, has the origin of a screen
\* that is gone; one that a handoff still carries is no desktop's yet.
Screens ==
  /\ \A g \in Gens : kind[g] = "none" => client[g] = "none" /\ authed[g] = "none"
  /\ \A g \in Gens : kind[g] = "login" /\ fate[g] = "live" /\ proc[g] = "running" =>
       authed[g] = "none"
  /\ \A d \in Gens : kind[d] \in Users =>
       /\ origin[d] \in Gens /\ kind[origin[d]] = "login" /\ fate[origin[d]] # "live"
       /\ \A x \in Tasks : pc[x] \in CarryPcs => ref[x] # origin[d]

\* PlaceOf and ClientOf, read from where the desktop is.
Places ==
  \A d \in Gens :
    /\ kind[d] \notin Users => PlaceOf(d) = "none" /\ ClientOf(d) = "none"
    /\ kind[d] \in Users =>
         /\ fate[d] # "live" => PlaceOf(d) = "ended" /\ ClientOf(d) = "none"
         /\ \A c \in Clients : ses[c] = d => PlaceOf(d) = "shown" /\ ClientOf(d) = c
         /\ background[kind[d]] = d => PlaceOf(d) = "parked" /\ ClientOf(d) = "none"
         /\ \A x \in Tasks : held[x] = d =>
              /\ PlaceOf(d) = IF pc[x] = "logout.terminate" THEN "leaving" ELSE "moving"
              /\ ClientOf(d) = "none"

\* What PlaceOf and ClientOf say follows from who owns the session.
LEMMA PlacesOfDesktops == IInv => Places
<1> SUFFICES ASSUME IInv, NEW d \in Gens
             PROVE  /\ kind[d] \notin Users => PlaceOf(d) = "none" /\ ClientOf(d) = "none"
                    /\ kind[d] \in Users =>
                         /\ fate[d] # "live" => PlaceOf(d) = "ended" /\ ClientOf(d) = "none"
                         /\ \A c \in Clients : ses[c] = d => PlaceOf(d) = "shown" /\ ClientOf(d) = c
                         /\ background[kind[d]] = d => PlaceOf(d) = "parked" /\ ClientOf(d) = "none"
                         /\ \A x \in Tasks : held[x] = d =>
                              /\ PlaceOf(d) = IF pc[x] = "logout.terminate" THEN "leaving" ELSE "moving"
                              /\ ClientOf(d) = "none"
  BY DEF Places
<1>1. CASE kind[d] \notin Users  BY <1>1 DEF PlaceOf, ClientOf, IsDesktop
<1>2. CASE kind[d] \in Users
  <2>0. IsDesktop(d) /\ d # 0  BY <1>2, Kinds DEF IsDesktop
  <2>1. fate[d] # "live" => PlaceOf(d) = "ended" /\ ClientOf(d) = "none"
    BY <2>0 DEF PlaceOf, ClientOf
  <2>2. ASSUME NEW c \in Clients, ses[c] = d PROVE PlaceOf(d) = "shown" /\ ClientOf(d) = c
    <3>1. fate[d] = "live"  BY <2>0, <2>2, Parts DEF OwnedIsLive
    <3>2. PlaceOf(d) = "shown"  BY <2>0, <2>2, <3>1 DEF PlaceOf, AttachedSomewhere
    <3>3. \A e \in Clients : ses[e] = d => e = c  BY <2>0, <2>2, Parts DEF OneHome
    <3>4. ClientOf(d) = CHOOSE e \in Clients : ses[e] = d  BY <3>2 DEF ClientOf
    <3>5. ClientOf(d) \in Clients /\ ses[ClientOf(d)] = d  BY <2>2, <3>4
    <3> QED BY <3>2, <3>3, <3>5
  <2>3. ASSUME background[kind[d]] = d PROVE PlaceOf(d) = "parked" /\ ClientOf(d) = "none"
    <3>1. fate[d] = "live"  BY <1>2, <2>0, <2>3, Parts DEF OwnedIsLive
    <3>2. ~AttachedSomewhere(d)  BY <1>2, <2>0, <2>3, Parts DEF OneHome, AttachedSomewhere
    <3> QED BY <2>0, <2>3, <3>1, <3>2 DEF PlaceOf, ClientOf
  <2>4. ASSUME NEW x \in Tasks, held[x] = d
        PROVE  /\ PlaceOf(d) = IF pc[x] = "logout.terminate" THEN "leaving" ELSE "moving"
               /\ ClientOf(d) = "none"
    <3>1. fate[d] = "live"  BY <2>0, <2>4, Parts DEF OwnedIsLive
    <3>2. ~AttachedSomewhere(d) /\ background[kind[d]] # d
      BY <1>2, <2>0, <2>4, Parts DEF OneHome, AttachedSomewhere
    <3>3. \A y \in Tasks : held[y] = d => y = x  BY <2>0, <2>4, Parts DEF OneHome
    <3>4. BeingLoggedOut(d) <=> pc[x] = "logout.terminate"
      BY <2>4, <3>3 DEF BeingLoggedOut
    <3> QED BY <2>0, <3>1, <3>2, <3>4 DEF PlaceOf, ClientOf
  <2> QED BY <1>2, <2>1, <2>2, <2>3, <2>4
<1> QED BY <1>1, <1>2

\* After a step, too.
LEMMA NextPlaces == IInv' => Places'
  BY PlacesOfDesktops, PTL

\* A desktop that is where it was, in the same task's hands if in any, keeps its place.
LEMMA PlaceStays ==
  ASSUME Places, Places', CInv, NEW d \in Gens, kind'[d] = kind[d],
         kind[d] \in Users =>
           /\ fate'[d] = "live" <=> fate[d] = "live"
           /\ \A c \in Clients : ses[c] = d => ses'[c] = d
           /\ background[kind[d]] = d => background'[kind[d]] = d
           /\ \A x \in Tasks : held[x] = d =>
                held'[x] = d /\ (pc'[x] = "logout.terminate" <=> pc[x] = "logout.terminate")
  PROVE  PlaceOf(d)' = PlaceOf(d) /\ ClientOf(d)' = ClientOf(d)
<1>1. CASE kind[d] \notin Users  BY <1>1 DEF Places
<1>2. CASE kind[d] \in Users /\ fate[d] # "live"  BY <1>2 DEF Places
<1>3. CASE kind[d] \in Users /\ fate[d] = "live"
  <2>1. HasHome(d)  BY <1>3, CalmParts DEF Homed, IsDesktop
  <2>2. ASSUME NEW c \in Clients, ses[c] = d PROVE PlaceOf(d)' = PlaceOf(d) /\ ClientOf(d)' = ClientOf(d)
    <3>1. ses'[c] = d  BY <1>3, <2>2
    <3>2. PlaceOf(d)' = "shown" /\ ClientOf(d)' = c  BY <1>3, <3>1 DEF Places
    <3> QED BY <1>3, <2>2, <3>2 DEF Places
  <2>3. CASE background[kind[d]] = d  BY <1>3, <2>3 DEF Places
  <2>4. ASSUME NEW x \in Tasks, held[x] = d PROVE PlaceOf(d)' = PlaceOf(d) /\ ClientOf(d)' = ClientOf(d)
    <3>1. held'[x] = d /\ (pc'[x] = "logout.terminate" <=> pc[x] = "logout.terminate")
      BY <1>3, <2>4
    <3>2. /\ PlaceOf(d)' = IF pc'[x] = "logout.terminate" THEN "leaving" ELSE "moving"
          /\ ClientOf(d)' = "none"
      BY <1>3, <3>1 DEF Places
    <3> QED BY <1>3, <2>4, <3>1, <3>2 DEF Places
  <2> QED BY <2>1, <2>2, <2>3, <2>4 DEF HasHome
<1> QED BY <1>1, <1>2, <1>3

-----------------------------------------------------------------------------
(* From one desktop to Desktops *)

\* What Desktops says of d is as it was.
KeepsPlace(d) == PlaceOf(d)' = PlaceOf(d) /\ ClientOf(d)' = ClientOf(d)
KeepsNature(d) == UserOf(d)' = UserOf(d) /\ ScreenOf(d)' = ScreenOf(d) /\ Runs(d)' = Runs(d)
Keeps(d) == KeepsPlace(d) /\ KeepsNature(d)

\* A session that is what it was.
LEMMA NatureStays ==
  ASSUME NEW d \in Gens, kind'[d] = kind[d],
         kind[d] \in Users => origin'[d] = origin[d] /\ proc'[d] = proc[d]
  PROVE  KeepsNature(d)
BY DEF KeepsNature, UserOf, ScreenOf, Runs, IsDesktop

\* Nothing happens to any desktop.
LEMMA NothingHappens ==
  ASSUME UNCHANGED <<client, authed>>, \A d \in Gens : Keeps(d)
  PROVE  [D!Next]_(D!vars)
<1>1. UNCHANGED D!vars  BY DEF D!vars, Keeps, KeepsPlace, KeepsNature
<1> QED BY <1>1

\* A desktop is taken from where it is, or arrives in the background.
LEMMA DesktopMoves ==
  ASSUME UNCHANGED <<client, authed>>, NEW s \in Gens, KeepsNature(s),
         \A d \in Gens : d # s => Keeps(d),
         \/ PlaceOf(s) \in {"shown", "parked"} /\ PlaceOf(s)' \in {"moving", "leaving"}
         \/ PlaceOf(s) = "moving" /\ PlaceOf(s)' = "parked"
  PROVE  [D!Next]_(D!vars)
<1>1. ClientOf(s)' = "none" /\ (PlaceOf(s) # "shown" => ClientOf(s) = "none")  BY DEF ClientOf
<1>2. CASE PlaceOf(s) \in {"shown", "parked"} /\ PlaceOf(s)' = "moving"
  <2>1. D!Takes(s)  BY <1>1, <1>2 DEF D!Takes, Keeps, KeepsPlace, KeepsNature
  <2> QED BY <2>1 DEF D!Next
<1>3. CASE PlaceOf(s) \in {"shown", "parked"} /\ PlaceOf(s)' = "leaving"
  <2>1. D!LogsOut(s)  BY <1>1, <1>3 DEF D!LogsOut, Keeps, KeepsPlace, KeepsNature
  <2> QED BY <2>1 DEF D!Next
<1>4. CASE PlaceOf(s) = "moving" /\ PlaceOf(s)' = "parked"
  <2>1. D!Parks(s)  BY <1>1, <1>4 DEF D!Parks, Keeps, KeepsPlace, KeepsNature
  <2> QED BY <2>1 DEF D!Next, D!Arrives
<1> QED BY <1>2, <1>3, <1>4

\* A desktop that is dead or left ends, or one dies.
LEMMA DesktopEnds ==
  ASSUME UNCHANGED <<client, authed>>, NEW s \in Gens,
         \A d \in Gens : d # s => Keeps(d),
         UserOf(s)' = UserOf(s), ScreenOf(s)' = ScreenOf(s),
         Runs(s)' = Runs(s) \/ ~Runs(s)',
         PlaceOf(s) \in {"moving", "shown", "parked", "leaving"},
         PlaceOf(s) = "leaving" \/ ~Runs(s),
         PlaceOf(s)' = "ended"
  PROVE  [D!Next]_(D!vars)
<1>1. ClientOf(s)' = "none"  BY DEF ClientOf
<1> DEFINE alive == [d \in Gens |-> Runs(d)]
<1>2. alive' \in {alive, [alive EXCEPT ![s] = FALSE]}
  <2>1. CASE Runs(s)' = Runs(s)
    <3>1. \A d \in Gens : Runs(d)' = Runs(d)  BY <2>1 DEF Keeps, KeepsNature
    <3> QED BY <3>1
  <2>2. CASE ~Runs(s)'
    <3>1. Runs(s)' = FALSE  BY <2>2
    <3>2. \A d \in Gens : d # s => Runs(d)' = Runs(d)  BY DEF Keeps, KeepsNature
    <3> QED BY <3>1, <3>2
  <2> QED BY <2>1, <2>2
<1>3. D!Ends(s)
  BY <1>1, <1>2 DEF D!Ends, D!Exists, Keeps, KeepsPlace, KeepsNature
<1> QED BY <1>3 DEF D!Next, D!Arrives

\* No other task gives away or gets a session, or turns to something else with it.
HandsStay(x) ==
  \A y \in Tasks : y # x /\ held[y] # 0 => held'[y] = held[y] /\ pc'[y] = pc[y]

\* Task x moves the session s, if any, and nothing else.
LEMMA OthersKeepPlaces ==
  ASSUME IInv, CInv, IInv', NEW x \in Tasks, NEW s,
         \A d \in Gens : d # s => kind'[d] = kind[d],
         HandsStay(x),
         \/ held[x] \in {0, s}
         \/ held'[x] = held[x] /\ (pc'[x] = "logout.terminate" <=> pc[x] = "logout.terminate"),
         \A c \in Clients : ses'[c] = ses[c] \/ ses[c] \in {0, s},
         \A u \in Users : background'[u] = background[u] \/ background[u] \in {0, s},
         \A d \in Gens : d # s /\ kind[d] \in Users => fate'[d] = fate[d]
  PROVE  \A d \in Gens : kind'[d] = kind[d] /\ (d # s \/ kind[d] \notin Users) => KeepsPlace(d)
<1> SUFFICES ASSUME NEW d \in Gens, kind'[d] = kind[d], d # s \/ kind[d] \notin Users
             PROVE  KeepsPlace(d)
  OBVIOUS
<1>1. Places /\ Places' /\ d # 0  BY PlacesOfDesktops, NextPlaces, Kinds
<1>2. ASSUME kind[d] \in Users, NEW y \in Tasks, held[y] = d
      PROVE  held'[y] = d /\ (pc'[y] = "logout.terminate" <=> pc[y] = "logout.terminate")
  BY <1>1, <1>2 DEF HandsStay
<1>3. kind[d] \in Users =>
        /\ fate'[d] = "live" <=> fate[d] = "live"
        /\ \A c \in Clients : ses[c] = d => ses'[c] = d
        /\ background[kind[d]] = d => background'[kind[d]] = d
  BY <1>1
<1> QED BY <1>1, <1>2, <1>3, PlaceStays DEF KeepsPlace

\* At most one desktop moves, from one place to another or not at all.
LEMMA Moves ==
  ASSUME IInv, CInv, IInv', NEW x \in Tasks, NEW s,
         UNCHANGED <<kind, origin, client, authed, proc>>,
         HandsStay(x),
         \/ held[x] \in {0, s}
         \/ held'[x] = held[x] /\ (pc'[x] = "logout.terminate" <=> pc[x] = "logout.terminate"),
         \A c \in Clients : ses'[c] = ses[c] \/ ses[c] \in {0, s},
         \A u \in Users : background'[u] = background[u] \/ background[u] \in {0, s},
         \A d \in Gens : d # s /\ kind[d] \in Users => fate'[d] = fate[d],
         IsDesktop(s) =>
           \/ PlaceOf(s) \in {"shown", "parked"} /\ PlaceOf(s)' \in {"moving", "leaving"}
           \/ PlaceOf(s) = "moving" /\ PlaceOf(s)' = "parked"
           \/ KeepsPlace(s)
  PROVE  [D!Next]_(D!vars)
<1>1. \A d \in Gens : KeepsNature(d)  BY NatureStays
<1>2. \A d \in Gens : d # s \/ kind[d] \notin Users => KeepsPlace(d)  BY OthersKeepPlaces
<1>3. CASE IsDesktop(s) /\ ~KeepsPlace(s)
  <2>1. s \in Gens  BY <1>3 DEF IsDesktop
  <2>2. \A d \in Gens : d # s => Keeps(d)  BY <1>1, <1>2 DEF Keeps
  <2> QED BY <1>1, <1>3, <2>1, <2>2, DesktopMoves
<1>4. CASE ~IsDesktop(s) \/ KeepsPlace(s)
  <2>1. \A d \in Gens : Keeps(d)  BY <1>1, <1>2, <1>4 DEF Keeps, IsDesktop
  <2> QED BY <2>1, NothingHappens
<1> QED BY <1>3, <1>4

\* Nothing moves: s is a login stage, a session that a task goes on with, or none.
LEMMA NoneMoves ==
  ASSUME IInv, CInv, IInv', NEW x \in Tasks, NEW s, ~IsDesktop(s),
         UNCHANGED <<kind, origin, client, authed, proc>>,
         HandsStay(x),
         \/ held[x] \in {0, s}
         \/ held'[x] = held[x] /\ (pc'[x] = "logout.terminate" <=> pc[x] = "logout.terminate"),
         \A c \in Clients : ses'[c] = ses[c] \/ ses[c] \in {0, s},
         \A u \in Users : background'[u] = background[u] \/ background[u] \in {0, s},
         \A d \in Gens : d # s /\ kind[d] \in Users => fate'[d] = fate[d]
  PROVE  [D!Next]_(D!vars)
BY Moves

-----------------------------------------------------------------------------
(* Steps that take a desktop, or park it *)

\* A session is taken from its slot, by a request or a handoff.
LEMMA SlotIsTaken ==
  ASSUME IInv, CInv, IInv', NEW x \in Tasks, NEW c \in Clients,
         UNCHANGED <<kind, origin, client, authed, proc, fate, background>>,
         \A y \in Tasks : y # x => Same(y),
         held[x] = 0, held'[x] = ses[c],
         \A d \in Clients : d # c => ses'[d] = ses[d]
  PROVE  [D!Next]_(D!vars)
<1>0. PICK s \in 0..MaxGen : s = ses[c]  BY Parts DEF TypeOK
<1>1. ASSUME IsDesktop(s)
      PROVE  PlaceOf(s) \in {"shown", "parked"} /\ PlaceOf(s)' \in {"moving", "leaving"}
  <2>1. s \in Gens /\ kind[s] \in Users /\ kind'[s] = kind[s]  BY <1>1 DEF IsDesktop
  <2>2. PlaceOf(s) = "shown"  BY <1>0, <2>1, PlacesOfDesktops DEF Places
  <2>3. PlaceOf(s)' = IF pc'[x] = "logout.terminate" THEN "leaving" ELSE "moving"
    BY <1>0, <2>1, NextPlaces DEF Places
  <2> QED BY <2>2, <2>3
<1> QED BY <1>0, <1>1, Moves DEF HandsStay, Same

\* A parked desktop is taken, by a log-out or a handoff.
LEMMA ParkedIsTaken ==
  ASSUME IInv, CInv, IInv', NEW x \in Tasks, NEW u \in Users,
         UNCHANGED <<kind, origin, client, authed, proc, fate, ses>>,
         \A y \in Tasks : y # x => Same(y),
         held[x] = 0, held'[x] = background[u],
         \A v \in Users : v # u => background'[v] = background[v]
  PROVE  [D!Next]_(D!vars)
<1>0. PICK s \in 0..MaxGen : s = background[u]  BY Parts DEF TypeOK
<1>1. ASSUME IsDesktop(s)
      PROVE  PlaceOf(s) \in {"shown", "parked"} /\ PlaceOf(s)' \in {"moving", "leaving"}
  <2>1. s \in Gens /\ kind[s] \in Users /\ kind'[s] = kind[s]  BY <1>1 DEF IsDesktop
  <2>2. kind[s] = u  BY <1>0, <2>1, Kinds, Parts DEF BackgroundIsTheUsers
  <2>3. PlaceOf(s) = "parked"  BY <1>0, <2>1, <2>2, PlacesOfDesktops DEF Places
  <2>4. PlaceOf(s)' = IF pc'[x] = "logout.terminate" THEN "leaving" ELSE "moving"
    BY <1>0, <2>1, NextPlaces DEF Places
  <2> QED BY <2>3, <2>4
<1> QED BY <1>0, <1>1, Moves DEF HandsStay, Same

\* A released desktop is parked: its user has no other one that it could displace.
LEMMA ReleasedIsParked ==
  ASSUME IInv, CInv, IInv', NEW x \in Tasks, LaunchReplace(x) \/ CancelReleases(x)
  PROVE  [D!Next]_(D!vars)
<1>0. PICK s : s = held[x]  OBVIOUS
<1>1. /\ UNCHANGED <<slots, kind, origin, client, authed, proc>> /\ Release(s)
      /\ \A y \in Tasks : y # x => Same(y)
      /\ pc[x] \in {"launch.replace", "cancel.release"}
  BY <1>0, Parts, ReturnEffect
     DEF LaunchReplace, CancelReleases, Goto, TypeOK, Same, origins
<1>2. s \in Gens /\ s # 0 /\ fate[s] = "live"  BY <1>0, <1>1, Owners DEF HoldPcs
<1>3. ses' = ses  BY <1>1 DEF slots
<1>4. CASE ~IsDesktop(s)
  <2>1. background' = background /\ \A d \in Gens : d # s => fate'[d] = fate[d]
    BY <1>1, <1>4 DEF Release, Ended
  <2> QED BY <1>0, <1>1, <1>3, <1>4, <2>1, NoneMoves DEF HandsStay, Same
<1>5. CASE IsDesktop(s)
  <2>1. background[kind[s]] = 0
    <3> SUFFICES ASSUME background[kind[s]] # 0 PROVE FALSE
      OBVIOUS
    <3>1. kind[s] \in Users  BY <1>5 DEF IsDesktop
    <3>2. background[kind[s]] \in Gens /\ fate[background[kind[s]]] = "live"
          /\ kind[background[kind[s]]] = kind[s]
      BY <3>1, Parts, SomeSession DEF TypeOK, BackgroundIsTheUsers
    <3>3. background[kind[s]] = s
      BY <1>2, <1>5, <3>1, <3>2, CalmParts DEF OneDesktopPerUser, IsDesktop
    <3> QED BY <1>0, <1>2, <3>1, <3>3, Parts DEF OneHome
  <2>2. background' = [background EXCEPT ![kind[s]] = s] /\ fate' = Ended(0, "dropped")
    BY <1>1, <1>5, <2>1 DEF Release
  <2>3. \A d \in Gens : fate'[d] = fate[d]  BY <2>2, Kinds DEF Ended
  <2>4. kind[s] \in Users /\ background'[kind'[s]] = s /\ kind'[s] = kind[s]
    BY <1>1, <1>5, <2>2, Parts DEF IsDesktop, TypeOK
  <2>5. PlaceOf(s)' = "parked"  BY <1>2, <2>4, NextPlaces DEF Places
  <2>6. PlaceOf(s) = "moving"
    <3>1. pc[x] # "logout.terminate"  BY <1>1
    <3> QED BY <1>0, <1>2, <2>4, <3>1, PlacesOfDesktops DEF Places
  <2>7. \A u \in Users : background'[u] = background[u] \/ background[u] = 0
    BY <2>1, <2>2, Parts DEF TypeOK
  <2> QED BY <1>0, <1>1, <1>3, <2>3, <2>5, <2>6, <2>7, Moves DEF HandsStay, Same
<1> QED BY <1>4, <1>5

\* The requests that arrive and the steps that find a desktop.
LEMMA TakesDesktop ==
  ASSUME IInv, CInv, IInv', SpawningHasOwner, NEW x \in Tasks,
         \/ \E c \in Clients : x \in Requests /\ (LaunchArrives(x, c) \/ CancelArrives(x, c) \/ PlayArrives(x, c))
         \/ \E u \in Users : LogoutArrives(x, u)
         \/ x \in Gens /\ (LoginReset(x) \/ HandoffLooksInBackground(x) \/ HandoffLooksForActive(x))
         \/ LogoutLooksForActive(x)
  PROVE  [D!Next]_(D!vars)
<1>1. /\ UNCHANGED <<kind, origin, client, authed, proc, fate>>
      /\ \A y \in Tasks : y # x => Same(y)
      /\ pc[x] \in {"idle", "cancel.take", "handoff.background", "handoff.active", "logout.active"}
  <2>1. ASSUME NEW c \in Clients, LaunchArrives(x, c) \/ CancelArrives(x, c) \/ PlayArrives(x, c)
        PROVE  /\ UNCHANGED <<kind, origin, client, authed, proc, fate>>
               /\ \A y \in Tasks : y # x => Same(y)
               /\ pc[x] = "idle"
    BY <2>1, Parts DEF LaunchArrives, CancelArrives, PlayArrives, CancelTakes, ClaimSlot, TakeSlot, Goto,
       TypeOK, Same, origins
  <2>2. ASSUME NEW u \in Users, LogoutArrives(x, u)
        PROVE  /\ UNCHANGED <<kind, origin, client, authed, proc, fate>>
               /\ \A y \in Tasks : y # x => Same(y)
               /\ pc[x] = "idle"
    BY <2>2, Parts DEF LogoutArrives, Goto, TypeOK, Same, origins
  <2>3. CASE LoginReset(x)
    BY <2>3, Parts DEF LoginReset, CancelTakes, TakeSlot, Goto, TypeOK, Same, origins
  <2>4. CASE HandoffLooksInBackground(x) \/ HandoffLooksForActive(x)
    BY <2>4, Parts DEF HandoffLooksInBackground, HandoffLooksForActive, TakeSlot, Goto, TypeOK, Same,
       origins
  <2>5. CASE LogoutLooksForActive(x)
    BY <2>5, Parts, ReturnEffect DEF LogoutLooksForActive, TakeSlot, Goto, TypeOK, Same, origins
  <2> QED BY <2>1, <2>2, <2>3, <2>4, <2>5
<1>2. held[x] = 0 /\ pc[x] \notin HoldPcs  BY <1>1, CalmParts DEF Roles, HoldPcs
<1>3. \/ \E c \in Clients : /\ held'[x] = ses[c] /\ background' = background
                            /\ \A d \in Clients : d # c => ses'[d] = ses[d]
      \/ \E u \in Users : /\ held'[x] = background[u] /\ ses' = ses
                          /\ \A v \in Users : v # u => background'[v] = background[v]
      \/ UNCHANGED <<ses, background>>
  <2>1. ASSUME NEW c \in Clients, LaunchArrives(x, c) \/ CancelArrives(x, c) \/ PlayArrives(x, c)
        PROVE  /\ held'[x] = ses[c] /\ background' = background
               /\ \A d \in Clients : d # c => ses'[d] = ses[d]
    <3>1. LaunchArrives(x, c) => st[c] # "Spawning"  BY Arrives DEF LaunchArrives
    <3> QED BY <2>1, <3>1, Parts DEF LaunchArrives, CancelArrives, PlayArrives, CancelTakes, ClaimSlot,
           TakeSlot, TypeOK
  <2>2. ASSUME NEW u \in Users, LogoutArrives(x, u)
        PROVE  /\ held'[x] = background[u] /\ ses' = ses
               /\ \A v \in Users : v # u => background'[v] = background[v]
    BY <2>2, Parts DEF LogoutArrives, TypeOK, slots
  <2>3. CASE LoginReset(x)
    <3>1. pc[x] = "cancel.take" /\ CancelTakes(x, cl[x])  BY <2>3 DEF LoginReset
    <3>2. cl[x] \in Clients  BY <3>1, Parts DEF Hands, HandsOf, ClientPcs
    <3> QED BY <3>1, <3>2, Parts DEF CancelTakes, TakeSlot, TypeOK
  <2>4. CASE HandoffLooksInBackground(x)
    <3>1. pc[x] \in CarryPcs  BY <2>4 DEF HandoffLooksInBackground, CarryPcs
    <3>2. us[x] \in Users  BY <3>1, Parts DEF Hands, HandsOf
    <3> QED BY <2>4, <3>2, Parts DEF HandoffLooksInBackground, TypeOK, slots
  <2>5. CASE HandoffLooksForActive(x) \/ LogoutLooksForActive(x)
    BY <2>5, Parts DEF HandoffLooksForActive, LogoutLooksForActive, TakeSlot, TypeOK, slots
  <2> QED BY <2>1, <2>2, <2>3, <2>4, <2>5
<1>4. CASE UNCHANGED <<ses, background>>
  <2>1. ~IsDesktop(0)  BY Kinds DEF IsDesktop
  <2> QED BY <1>1, <1>2, <1>4, <2>1, NoneMoves DEF HandsStay, Same
<1>5. CASE \E c \in Clients : /\ held'[x] = ses[c] /\ background' = background
                              /\ \A d \in Clients : d # c => ses'[d] = ses[d]
  BY <1>1, <1>2, <1>5, SlotIsTaken
<1>6. CASE \E u \in Users : /\ held'[x] = background[u] /\ ses' = ses
                            /\ \A v \in Users : v # u => background'[v] = background[v]
  BY <1>1, <1>2, <1>6, ParkedIsTaken
<1> QED BY <1>3, <1>4, <1>5, <1>6

-----------------------------------------------------------------------------
(* Steps that no desktop notices *)

\* Asking, ticking, registering, and the end of a login stage move no desktop.
LEMMA Unnoticed ==
  ASSUME IInv, CInv, IInv', NEW x \in Tasks,
         \/ LaunchRegister(x) \/ HandoffDetaches(x) \/ WatchLoginExit(x)
         \/ UserTicks(x) \/ UserLooksInBackground(x) \/ UserAsks(x)
  PROVE  [D!Next]_(D!vars)
<1>1. UNCHANGED <<kind, origin, client, authed, proc, fate, ses, background>>
  BY DEF LaunchRegister, HandoffDetaches, WatchLoginExit, UserTicks, UserLooksInBackground,
         UserAsks, slots, origins
<1>2. \A y \in Tasks : y # x => Same(y)
  <2>1. CASE WatchLoginExit(x)
    BY <2>1, Parts, ReturnEffect DEF WatchLoginExit, Goto, TypeOK, Same
  <2>2. CASE UserLooksInBackground(x)
    BY <2>2, Parts, ReturnEffect DEF UserLooksInBackground, Goto, TypeOK, Same
  <2>3. CASE LaunchRegister(x) \/ HandoffDetaches(x)
    BY <2>3, Parts DEF LaunchRegister, HandoffDetaches, Goto, TypeOK, Same
  <2>4. CASE UserTicks(x) \/ UserAsks(x)
    BY <2>4, Parts DEF UserTicks, UserAsks, Goto, TypeOK, Same
  <2> QED BY <2>1, <2>2, <2>3, <2>4
<1>3. \/ held[x] = 0
      \/ held'[x] = held[x] /\ (pc'[x] = "logout.terminate" <=> pc[x] = "logout.terminate")
  <2>1. CASE LaunchRegister(x) \/ HandoffDetaches(x)
    BY <2>1, Parts DEF LaunchRegister, HandoffDetaches, Goto, TypeOK
  <2>2. CASE ~(LaunchRegister(x) \/ HandoffDetaches(x))
    <3>1. pc[x] \in {"login.watch", "user.tick", "user.background", "user.ask"}
      BY <2>2 DEF WatchLoginExit, UserTicks, UserLooksInBackground, UserAsks
    <3> QED BY <3>1, CalmParts DEF Roles, HoldPcs
  <2> QED BY <2>1, <2>2
<1>4. ~IsDesktop(0)  BY Kinds DEF IsDesktop
<1> QED BY <1>1, <1>2, <1>3, <1>4, NoneMoves DEF HandsStay, Same

\* A /launch ends: its slot was empty, and what it puts there is a login stage.
LEMMA LaunchEnds ==
  ASSUME IInv, CInv, IInv', NEW x \in Tasks, LaunchFails(x) \/ LaunchInsert(x)
  PROVE  [D!Next]_(D!vars)
<1>1. /\ pc[x] \in {"launch.fail", "launch.insert"}
      /\ UNCHANGED <<background, kind, origin, client, authed, proc>>
      /\ \A y \in Tasks : y # x => Same(y)
  BY Parts, ReturnEffect DEF LaunchFails, LaunchInsert, origins
<1>2. pc[x] \in ClaimPcs /\ pc[x] \in ClientOpPcs  BY <1>1 DEF ClaimPcs, ClientOpPcs
<1>3. cl[x] \in Clients /\ ses[cl[x]] = 0  BY <1>2, CalmParts, Parts DEF SlotOf, SlotShape
<1>4. /\ \A c \in Clients : c # cl[x] => ses'[c] = ses[c]
      /\ fate' = Ended(0, "dropped")
  BY <1>3, Parts DEF LaunchFails, LaunchInsert, PutSlot, TypeOK
<1>5. \A d \in Gens : fate'[d] = fate[d]  BY <1>4, Kinds DEF Ended
<1>6. held[x] = 0 \/ kind[held[x]] = "login"
  BY <1>1, CalmParts DEF Roles, HoldPcs, Carries, NewLoginPcs
<1>7. ~IsDesktop(held[x])  BY <1>6, Kinds DEF IsDesktop
<1> QED BY <1>1, <1>3, <1>4, <1>5, <1>7, NoneMoves DEF HandsStay, Same

\* A handoff ends the login stage that streams on its client.
LEMMA HandoffEndsLogin ==
  ASSUME IInv, CInv, IInv', NEW x \in Gens, HandoffTakes(x) PROVE [D!Next]_(D!vars)
<1>0. PICK c, s : c = cl[x] /\ s = ses[c]  OBVIOUS
<1>1. x \in Tasks /\ pc[x] = "handoff.take"  BY DEF HandoffTakes
<1>2. pc[x] \in TakePcs /\ pc[x] \in ClientOpPcs /\ pc[x] \notin HoldPcs
  BY <1>1 DEF TakePcs, ClientOpPcs, HoldPcs
<1>3. c \in Clients /\ kind[s] = "login" /\ held[x] = 0
  BY <1>0, <1>1, <1>2, CalmParts DEF SlotOf, Roles
<1>4. /\ UNCHANGED <<background, kind, origin, client, authed, proc>>
      /\ \A y \in Tasks : y # x => Same(y)
  BY <1>1, Parts, ReturnEffect DEF HandoffTakes, Goto, TypeOK, Same, origins
<1>5. /\ \A d \in Clients : d # c => ses'[d] = ses[d]
      /\ \A d \in Gens : d # s => fate'[d] = fate[d]
  BY <1>0, <1>3, Parts DEF HandoffTakes, Ended, TypeOK, slots
<1>6. ~IsDesktop(s)  BY <1>3, Kinds DEF IsDesktop
<1> QED BY <1>0, <1>1, <1>3, <1>4, <1>5, <1>6, NoneMoves DEF HandsStay, Same

\* A login stage streams.
LEMMA LoginStreams ==
  ASSUME IInv, CInv, IInv', NEW x \in Tasks, PlayFresh(x) PROVE [D!Next]_(D!vars)
<1>0. PICK s, c : s = held[x] /\ c = cl[x]  OBVIOUS
<1>1. pc[x] = "play.fresh"  BY DEF PlayFresh
<1>2. /\ pc[x] \in EmptyPcs /\ pc[x] \in ClientOpPcs /\ pc[x] \in HoldPcs /\ pc[x] \in NewLoginPcs
  BY <1>1 DEF EmptyPcs, ClientOpPcs, HoldPcs, NewLoginPcs
<1>3. c \in Clients /\ ses[c] = 0 /\ kind[s] = "login" /\ client[origin[s]] = c /\ pc[s] = "none"
      /\ s \in Gens /\ s # 0
  BY <1>0, <1>1, <1>2, CalmParts, Parts, Owners DEF SlotOf, Carries, SlotShape, Unwatched
<1>4. UNCHANGED <<background, kind, origin, client, authed, proc>> /\ StartStreaming(x, s, c, TRUE)
  BY <1>0, <1>1, <1>3, CalmParts DEF PlayFresh, CalmRuns, origins
<1>5. held[s] = 0  BY <1>3, CalmParts DEF Roles, HoldPcs
<1>6. HandsStay(x)
  BY <1>3, <1>4, <1>5, Parts DEF HandsStay, StartStreaming, TypeOK
<1>7. /\ \A d \in Clients : d # c => ses'[d] = ses[d]
      /\ fate' = Ended(0, "dropped")
  BY <1>3, <1>4, Parts DEF StartStreaming, PutSlot, TypeOK
<1>8. \A d \in Gens : fate'[d] = fate[d]  BY <1>7, Kinds DEF Ended
<1>9. ~IsDesktop(s)  BY <1>3, Kinds DEF IsDesktop
<1> QED BY <1>0, <1>3, <1>4, <1>6, <1>7, <1>8, <1>9, NoneMoves

-----------------------------------------------------------------------------
(* Steps that Desktops knows by name *)

\* A client that an attached desktop is shown on has it in its slot.
LEMMA ShownInSlot ==
  ASSUME IInv, NEW d \in Gens, ClientOf(d) # "none"
  PROVE  ClientOf(d) \in Clients /\ ses[ClientOf(d)] = d
<1>1. PlaceOf(d) = "shown"  BY DEF ClientOf
<1>2. IsDesktop(d) /\ AttachedSomewhere(d)  BY <1>1 DEF PlaceOf
<1>3. PICK c \in Clients : ses[c] = d  BY <1>2 DEF AttachedSomewhere
<1>4. ClientOf(d) = c  BY <1>2, <1>3, PlacesOfDesktops DEF Places, IsDesktop
<1> QED BY <1>3, <1>4

\* Every desktop that is alive is in some place.
LEMMA LiveIsSomewhere ==
  ASSUME IInv, CInv, NEW d \in Gens, fate[d] = "live", kind[d] \in Users
  PROVE  PlaceOf(d) \in {"moving", "shown", "parked", "leaving"}
<1>1. HasHome(d)  BY CalmParts DEF Homed, IsDesktop
<1>2. Places  BY PlacesOfDesktops
<1>3. ASSUME NEW c \in Clients, ses[c] = d PROVE PlaceOf(d) = "shown"  BY <1>2, <1>3 DEF Places
<1>4. background[kind[d]] = d => PlaceOf(d) = "parked"  BY <1>2 DEF Places
<1>5. ASSUME NEW x \in Tasks, held[x] = d PROVE PlaceOf(d) \in {"moving", "leaving"}
  BY <1>2, <1>5 DEF Places
<1> QED BY <1>1, <1>3, <1>4, <1>5 DEF HasHome

\* The process of a session ends: a desktop dies, a login stage's exit shows nobody anything.
LEMMA ProcessEnds ==
  ASSUME IInv, CInv, IInv', NEW g \in Gens, ProcessDies(g) PROVE [D!Next]_(D!vars)
<1>1. /\ UNCHANGED <<slots, background, kind, origin, client, authed, fate, locals>>
      /\ fate[g] = "live" /\ proc[g] = "running"
      /\ proc' = [proc EXCEPT ![g] = IF kind[g] = "login" THEN "failed" ELSE "dead"]
  BY DEF ProcessDies, origins
<1>2. ASSUME NEW d \in Gens PROVE KeepsPlace(d)
  <2>1. ses' = ses /\ background' = background /\ fate' = fate /\ kind' = kind /\ held' = held /\ pc' = pc
    BY <1>1 DEF slots, locals
  <2> QED BY <2>1, PlacesOfDesktops, NextPlaces, PlaceStays DEF KeepsPlace
<1>3. \A d \in Gens : d # g => Keeps(d)
  <2>1. \A d \in Gens : d # g => proc'[d] = proc[d]  BY <1>1, Parts DEF TypeOK
  <2> QED BY <1>1, <1>2, <2>1, NatureStays DEF Keeps
<1>4. CASE kind[g] \notin Users
  <2>1. KeepsNature(g)  BY <1>1, <1>4, NatureStays
  <2> QED BY <1>1, <1>2, <1>3, <2>1, NothingHappens DEF Keeps
<1>5. CASE kind[g] \in Users
  <2>1. proc'[g] = "dead"  BY <1>1, <1>5, Kinds, Parts DEF TypeOK
  <2>2. Runs(g) = TRUE /\ Runs(g)' = FALSE  BY <1>1, <1>5, <2>1 DEF Runs, IsDesktop
  <2>3. UserOf(g)' = UserOf(g) /\ ScreenOf(g)' = ScreenOf(g)
    BY <1>1 DEF UserOf, ScreenOf, IsDesktop
  <2>4. PlaceOf(g) \in {"moving", "shown", "parked", "leaving"}
    BY <1>1, <1>5, LiveIsSomewhere
  <2>5. D!Dies(g)
    <3> DEFINE alive == [d \in Gens |-> Runs(d)]
    <3>1. \A d \in Gens : d # g => Runs(d)' = Runs(d)  BY <1>3 DEF Keeps, KeepsNature
    <3>2. alive' = [alive EXCEPT ![g] = FALSE]  BY <2>2, <3>1
    <3>3. alive[g]  BY <2>2
    <3> QED BY <1>1, <1>2, <1>3, <2>3, <2>4, <3>2, <3>3
         DEF D!Dies, D!Exists, Keeps, KeepsPlace, KeepsNature
  <2> QED BY <2>5 DEF D!Next
<1> QED BY <1>4, <1>5

\* A login screen accepts a password.
LEMMA LoginProves ==
  ASSUME IInv, CInv, IInv', Screens, NEW g \in Gens, NEW u \in Users, LoginSucceeds(g, u)
  PROVE  [D!Next]_(D!vars)
<1>1. /\ UNCHANGED <<slots, background, kind, origin, client, fate, locals>>
      /\ fate[g] = "live" /\ proc[g] = "running" /\ kind[g] = "login"
      /\ proc' = [proc EXCEPT ![g] = "ok"] /\ authed' = [authed EXCEPT ![g] = u]
  BY DEF LoginSucceeds
<1>2. ASSUME NEW d \in Gens PROVE KeepsPlace(d)
  <2>1. ses' = ses /\ background' = background /\ fate' = fate /\ kind' = kind /\ held' = held /\ pc' = pc
    BY <1>1 DEF slots, locals
  <2> QED BY <2>1, PlacesOfDesktops, NextPlaces, PlaceStays DEF KeepsPlace
<1>3. ASSUME NEW d \in Gens PROVE KeepsNature(d)
  <2>1. kind[d] \in Users => d # g  BY <1>1, Kinds
  <2>2. d # g => proc'[d] = proc[d]  BY <1>1, Parts DEF TypeOK
  <2> QED BY <1>1, <2>1, <2>2, NatureStays
<1>4. client[g] # "none" /\ authed[g] = "none"
  BY <1>1, Kinds, Parts DEF Screens, Lineage
<1>5. D!Proves(g, u)
  BY <1>1, <1>2, <1>3, <1>4 DEF D!Proves, KeepsPlace, KeepsNature
<1> QED BY <1>5 DEF D!Next

\* A launch shows a login screen on its client.
LEMMA LaunchShowsScreen ==
  ASSUME IInv, CInv, IInv', Screens, NEW x \in Tasks, LaunchSpawn(x) PROVE [D!Next]_(D!vars)
<1>1. pc[x] = "launch.spawn" /\ UNCHANGED <<ses, background, authed>>
      /\ \A y \in Tasks : y # x => Same(y)
  BY Parts DEF LaunchSpawn, NewSession, Goto, TypeOK, Same, slots
<1>2. held[x] = 0 /\ cl[x] \in Clients
  BY <1>1, CalmParts, Parts DEF Roles, HoldPcs, Hands, HandsOf, ClientPcs
<1>3. CASE Goto(x, "launch.fail") /\ UNCHANGED <<kind, origin, proc, fate, client>>
  <2>1. ~IsDesktop(0)  BY Kinds DEF IsDesktop
  <2> QED BY <1>1, <1>2, <1>3, <2>1, NoneMoves DEF HandsStay, Same
<1>4. ASSUME NewSession(x, "login", nextGen), client' = [client EXCEPT ![nextGen] = cl[x]]
      PROVE  [D!Next]_(D!vars)
  <2>0. PICK g \in Gens : g = nextGen  BY <1>4 DEF NewSession
  <2>1. kind[g] = "none" /\ client[g] = "none" /\ kind'[g] = "login"
    BY <1>4, <2>0, Kinds, Parts DEF Screens, NewSession, TypeOK
  <2>2. \A d \in Gens : d # g => /\ kind'[d] = kind[d] /\ origin'[d] = origin[d]
                                 /\ proc'[d] = proc[d] /\ fate'[d] = fate[d]
    BY <1>4, <2>0, Parts DEF NewSession, TypeOK
  <2>3. \A d \in Gens : d # g => KeepsPlace(d)
    <3>1. HandsStay(x) /\ held[x] \in {0, g} /\ ses' = ses /\ background' = background
      BY <1>1, <1>2 DEF HandsStay, Same
    <3>2. \A d \in Gens : kind'[d] = kind[d] /\ (d # g \/ kind[d] \notin Users) => KeepsPlace(d)
      BY <2>2, <3>1, OthersKeepPlaces
    <3> QED BY <2>2, <3>2
  <2>4. \A d \in Gens : d # g => KeepsNature(d)  BY <2>2, NatureStays
  <2>5. Keeps(g)
    <3>1. KeepsPlace(g)  BY <2>1, Kinds, PlacesOfDesktops, NextPlaces DEF Places, KeepsPlace
    <3>2. ~IsDesktop(g) /\ ~IsDesktop(g)'  BY <2>1, Kinds DEF IsDesktop
    <3> QED BY <3>1, <3>2 DEF Keeps, KeepsNature, UserOf, ScreenOf, Runs
  <2>6. \A d \in Gens : Keeps(d)  BY <2>3, <2>4, <2>5 DEF Keeps
  <2>7. D!Launches(g, cl[x])
    BY <1>1, <1>4, <2>0, <2>1, <2>6 DEF D!Launches, Keeps, KeepsPlace, KeepsNature
  <2> QED BY <1>2, <2>7 DEF D!Next
<1> QED BY <1>3, <1>4 DEF LaunchSpawn

\* A handoff makes a desktop for the password its login screen accepted.
LEMMA HandoffOpens ==
  ASSUME IInv, CInv, IInv', Screens, NoneGivenUp, NEW x \in Tasks, HandoffSpawns(x)
  PROVE  [D!Next]_(D!vars)
<1>0. PICK s, u : s = ref[x] /\ u = us[x]  OBVIOUS
<1>1. pc[x] = "handoff.spawn" /\ UNCHANGED <<ses, background, client, authed>>
      /\ \A y \in Tasks : y # x => Same(y)
  BY Parts, ReturnEffect DEF HandoffSpawns, NewSession, Goto, TypeOK, Same, slots, origins
<1>2. pc[x] \in CarryPcs /\ pc[x] \notin HoldPcs  BY <1>1 DEF CarryPcs, HoldPcs
<1>3. held[x] = 0 /\ s \in Gens /\ u \in Users /\ authed[s] = u
  BY <1>0, <1>2, CalmParts, Parts DEF Roles, Hands, HandsOf
<1>4. CASE UNCHANGED <<kind, origin, proc, fate>>
  <2>1. ~IsDesktop(0)  BY Kinds DEF IsDesktop
  <2> QED BY <1>1, <1>3, <1>4, <2>1, NoneMoves DEF HandsStay, Same
<1>5. ASSUME NewSession(x, u, s), Goto(x, "handoff.start")
      PROVE  [D!Next]_(D!vars)
  <2>0. PICK g \in Gens : g = nextGen  BY <1>5 DEF NewSession
  <2>1. /\ kind[g] = "none" /\ client[g] = "none"
        /\ kind'[g] = u /\ origin'[g] = s /\ proc'[g] = "running" /\ held'[x] = g
        /\ pc'[x] = "handoff.start"
    BY <1>5, <2>0, Kinds, Parts DEF Screens, NewSession, Goto, TypeOK
  <2>2. \A d \in Gens : d # g => /\ kind'[d] = kind[d] /\ origin'[d] = origin[d]
                                 /\ proc'[d] = proc[d] /\ fate'[d] = fate[d]
    BY <1>5, <2>0, Parts DEF NewSession, TypeOK
  <2>3. \A d \in Gens : d # g => Keeps(d)
    <3>1. \A d \in Gens : d # g => KeepsPlace(d)
      <4>1. HandsStay(x) /\ held[x] \in {0, g} /\ ses' = ses /\ background' = background
        BY <1>1, <1>3 DEF HandsStay, Same
      <4>2. \A d \in Gens : kind'[d] = kind[d] /\ (d # g \/ kind[d] \notin Users) => KeepsPlace(d)
        BY <2>2, <4>1, OthersKeepPlaces
      <4> QED BY <2>2, <4>2
    <3>2. \A d \in Gens : d # g => KeepsNature(d)  BY <2>2, NatureStays
    <3> QED BY <3>1, <3>2 DEF Keeps
  <2>4. PlaceOf(g) = "none" /\ ClientOf(g) = "none"
    BY <2>1, Kinds, PlacesOfDesktops DEF Places
  <2>5. PlaceOf(g)' = "moving" /\ ClientOf(g)' = "none"
    <3>1. kind'[g] \in Users /\ pc'[x] # "logout.terminate"  BY <1>3, <2>1
    <3> QED BY <2>1, <3>1, NextPlaces DEF Places
  <2>6. ~IsDesktop(g) /\ IsDesktop(g)'  BY <1>3, <2>1, Kinds DEF IsDesktop
  <2>7. UserOf(g)' = u /\ ScreenOf(g)' = s /\ Runs(g)' = TRUE
    BY <2>1, <2>6 DEF UserOf, ScreenOf, Runs
  <2>8. \A e \in Gens : ScreenOf(e) # s
    BY <1>0, <1>2, <1>3, Kinds DEF Screens, ScreenOf, IsDesktop
  <2>9. \A e \in Gens : PlaceOf(e) \in {"moving", "shown", "parked", "leaving"} => UserOf(e) # u
    <3> SUFFICES ASSUME NEW e \in Gens, PlaceOf(e) \in {"moving", "shown", "parked", "leaving"},
                        UserOf(e) = u
                 PROVE  FALSE
      OBVIOUS
    <3>1. IsDesktop(e) /\ fate[e] = "live"  BY DEF PlaceOf
    <3>2. kind[e] = u  BY <3>1 DEF UserOf
    <3> QED BY <1>0, <1>1, <3>1, <3>2, CalmParts DEF Knows
  <2>10. ClientOf(g)' = ClientOf(g)  BY <2>4, <2>5
  <2>11. D!Opens(g, s)
    <3> DEFINE user == [d \in Gens |-> UserOf(d)]
               place == [d \in Gens |-> PlaceOf(d)]
               on == [d \in Gens |-> ClientOf(d)]
               screen == [d \in Gens |-> ScreenOf(d)]
               alive == [d \in Gens |-> Runs(d)]
    <3>1. user' = [user EXCEPT ![g] = authed[s]]
      BY <1>3, <2>3, <2>7 DEF Keeps, KeepsNature
    <3>2. screen' = [screen EXCEPT ![g] = s]  BY <2>3, <2>7 DEF Keeps, KeepsNature
    <3>3. place' = [place EXCEPT ![g] = "moving"]  BY <2>3, <2>5 DEF Keeps, KeepsPlace
    <3>4. alive' = [alive EXCEPT ![g] = TRUE]  BY <2>3, <2>7 DEF Keeps, KeepsNature
    <3>5. on' = on  BY <2>3, <2>10 DEF Keeps, KeepsPlace
    <3>6. place[g] = "none" /\ client[g] = "none"  BY <2>1, <2>4
    <3>7. authed[s] # "none" /\ \A e \in Gens : screen[e] # s  BY <1>3, <2>8, Kinds
    <3>8. \A e \in Gens : D!Exists(e) => user[e] # authed[s]
      BY <1>3, <2>9 DEF D!Exists
    <3> QED BY <1>1, <3>1, <3>2, <3>3, <3>4, <3>5, <3>6, <3>7, <3>8 DEF D!Opens
  <2> QED BY <1>3, <2>11 DEF D!Next
<1> QED BY <1>0, <1>4, <1>5 DEF HandoffSpawns, NoneGivenUp

\* A handoff puts the desktop it has in its hands on the client whose login screen it answers.
LEMMA HandoffShows ==
  ASSUME IInv, CInv, IInv', Screens, NoneGivenUp, NEW x \in Gens,
         HandoffStreams(x) \/ HandoffResumes(x)
  PROVE  [D!Next]_(D!vars)
<1>0. PICK d, c : d = held[x] /\ c = cl[x]  OBVIOUS
<1>1. /\ x \in Tasks /\ pc[x] \in {"handoff.start", "handoff.resume"}
      /\ UNCHANGED <<background, kind, client, authed, proc>>
  BY DEF HandoffStreams, HandoffResumes, origins
<1>2. pc[x] \in HoldPcs /\ pc[x] \in EmptyPcs /\ pc[x] \in ClientOpPcs /\ pc[x] # "logout.terminate"
  BY <1>1 DEF HoldPcs, EmptyPcs, HandoffPcs, ClientOpPcs
<1>3. d \in Gens /\ d # 0 /\ c \in Clients /\ ses[c] = 0 /\ fate[d] = "live" /\ origin[d] \in Gens
  BY <1>0, <1>1, <1>2, Owners, CalmParts, Parts DEF SlotOf, SlotShape
<1>4. kind[d] \in Users
  <2>1. kind[d] = us[x] /\ us[x] \in Users
    BY <1>0, <1>1, CalmParts, Parts DEF Carries, Hands, HandsOf, CarryPcs
  <2> QED BY <2>1
<1>5. PICK s \in Gens :
        /\ client[s] = c /\ origin' = [origin EXCEPT ![d] = s]
        /\ s = origin[d] \/ (authed[s] = kind[d] /\ \A e \in Gens : ScreenOf(e) # s)
        /\ \/ StartStreaming(x, d, c, TRUE) /\ pc[d] = "none"
           \/ StartStreaming(x, d, c, FALSE)
  <2>1. CASE HandoffStreams(x)
    <3>1. client[origin[d]] = c /\ pc[d] = "none"
      BY <1>0, <2>1, <1>1, CalmParts DEF HandoffStreams, Carries, Unwatched
    <3>2. origin' = [origin EXCEPT ![d] = origin[d]]
      BY <2>1, Parts DEF HandoffStreams, TypeOK
    <3> QED BY <1>0, <1>3, <2>1, <3>1, <3>2 DEF HandoffStreams
  <2>2. CASE HandoffResumes(x)
    <3>1. pc[x] \in CarryPcs /\ pc[x] = "handoff.resume"  BY <2>2 DEF HandoffResumes, CarryPcs
    <3>2. /\ client[ref[x]] = c /\ ref[x] \in Gens /\ authed[ref[x]] = us[x] /\ kind[d] = us[x]
      BY <1>0, <1>1, <3>1, CalmParts, Parts DEF Carries, Hands, HandsOf
    <3>3. \A e \in Gens : ScreenOf(e) # ref[x]
      BY <1>1, <3>1, <3>2, Kinds DEF Screens, ScreenOf, IsDesktop
    <3>4. origin' = [origin EXCEPT ![d] = ref[x]] /\ StartStreaming(x, d, client[ref[x]], FALSE)
      BY <1>0, <2>2 DEF HandoffResumes, NoneGivenUp
    <3> QED BY <3>2, <3>3, <3>4
  <2> QED BY <2>1, <2>2
<1>6. /\ ses'[c] = d /\ \A e \in Clients : e # c => ses'[e] = ses[e]
      /\ fate' = Ended(0, "dropped")
      /\ HandsStay(x)
  <2>1. PutSlot(c, "Streaming", d) /\ held' = [held EXCEPT ![x] = 0]  BY <1>5 DEF StartStreaming
  <2>2. ses'[c] = d /\ (\A e \in Clients : e # c => ses'[e] = ses[e]) /\ fate' = Ended(0, "dropped")
    BY <1>3, <2>1, Parts DEF PutSlot, TypeOK
  <2>3. pc[d] = "none" => held[d] = 0  BY <1>3, CalmParts DEF Roles, HoldPcs
  <2>4. \A y \in Tasks : y # x /\ held[y] # 0 => pc'[y] = pc[y]
    BY <1>3, <1>5, <2>3 DEF StartStreaming
  <2>5. \A y \in Tasks : y # x => held'[y] = held[y]  BY <2>1, Parts DEF TypeOK
  <2> QED BY <2>2, <2>4, <2>5 DEF HandsStay
<1>7. \A e \in Gens : fate'[e] = fate[e]  BY <1>6, Kinds DEF Ended
<1>8. \A e \in Gens : e # d => origin'[e] = origin[e]  BY <1>5
<1>9. origin'[d] = s  BY <1>3, <1>5, Parts DEF TypeOK
<1>10. \A e \in Gens : e # d => Keeps(e)
  <2>1. held[x] \in {0, d} /\ (\A e \in Clients : ses'[e] = ses[e] \/ ses[e] \in {0, d})
    BY <1>0, <1>3, <1>6
  <2>2. \A e \in Gens : kind'[e] = kind[e] /\ (e # d \/ kind[e] \notin Users) => KeepsPlace(e)
    BY <1>1, <1>6, <1>7, <2>1, OthersKeepPlaces
  <2>3. \A e \in Gens : e # d => KeepsNature(e)  BY <1>1, <1>8, NatureStays
  <2> QED BY <1>1, <2>2, <2>3 DEF Keeps
<1>11. PlaceOf(d) = "moving"  BY <1>0, <1>1, <1>2, <1>3, <1>4, PlacesOfDesktops DEF Places
<1>12. PlaceOf(d)' = "shown" /\ ClientOf(d)' = c
  <2>1. kind'[d] \in Users /\ ses'[c] = d  BY <1>1, <1>4, <1>6
  <2> QED BY <1>3, <2>1, NextPlaces DEF Places
<1>13. UserOf(d) = kind[d] /\ ScreenOf(d) = origin[d]  BY <1>3, <1>4 DEF UserOf, ScreenOf, IsDesktop
<1>14. UserOf(d)' = UserOf(d) /\ ScreenOf(d)' = s /\ Runs(d)' = Runs(d)
  BY <1>1, <1>3, <1>4, <1>9 DEF UserOf, ScreenOf, Runs, IsDesktop
<1>15. \A e \in Gens : ClientOf(e) # c
  BY <1>3, ShownInSlot, Kinds
<1>16. D!Shows(d, s)
  <2> DEFINE user == [e \in Gens |-> UserOf(e)]
             place == [e \in Gens |-> PlaceOf(e)]
             on == [e \in Gens |-> ClientOf(e)]
             screen == [e \in Gens |-> ScreenOf(e)]
             alive == [e \in Gens |-> Runs(e)]
  <2>1. user' = user /\ alive' = alive  BY <1>10, <1>14 DEF Keeps, KeepsNature
  <2>2. place' = [place EXCEPT ![d] = "shown"]  BY <1>10, <1>12 DEF Keeps, KeepsPlace
  <2>3. on' = [on EXCEPT ![d] = client[s]]  BY <1>5, <1>10, <1>12 DEF Keeps, KeepsPlace
  <2>4. screen' = [screen EXCEPT ![d] = s]  BY <1>10, <1>14 DEF Keeps, KeepsNature
  <2>5. place[d] = "moving" /\ \A e \in Gens : on[e] # client[s]  BY <1>3, <1>5, <1>11, <1>15
  <2>6. D!Answers(d, s)  BY <1>3, <1>5, <1>13 DEF D!Answers
  <2> QED BY <1>1, <2>1, <2>2, <2>3, <2>4, <2>5, <2>6 DEF D!Shows
<1> QED BY <1>3, <1>5, <1>16 DEF D!Next, D!Arrives

\* A desktop is logged out.
LEMMA LogoutEnds ==
  ASSUME IInv, CInv, IInv', NEW x \in Tasks, LogoutTerminates(x) PROVE [D!Next]_(D!vars)
<1>0. PICK d : d = held[x]  OBVIOUS
<1>1. pc[x] = "logout.terminate" /\ pc[x] \in HoldPcs  BY DEF LogoutTerminates, HoldPcs
<1>2. d \in Gens /\ fate[d] = "live" /\ d # 0 /\ kind[d] \in Users
  BY <1>0, <1>1, CalmParts, Owners DEF Carries
<1>3. /\ UNCHANGED <<ses, background, kind, origin, client, authed>>
      /\ proc' = [proc EXCEPT ![d] = "dead"] \/ proc' = proc
      /\ fate' = Ended(d, "loggedout")
      /\ \A y \in Tasks : y # x => Same(y)
  BY <1>0, Parts, ReturnEffect DEF LogoutTerminates, slots, origins
<1>4. /\ \A e \in Gens : e # d => proc'[e] = proc[e] /\ fate'[e] = fate[e]
      /\ proc'[d] \in {proc[d], "dead"} /\ fate'[d] = "loggedout"
  BY <1>2, <1>3, Parts DEF Ended, TypeOK
<1>5. \A e \in Gens : e # d => Keeps(e)
  <2>1. HandsStay(x) /\ held[x] \in {0, d}  BY <1>0, <1>3 DEF HandsStay, Same
  <2>2. \A e \in Gens : kind'[e] = kind[e] /\ (e # d \/ kind[e] \notin Users) => KeepsPlace(e)
    BY <1>3, <1>4, <2>1, OthersKeepPlaces
  <2>3. \A e \in Gens : e # d => KeepsNature(e)  BY <1>3, <1>4, NatureStays
  <2> QED BY <1>3, <2>2, <2>3 DEF Keeps
<1>6. PlaceOf(d) = "leaving"  BY <1>0, <1>1, <1>2, PlacesOfDesktops DEF Places
<1>7. PlaceOf(d)' = "ended"
  <2>1. kind'[d] \in Users /\ fate'[d] # "live"  BY <1>2, <1>3, <1>4
  <2> QED BY <1>2, <2>1, NextPlaces DEF Places
<1>8. UserOf(d)' = UserOf(d) /\ ScreenOf(d)' = ScreenOf(d) /\ (Runs(d)' = Runs(d) \/ ~Runs(d)')
  BY <1>2, <1>3, <1>4 DEF UserOf, ScreenOf, Runs, IsDesktop
<1> QED BY <1>2, <1>3, <1>5, <1>6, <1>7, <1>8, DesktopEnds

\* A watcher ends the dead desktop that it finds.
LEMMA WatcherEnds ==
  ASSUME IInv, CInv, IInv', NEW x \in Gens, UserReaps(x) PROVE [D!Next]_(D!vars)
<1>0. PICK c, u : c = cl[x] /\ u = kind[x]  OBVIOUS
<1>1. x \in Tasks /\ pc[x] = "user.reap" /\ held[x] = 0 /\ u \in Users
  BY <1>0, Parts, CalmParts DEF UserReaps, Roles, HoldPcs, Hands, HandsOf, UserWatchPcs
<1>2. /\ ref[x] \in Gens /\ us[x] = u /\ kind[ref[x]] = u /\ proc[ref[x]] = "dead"
      /\ c # "none" => ses[c] \in {0, ref[x]}
      /\ c = "none" => background[u] \in {0, ref[x]}
  <2>1. Polls(x) /\ pc[x] \in PollPcs  BY <1>1, CalmParts DEF PollPcs
  <2> QED BY <1>0, <1>1, <2>1 DEF Polls
<1>3. /\ UNCHANGED <<kind, origin, proc, client, authed>>
      /\ \A y \in Tasks : y # x => Same(y)
  BY <1>1, Parts, ReturnEffect DEF UserReaps, origins
<1>4. PICK s \in 0..MaxGen :
        /\ s \in {0, ref[x]} /\ fate' = Ended(s, "reaped")
        /\ s # 0 => PlaceOf(s) \in {"shown", "parked"}
        /\ \A e \in Clients : ses'[e] = ses[e] \/ ses[e] \in {0, s}
        /\ \A v \in Users : background'[v] = background[v] \/ background[v] \in {0, s}
  <2>1. CASE c = "none"
    <3>1. background[u] \in 0..MaxGen  BY <1>1, Parts DEF TypeOK
    <3>2. /\ fate' = Ended(background[u], "reaped") /\ ses' = ses
          /\ \A v \in Users : v # u => background'[v] = background[v]
      BY <1>0, <1>1, <2>1, Parts DEF UserReaps, TypeOK, slots
    <3>3. background[u] # 0 => PlaceOf(background[u]) = "parked"
      BY <1>1, <1>2, <2>1, PlacesOfDesktops DEF Places
    <3> QED BY <1>2, <2>1, <3>1, <3>2, <3>3
  <2>2. CASE c # "none"
    <3>1. c \in Clients /\ ses[c] \in 0..MaxGen  BY <1>0, <1>1, <2>2, Parts DEF TypeOK
    <3>2. /\ fate' = Ended(ses[c], "reaped") /\ background' = background
          /\ \A e \in Clients : e # c => ses'[e] = ses[e]
      BY <1>0, <1>1, <2>2, <3>1, Parts DEF UserReaps, TypeOK
    <3>3. ses[c] # 0 => PlaceOf(ses[c]) = "shown"
      BY <1>1, <1>2, <2>2, <3>1, PlacesOfDesktops DEF Places
    <3> QED BY <1>2, <2>2, <3>1, <3>2, <3>3
  <2> QED BY <2>1, <2>2
<1>5. \A e \in Gens : e # s => fate'[e] = fate[e]  BY <1>4 DEF Ended
<1>6. HandsStay(x)  BY <1>3 DEF HandsStay, Same
<1>7. CASE s = 0
  <2>1. ~IsDesktop(s)  BY <1>7, Kinds DEF IsDesktop
  <2> QED BY <1>1, <1>3, <1>4, <1>5, <1>6, <2>1, NoneMoves
<1>8. CASE s # 0
  <2>1. s = ref[x] /\ s \in Gens /\ kind[s] \in Users /\ ~Runs(s)
    BY <1>1, <1>2, <1>4, <1>8 DEF Runs
  <2>2. \A e \in Gens : e # s => Keeps(e)
    <3>1. held[x] \in {0, s}  BY <1>1
    <3>2. \A e \in Gens : kind'[e] = kind[e] /\ (e # s \/ kind[e] \notin Users) => KeepsPlace(e)
      BY <1>1, <1>3, <1>4, <1>5, <1>6, <3>1, OthersKeepPlaces
    <3>3. \A e \in Gens : KeepsNature(e)  BY <1>3, NatureStays
    <3> QED BY <1>3, <3>2, <3>3 DEF Keeps
  <2>3. PlaceOf(s)' = "ended"
    <3>1. kind'[s] \in Users /\ fate'[s] # "live"  BY <1>3, <1>4, <2>1 DEF Ended
    <3> QED BY <2>1, <3>1, NextPlaces DEF Places
  <2>4. KeepsNature(s)  BY <1>3, <2>1, NatureStays
  <2> QED BY <1>3, <1>4, <1>8, <2>1, <2>2, <2>3, <2>4, DesktopEnds DEF KeepsNature
<1> QED BY <1>7, <1>8

-----------------------------------------------------------------------------
(* Screens, the invariant that the steps above rest on *)

\* A step that makes no session and accepts no password.
LEMMA ScreensStep ==
  ASSUME Screens, UNCHANGED <<kind, origin, client, authed>>,
         \A g \in Gens : fate'[g] = "live" => fate[g] = "live",
         \A g \in Gens : proc'[g] = "running" => proc[g] = "running",
         \A y \in Tasks : pc'[y] \in CarryPcs => pc[y] \in CarryPcs /\ ref'[y] = ref[y]
  PROVE  Screens'
BY DEF Screens

\* A request, or a step of a watcher that is no handoff, carries no origin.
LEMMA CarryNothingOn ==
  ASSUME IInv, CInv, Screens, NEW x \in Tasks,
         \/ \E c \in Clients : LaunchArrives(x, c) \/ CancelArrives(x, c) \/ PlayArrives(x, c)
         \/ \E u \in Users : LogoutArrives(x, u)
         \/ LoginReset(x) \/ LogoutLooksForActive(x) \/ LaunchFails(x) \/ LaunchInsert(x)
         \/ LaunchRegister(x) \/ WatchLoginExit(x) \/ UserTicks(x) \/ UserLooksInBackground(x)
         \/ UserAsks(x) \/ UserReaps(x) \/ LogoutTerminates(x)
         \/ LaunchReplace(x) \/ CancelReleases(x)
  PROVE  Screens'
<1>1. UNCHANGED <<kind, origin, client, authed>>
  BY DEF LaunchArrives, CancelArrives, PlayArrives, LogoutArrives, LoginReset, CancelTakes,
         LogoutLooksForActive, LaunchFails, LaunchInsert, LaunchRegister, WatchLoginExit, UserTicks,
         UserLooksInBackground, UserAsks, UserReaps, LogoutTerminates, LaunchReplace,
         CancelReleases, origins
<1>2. \A g \in Gens : fate'[g] = "live" => fate[g] = "live"
  <2>1. CASE LaunchReplace(x) \/ CancelReleases(x)
    BY <2>1 DEF LaunchReplace, CancelReleases, Release, Ended
  <2>2. CASE LaunchFails(x) \/ LaunchInsert(x) \/ UserReaps(x) \/ LogoutTerminates(x)
    BY <2>2 DEF LaunchFails, LaunchInsert, UserReaps, LogoutTerminates, PutSlot, Ended
  <2>3. CASE fate' = fate  BY <2>3
  <2> QED BY <2>1, <2>2, <2>3
       DEF LaunchArrives, CancelArrives, PlayArrives, LogoutArrives, LoginReset, CancelTakes,
           LogoutLooksForActive, LaunchRegister, WatchLoginExit, UserTicks, UserLooksInBackground,
           UserAsks
<1>3. \A g \in Gens : proc'[g] = "running" => proc[g] = "running"
  <2>1. CASE LogoutTerminates(x)  BY <2>1, Parts DEF LogoutTerminates, TypeOK
  <2>2. CASE proc' = proc  BY <2>2
  <2> QED BY <2>1, <2>2
       DEF LaunchArrives, CancelArrives, PlayArrives, LogoutArrives, LoginReset, CancelTakes,
           LogoutLooksForActive, LaunchFails, LaunchInsert, LaunchRegister, WatchLoginExit, UserTicks,
           UserLooksInBackground, UserAsks, UserReaps, LaunchReplace, CancelReleases
<1>4. pc'[x] \notin CarryPcs /\ \A y \in Tasks : y # x => Same(y)
  <2>0. Rest(x) \notin CarryPcs  BY RestPcs DEF CarryPcs
  <2>1. CASE \E c \in Clients : LaunchArrives(x, c) \/ CancelArrives(x, c) \/ PlayArrives(x, c)
    BY <2>0, <2>1, Parts DEF LaunchArrives, CancelArrives, PlayArrives, CancelTakes, ClaimSlot, TakeSlot,
       Goto, TypeOK, Same, CarryPcs
  <2>2. CASE (\E u \in Users : LogoutArrives(x, u)) \/ LoginReset(x)
    BY <2>0, <2>2, Parts DEF LogoutArrives, LoginReset, CancelTakes, TakeSlot, Goto, TypeOK, Same, CarryPcs
  <2>3. CASE LogoutLooksForActive(x) \/ WatchLoginExit(x) \/ UserLooksInBackground(x)
    BY <2>0, <2>3, Parts, ReturnEffect DEF LogoutLooksForActive, WatchLoginExit, UserLooksInBackground,
       TakeSlot, Goto, TypeOK, Same, CarryPcs
  <2>4. CASE LaunchRegister(x) \/ UserTicks(x) \/ UserAsks(x) \/ LaunchReplace(x)
    BY <2>4, Parts DEF LaunchRegister, UserTicks, UserAsks, LaunchReplace, Goto, TypeOK, Same, CarryPcs
  <2>5. CASE LaunchFails(x) \/ LaunchInsert(x) \/ UserReaps(x) \/ LogoutTerminates(x)
             \/ CancelReleases(x)
    <3>1. Return(x)
      BY <2>5 DEF LaunchFails, LaunchInsert, UserReaps, LogoutTerminates, CancelReleases
    <3> QED BY <3>1, Parts, ReturnEffect DEF CarryPcs
  <2> QED BY <2>1, <2>2, <2>3, <2>4, <2>5
<1>5. \A y \in Tasks : pc'[y] \in CarryPcs => pc[y] \in CarryPcs /\ ref'[y] = ref[y]
  BY <1>4 DEF Same
<1> QED BY <1>1, <1>2, <1>3, <1>5, ScreensStep

\* A handoff carries the same origin until it gives it to a desktop.
LEMMA CarriesOn ==
  ASSUME IInv, CInv, Screens, NEW x \in Gens,
         HandoffLooksInBackground(x) \/ HandoffLooksForActive(x) \/ HandoffDetaches(x)
  PROVE  Screens'
<1>1. /\ x \in Tasks /\ pc[x] \in CarryPcs
      /\ UNCHANGED <<kind, origin, client, authed, fate, proc, ref>>
      /\ \A y \in Tasks : y # x => Same(y)
  <2>1. CASE HandoffLooksInBackground(x)
    BY <2>1, Parts DEF HandoffLooksInBackground, Goto, TypeOK, Same, origins, CarryPcs
  <2>2. CASE HandoffLooksForActive(x)
    BY <2>2, Parts DEF HandoffLooksForActive, TakeSlot, Goto, TypeOK, Same, origins, CarryPcs
  <2>3. CASE HandoffDetaches(x)
    BY <2>3, Parts DEF HandoffDetaches, Goto, TypeOK, Same, origins, CarryPcs
  <2> QED BY <2>1, <2>2, <2>3
<1>2. \A y \in Tasks : pc'[y] \in CarryPcs => pc[y] \in CarryPcs /\ ref'[y] = ref[y]
  BY <1>1 DEF Same
<1> QED BY <1>1, <1>2, ScreensStep

\* A handoff takes up the origin of the login stage it ends, which no desktop has.
LEMMA TakesUp ==
  ASSUME IInv, CInv, Screens, NEW x \in Gens, HandoffTakes(x) PROVE Screens'
<1>0. PICK c, s : c = cl[x] /\ s = ses[c]  OBVIOUS
<1>1. x \in Tasks /\ pc[x] = "handoff.take"  BY DEF HandoffTakes
<1>2. pc[x] \in TakePcs /\ pc[x] \in ClientOpPcs  BY <1>1 DEF TakePcs, ClientOpPcs
<1>3. c \in Clients /\ kind[s] = "login" /\ st[c] = "Streaming"
  BY <1>0, <1>1, <1>2, CalmParts DEF SlotOf
<1>4. s \in Gens /\ fate[s] = "live" /\ origin[s] = s
  <2>1. s # 0  BY <1>0, <1>3, Parts DEF SlotShape
  <2>2. s \in Gens /\ fate[s] = "live"  BY <1>0, <1>3, <2>1, Owners
  <2> QED BY <1>3, <2>2, Kinds, Parts DEF Lineage
<1>5. /\ UNCHANGED <<kind, origin, client, authed, proc>>
      /\ \A y \in Tasks : y # x => Same(y)
      /\ fate' = Ended(s, "discarded")
      /\ pc'[x] \in CarryPcs => ref'[x] = s
  <2>1. Return(x) => pc'[x] \notin CarryPcs
    BY <1>1, Parts, ReturnEffect DEF CarryPcs
  <2> QED BY <1>0, <1>1, <1>3, <1>4, <2>1, Parts, ReturnEffect DEF HandoffTakes, Goto, TypeOK, Same, origins
<1>6. \A g \in Gens : fate'[g] = "live" => fate[g] = "live"  BY <1>5 DEF Ended
<1>7. ASSUME NEW d \in Gens, kind[d] \in Users, NEW y \in Tasks, pc'[y] \in CarryPcs
      PROVE  ref'[y] # origin[d]
  <2>1. CASE y = x  BY <1>4, <1>5, <1>7, <2>1 DEF Screens
  <2>2. CASE y # x
    <3>1. pc'[y] = pc[y] /\ ref'[y] = ref[y]  BY <1>5, <2>2 DEF Same
    <3> QED BY <1>7, <3>1 DEF Screens
  <2> QED BY <2>1, <2>2
<1> QED BY <1>5, <1>6, <1>7 DEF Screens

\* The origin that a desktop streams with, or that it is resumed with, is carried no longer.
LEMMA GivesOrigin ==
  ASSUME IInv, CInv, Screens, NoneGivenUp, NEW x \in Tasks,
         PlayFresh(x) \/ HandoffStreams(x) \/ HandoffResumes(x)
  PROVE  Screens'
<1>0. PICK d : d = held[x]  OBVIOUS
<1>1. /\ pc[x] \in {"play.fresh", "handoff.start", "handoff.resume"} /\ pc[x] \in HoldPcs
      /\ UNCHANGED <<kind, client, authed>>
  BY DEF PlayFresh, HandoffStreams, HandoffResumes, origins, HoldPcs
<1>2. d \in Gens /\ proc' \in {proc, [proc EXCEPT ![d] = "lost"]}
  BY <1>0, <1>1, Owners DEF PlayFresh, HandoffStreams, HandoffResumes
<1>3. PICK c : StartStreaming(x, d, c, TRUE) \/ StartStreaming(x, d, c, FALSE)
  <2>1. CASE PlayFresh(x) \/ HandoffStreams(x)
    <3>1. StartStreaming(x, d, client[origin[d]], TRUE)  BY <1>0, <2>1 DEF PlayFresh, HandoffStreams
    <3> QED BY <3>1
  <2>2. CASE HandoffResumes(x)
    <3>1. StartStreaming(x, d, client[ref[x]], FALSE)
      BY <1>0, <2>2 DEF HandoffResumes, NoneGivenUp
    <3> QED BY <3>1
  <2> QED BY <2>1, <2>2
<1>4. /\ \A g \in Gens : fate'[g] = "live" => fate[g] = "live"
      /\ \A g \in Gens : proc'[g] = "running" => proc[g] = "running"
      /\ \A y \in Tasks : y = x => pc'[y] \notin CarryPcs
      /\ \A y \in Tasks : y # x /\ pc'[y] \in CarryPcs => pc'[y] = pc[y] /\ ref'[y] = ref[y]
  <2>1. \A g \in Gens : fate'[g] = "live" => fate[g] = "live"
    <3>1. fate' = Ended(ses[c], "dropped")  BY <1>3, Zenon DEF StartStreaming, PutSlot
    <3> QED BY <3>1 DEF Ended
  <2>2. \A g \in Gens : proc'[g] = "running" => proc[g] = "running"  BY <1>2, Parts DEF TypeOK
  <2>3. \A y \in Tasks : y = x => pc'[y] \notin CarryPcs
    BY <1>3, RestPcs DEF StartStreaming, CarryPcs
  <2>4. \A y \in Tasks : y # x /\ pc'[y] \in CarryPcs => pc'[y] = pc[y] /\ ref'[y] = ref[y]
    <3>1. ref' = [ref EXCEPT ![x] = 0]  BY <1>3 DEF StartStreaming
    <3>2. \A y \in Tasks : y # x => ref'[y] = ref[y]  BY <3>1, Parts DEF TypeOK
    <3>3. \A y \in Tasks : y # x => pc'[y] \in {pc[y], "login.watch", "user.tick"}
      BY <1>3 DEF StartStreaming
    <3> QED BY <3>2, <3>3 DEF CarryPcs
  <2> QED BY <2>1, <2>2, <2>3, <2>4
<1>5. CASE origin' = origin
  <2>1. \A y \in Tasks : pc'[y] \in CarryPcs => pc[y] \in CarryPcs /\ ref'[y] = ref[y]  BY <1>4
  <2> QED BY <1>1, <1>4, <1>5, <2>1, ScreensStep
<1>6. CASE pc[x] \in CarryPcs /\ origin' = [origin EXCEPT ![d] = ref[x]]
  <2>1. /\ ref[x] \in Gens /\ kind[ref[x]] = "login" /\ fate[ref[x]] # "live"
    BY <1>6, Parts DEF Hands, HandsOf
  <2>2. \A y \in Tasks : y # x /\ pc'[y] \in CarryPcs => ref'[y] # ref[x]
    BY <1>4, <1>6, Parts DEF OneBearer
  <2>3. origin'[d] = ref[x] /\ \A e \in Gens : e # d => origin'[e] = origin[e]
    BY <1>2, <1>6, Parts DEF TypeOK
  <2>4. \A e \in Gens : kind[e] \in Users =>
          /\ origin'[e] \in Gens /\ kind[origin'[e]] = "login" /\ fate'[origin'[e]] # "live"
          /\ \A y \in Tasks : pc'[y] \in CarryPcs => ref'[y] # origin'[e]
    <3> SUFFICES ASSUME NEW e \in Gens, kind[e] \in Users
                 PROVE  /\ origin'[e] \in Gens /\ kind[origin'[e]] = "login" /\ fate'[origin'[e]] # "live"
                        /\ \A y \in Tasks : pc'[y] \in CarryPcs => ref'[y] # origin'[e]
      OBVIOUS
    <3>1. CASE e = d  BY <1>4, <2>1, <2>2, <2>3, <3>1
    <3>2. CASE e # d
      <4>1. origin'[e] = origin[e]  BY <2>3, <3>2
      <4> QED BY <1>4, <4>1 DEF Screens
    <3> QED BY <3>1, <3>2
  <2> QED BY <1>1, <1>4, <2>4 DEF Screens
<1>7. HandoffResumes(x) => pc[x] \in CarryPcs /\ origin' = [origin EXCEPT ![d] = ref[x]]
  BY <1>0 DEF HandoffResumes, NoneGivenUp, CarryPcs
<1> QED BY <1>5, <1>6, <1>7 DEF PlayFresh, HandoffStreams

\* A new session: a login stage whose screen has accepted nothing, or a desktop with the origin
\* that its handoff carried.
LEMMA MakesScreens ==
  ASSUME IInv, CInv, Screens, NoneGivenUp, NEW x \in Tasks, LaunchSpawn(x) \/ HandoffSpawns(x)
  PROVE  Screens'
<1>1. /\ UNCHANGED authed /\ \A y \in Tasks : y # x => Same(y)
      /\ pc'[x] \notin CarryPcs
  <2>1. CASE LaunchSpawn(x)
    BY <2>1, Parts DEF LaunchSpawn, NewSession, Goto, TypeOK, Same, CarryPcs
  <2>2. CASE HandoffSpawns(x)
    BY <2>2, Parts, ReturnEffect DEF HandoffSpawns, NewSession, Goto, TypeOK, Same, CarryPcs, origins
  <2> QED BY <2>1, <2>2
<1>2. \A y \in Tasks : pc'[y] \in CarryPcs => y # x /\ pc[y] \in CarryPcs /\ ref'[y] = ref[y]
  BY <1>1 DEF Same
<1>3. CASE UNCHANGED <<kind, origin, proc, fate, client>>  BY <1>1, <1>2, <1>3, ScreensStep
<1>4. CASE /\ NewSession(x, "login", nextGen) /\ client' = [client EXCEPT ![nextGen] = cl[x]]
  <2>0. PICK g \in Gens : g = nextGen  BY <1>4 DEF NewSession
  <2>1. kind[g] = "none" /\ kind'[g] = "login" /\ authed[g] = "none"
    BY <1>4, <2>0, Kinds, Parts DEF Screens, NewSession, TypeOK
  <2>2. \A e \in Gens : e # g => /\ kind'[e] = kind[e] /\ origin'[e] = origin[e] /\ proc'[e] = proc[e]
                                 /\ fate'[e] = fate[e] /\ client'[e] = client[e]
    BY <1>4, <2>0, Parts DEF NewSession, TypeOK
  <2>3. \A e \in Gens : kind'[e] \in Users => e # g /\ origin[e] # g
    BY <2>1, <2>2, Kinds DEF Screens
  <2> QED BY <1>1, <1>2, <2>1, <2>2, <2>3 DEF Screens
<1>5. CASE HandoffSpawns(x) /\ NewSession(x, us[x], ref[x])
  <2>0. PICK g \in Gens : g = nextGen  BY <1>5 DEF NewSession
  <2>1. /\ pc[x] \in CarryPcs /\ us[x] \in Users /\ ref[x] \in Gens
        /\ kind[ref[x]] = "login" /\ fate[ref[x]] # "live"
    <3>1. pc[x] \in CarryPcs  BY <1>5 DEF HandoffSpawns, CarryPcs
    <3> QED BY <3>1, Parts DEF Hands, HandsOf
  <2>2. kind[g] = "none" /\ kind'[g] = us[x] /\ origin'[g] = ref[x] /\ client' = client
    BY <1>5, <2>0, Kinds, Parts DEF HandoffSpawns, NewSession, TypeOK, origins
  <2>3. \A e \in Gens : e # g => /\ kind'[e] = kind[e] /\ origin'[e] = origin[e] /\ proc'[e] = proc[e]
                                 /\ fate'[e] = fate[e]
    BY <1>5, <2>0, Parts DEF NewSession, TypeOK
  <2>4. \A y \in Tasks : pc'[y] \in CarryPcs => ref'[y] # ref[x]
    BY <1>2, <2>1, Parts DEF OneBearer
  <2>5. \A e \in Gens : kind[e] \in Users => e # g /\ origin[e] # g
    BY <2>2, Kinds DEF Screens
  <2>6. ref[x] # g /\ "none" \notin Users /\ "login" \notin Users  BY <2>1, <2>2, Kinds
  <2>7. \A e \in Gens : kind'[e] \in Users =>
          /\ origin'[e] \in Gens /\ kind'[origin'[e]] = "login" /\ fate'[origin'[e]] # "live"
          /\ \A y \in Tasks : pc'[y] \in CarryPcs => ref'[y] # origin'[e]
    <3> SUFFICES ASSUME NEW e \in Gens, kind'[e] \in Users
                 PROVE  /\ origin'[e] \in Gens /\ kind'[origin'[e]] = "login" /\ fate'[origin'[e]] # "live"
                        /\ \A y \in Tasks : pc'[y] \in CarryPcs => ref'[y] # origin'[e]
      OBVIOUS
    <3>1. CASE e = g  BY <2>1, <2>2, <2>3, <2>4, <2>6, <3>1
    <3>2. CASE e # g
      <4>1. kind[e] \in Users /\ origin'[e] = origin[e] /\ origin[e] # g  BY <2>3, <2>5, <3>2
      <4>2. origin[e] \in Gens /\ kind[origin[e]] = "login" /\ fate[origin[e]] # "live"
        BY <4>1 DEF Screens
      <4>3. kind'[origin[e]] = kind[origin[e]] /\ fate'[origin[e]] = fate[origin[e]]
        BY <2>3, <4>1, <4>2
      <4> QED BY <1>2, <4>1, <4>2, <4>3 DEF Screens
    <3> QED BY <3>1, <3>2
  <2>8. \A e \in Gens : /\ kind'[e] = "none" => client'[e] = "none" /\ authed[e] = "none"
                        /\ kind'[e] = "login" /\ fate'[e] = "live" /\ proc'[e] = "running" => authed[e] = "none"
    <3> SUFFICES ASSUME NEW e \in Gens, kind'[e] \in {"none", "login"}
                 PROVE  /\ kind'[e] = "none" => client'[e] = "none" /\ authed[e] = "none"
                        /\ kind'[e] = "login" /\ fate'[e] = "live" /\ proc'[e] = "running" => authed[e] = "none"
      OBVIOUS
    <3>1. e # g  BY <2>1, <2>2, <2>6
    <3> QED BY <2>2, <2>3, <3>1 DEF Screens
  <2> QED BY <1>1, <2>7, <2>8 DEF Screens
<1>6. HandoffSpawns(x) => \/ NewSession(x, us[x], ref[x])
                          \/ UNCHANGED <<kind, origin, proc, fate, client>>
  BY DEF HandoffSpawns, NoneGivenUp, origins
<1>7. LaunchSpawn(x) => \/ /\ NewSession(x, "login", nextGen)
                           /\ client' = [client EXCEPT ![nextGen] = cl[x]]
                        \/ UNCHANGED <<kind, origin, proc, fate, client>>
  BY DEF LaunchSpawn
<1> QED BY <1>3, <1>4, <1>5, <1>6, <1>7

\* A process ends, or a login screen accepts its one password.
LEMMA ProcessScreens ==
  ASSUME IInv, Screens, NEW g \in Gens, Environment(g) PROVE Screens'
<1>1. CASE ProcessDies(g)
  <2>1. \A h \in Gens : proc'[h] = "running" => proc[h] = "running"
    BY <1>1, Parts DEF ProcessDies, TypeOK
  <2> QED BY <1>1, <2>1, ScreensStep DEF ProcessDies, origins, locals
<1>2. ASSUME NEW u \in Users, LoginSucceeds(g, u) PROVE Screens'
  <2>1. /\ UNCHANGED <<kind, origin, client, fate, pc, ref>> /\ kind[g] = "login"
        /\ proc'[g] = "ok" /\ \A h \in Gens : h # g => proc'[h] = proc[h] /\ authed'[h] = authed[h]
    BY <1>2, Parts DEF LoginSucceeds, locals, TypeOK
  <2> QED BY <2>1, Kinds DEF Screens
<1> QED BY <1>1, <1>2 DEF Environment

\* No desktop exists before the first request.
LEMMA InitScreens == Init => Screens
<1> SUFFICES ASSUME Init PROVE Screens
  OBVIOUS
<1>1. "none" \notin Users  BY ConstantsAssumption DEF ConstantsAssumption
<1> QED BY <1>1 DEF Init, Screens

\* Every step keeps the screens.
LEMMA NextScreens ==
  IInv /\ CInv /\ NoneGivenUp /\ Screens /\ [Next]_vars => Screens'
<1> SUFFICES ASSUME IInv, CInv, NoneGivenUp, Screens, [Next]_vars PROVE Screens'
  OBVIOUS
<1>1. CASE UNCHANGED vars
  BY <1>1, ScreensStep DEF vars
<1>2. ASSUME NEW t \in Requests, Request(t) PROVE Screens'
  <2>1. t \in Tasks  OBVIOUS
  <2> QED BY <1>2, <2>1, CarryNothingOn DEF Request
<1>3. ASSUME NEW t \in Requests, Serve(t) PROVE Screens'
  <2>1. t \in Tasks  OBVIOUS
  <2>2. ~LaunchWakes(t) /\ ~LaunchTimesOut(t) /\ ~LaunchAdopt(t) /\ ~PlayRetake(t) /\ ~Panics(t)
    BY <2>1, NeverTaken
  <2>3. CASE LaunchSpawn(t)  BY <2>1, <2>3, MakesScreens
  <2>4. CASE PlayFresh(t)  BY <2>1, <2>4, GivesOrigin
  <2>5. CASE ~LaunchSpawn(t) /\ ~PlayFresh(t)
    BY <1>3, <2>1, <2>2, <2>5, CarryNothingOn DEF Serve
  <2> QED BY <2>3, <2>4, <2>5
<1>4. ASSUME NEW g \in Gens, Watch(g) PROVE Screens'
  <2>1. g \in Tasks  OBVIOUS
  <2>2. ~Panics(g)  BY <2>1, NeverTaken
  <2>3. CASE HandoffTakes(g)  BY <2>3, TakesUp
  <2>4. CASE HandoffLooksInBackground(g) \/ HandoffLooksForActive(g) \/ HandoffDetaches(g)
    BY <2>4, CarriesOn
  <2>5. CASE HandoffResumes(g) \/ HandoffStreams(g)  BY <2>1, <2>5, GivesOrigin
  <2>6. CASE HandoffSpawns(g)  BY <2>1, <2>6, MakesScreens
  <2>7. CASE WatchLoginExit(g) \/ LoginReset(g) \/ CancelReleases(g) \/ UserTicks(g)
             \/ UserLooksInBackground(g) \/ UserAsks(g) \/ UserReaps(g)
    BY <2>1, <2>7, CarryNothingOn
  <2> QED BY <1>4, <2>2, <2>3, <2>4, <2>5, <2>6, <2>7 DEF Watch
<1>5. ASSUME NEW g \in Gens, Environment(g) PROVE Screens'
  BY <1>5, ProcessScreens
<1> QED BY <1>1, <1>2, <1>3, <1>4, <1>5 DEF Next

-----------------------------------------------------------------------------
(* The refinement *)

\* Before the first request there is no desktop and no login screen.
LEMMA InitDesktops == Init => D!Init
<1> SUFFICES ASSUME Init PROVE D!Init
  OBVIOUS
<1>1. \A d \in Gens : ~IsDesktop(d)
  BY ConstantsAssumption DEF ConstantsAssumption, Init, IsDesktop
<1>2. \A d \in Gens : /\ UserOf(d) = "none" /\ PlaceOf(d) = "none" /\ ClientOf(d) = "none"
                      /\ ScreenOf(d) = 0 /\ Runs(d) = FALSE
  BY <1>1 DEF UserOf, PlaceOf, ClientOf, ScreenOf, Runs
<1> QED BY <1>2 DEF D!Init, Init

\* Every step of the session manager is one of Desktops, or changes nothing there.
LEMMA NextDesktops ==
  /\ IInv /\ IInv' /\ SpawningHasOwner /\ CInv /\ Screens /\ NoneGivenUp
  /\ [Next]_vars
  => [D!Next]_(D!vars)
<1> SUFFICES ASSUME IInv, IInv', SpawningHasOwner, CInv, Screens, NoneGivenUp, [Next]_vars
             PROVE  [D!Next]_(D!vars)
  OBVIOUS
<1>1. CASE UNCHANGED vars
  <2>1. UNCHANGED <<st, ses, background, kind, origin, proc, fate, client, authed, pc, held>>
    BY <1>1 DEF vars
  <2>2. \A d \in Gens : Keeps(d)
    BY <2>1 DEF Keeps, KeepsPlace, KeepsNature, PlaceOf, ClientOf, UserOf, ScreenOf, Runs, IsDesktop,
       AttachedSomewhere, BeingLoggedOut
  <2> QED BY <2>1, <2>2, NothingHappens
<1>2. ASSUME NEW t \in Requests, Request(t) PROVE [D!Next]_(D!vars)
  <2>1. t \in Tasks  OBVIOUS
  <2> QED BY <1>2, <2>1, TakesDesktop DEF Request
<1>3. ASSUME NEW t \in Requests, Serve(t) PROVE [D!Next]_(D!vars)
  <2>1. t \in Tasks  OBVIOUS
  <2>2. ~LaunchWakes(t) /\ ~LaunchTimesOut(t) /\ ~LaunchAdopt(t) /\ ~PlayRetake(t) /\ ~Panics(t)
    BY <2>1, NeverTaken
  <2>3. CASE LaunchReplace(t) \/ CancelReleases(t)  BY <2>1, <2>3, ReleasedIsParked
  <2>4. CASE LaunchSpawn(t)  BY <2>1, <2>4, LaunchShowsScreen
  <2>5. CASE LaunchFails(t) \/ LaunchInsert(t)  BY <2>1, <2>5, LaunchEnds
  <2>6. CASE LaunchRegister(t)  BY <2>1, <2>6, Unnoticed
  <2>7. CASE PlayFresh(t)  BY <2>1, <2>7, LoginStreams
  <2>8. CASE LogoutLooksForActive(t)  BY <2>1, <2>8, TakesDesktop
  <2>9. CASE LogoutTerminates(t)  BY <2>1, <2>9, LogoutEnds
  <2> QED BY <1>3, <2>2, <2>3, <2>4, <2>5, <2>6, <2>7, <2>8, <2>9 DEF Serve
<1>4. ASSUME NEW g \in Gens, Watch(g) PROVE [D!Next]_(D!vars)
  <2>1. g \in Tasks  OBVIOUS
  <2>2. ~Panics(g)  BY <2>1, NeverTaken
  <2>3. CASE WatchLoginExit(g) \/ HandoffDetaches(g) \/ UserTicks(g) \/ UserLooksInBackground(g)
             \/ UserAsks(g)
    BY <2>1, <2>3, Unnoticed
  <2>4. CASE LoginReset(g) \/ HandoffLooksInBackground(g) \/ HandoffLooksForActive(g)
    BY <2>1, <2>4, TakesDesktop
  <2>5. CASE CancelReleases(g)  BY <2>1, <2>5, ReleasedIsParked
  <2>6. CASE HandoffTakes(g)  BY <2>6, HandoffEndsLogin
  <2>7. CASE HandoffResumes(g) \/ HandoffStreams(g)  BY <2>7, HandoffShows
  <2>8. CASE HandoffSpawns(g)  BY <2>1, <2>8, HandoffOpens
  <2>9. CASE UserReaps(g)  BY <2>9, WatcherEnds
  <2> QED BY <1>4, <2>2, <2>3, <2>4, <2>5, <2>6, <2>7, <2>8, <2>9 DEF Watch
<1>5. ASSUME NEW g \in Gens, Environment(g) PROVE [D!Next]_(D!vars)
  BY <1>5, ProcessEnds, LoginProves DEF Environment
<1> QED BY <1>1, <1>2, <1>3, <1>4, <1>5 DEF Next

\* When the requests of one client or of one user do not overlap, and no handoff gives a desktop
\* up, what launch, cancel, PLAY, handoff, log-out and the watchers do, in however many steps and
\* interleaved in whatever way, is what Desktops promises: a desktop appears only where the
\* user's password was accepted for it, on one client at a time, moves whole from place to
\* place, and ends only when it was left or is dead.
THEOREM DesktopsAreImplemented ==
  ASSUME CalmRuns, NoneGivenUp PROVE Spec => D!SafeSpec
<1>1. Init => D!Init /\ Screens  BY InitDesktops, InitScreens
<1>2. IInv /\ CInv /\ Screens /\ [Next]_vars => Screens'  BY NextScreens
<1>3. IInv /\ IInv' /\ SpawningHasOwner /\ CInv /\ Screens /\ [Next]_vars => [D!Next]_(D!vars)
  BY NextDesktops
<1> QED BY <1>1, <1>2, <1>3, CalmInvariance, Invariance, SpawningSlotsHaveOwners, PTL
        DEF Spec, D!SafeSpec
=============================================================================
