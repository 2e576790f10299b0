--------------------------- MODULE SessionManager ---------------------------
(***************************************************************************)
(* The session lifecycle of redfog-moonlight's SessionManager              *)
(* (crates/redfog-moonlight/src/session.rs): which streaming session is    *)
(* attached to which paired client, which desktops are parked in the       *)
(* background, and every operation that moves a session between the two.   *)
(*                                                                         *)
(* One step is one critical section of the `shared` mutex, of the          *)
(* `background_sessions` mutex, or one awaited call together with the      *)
(* straight-line code up to the next lock.  Between steps every other      *)
(* thread and task may run.                                                *)
(*                                                                         *)
(* Left to other modules: the senders' learned addresses (ping tokens),    *)
(* the ENet peers, negotiated bitrate and codec, and touch contacts.       *)
(***************************************************************************)
EXTENDS Naturals, FiniteSets

CONSTANTS
  Clients,                  \* ClientKey values: paired client certificates
  Users,                    \* login names
  Requests,                 \* HTTP / RTSP / login-socket handlers that may run at once
  ClientIp,                 \* ClientIp[c]: source address of client c
  AllowConcurrentPerUser,   \* SessionConfig::allow_concurrent_sessions_per_user
  Failures,                 \* the external calls that may fail, see FailureKinds
  MaxGen,                   \* bound on RunningSession::generation
  MaxLaunches,              \* bound on the number of /launch requests
  Overlap                   \* may a request start while another one for the same
                            \* client or user is still in flight?

\* "login": spawn of the login stage; "build": the login encoder build exceeds its
\* 15 s; "compositor": the broker's SpawnSession; "session": spawn_session of a user
\* stage; "reconcile": the encoder rebuild panics; "terminate": TerminateSession;
\* "ask": IsSessionAlive.
FailureKinds ==
  {"login", "build", "compositor", "session", "reconcile", "terminate", "ask"}

Gens == 1..MaxGen
Keys == 1..MaxLaunches
Tasks == Requests \cup Gens    \* the exit watcher of session g is task g

ASSUME ConstantsAssumption ==
  /\ MaxGen \in Nat /\ MaxLaunches \in Nat
  /\ Requests \cap Gens = {}
  /\ "none" \notin Users /\ "login" \notin Users /\ "none" \notin Clients
  /\ Failures \subseteq FailureKinds
  /\ {AllowConcurrentPerUser, Overlap} \subseteq BOOLEAN

VARIABLES
  \* Shared and SessionManager
  st,          \* st[c]: state of c's ClientSlot, "Idle" when it has none
  ses,         \* ses[c]: generation of the session in c's slot, 0 when none
  background,  \* background[u]: entry of background_sessions, 0 when none
  pending,     \* pending[g]: entry of pending_logins, "none" when none
  registry,    \* rikeys registered with the ControlRegistry
  nextGen,     \* next_generation
  nextKey,     \* the next client-generated rikey
  poisoned,    \* a thread panicked while it held the `shared` mutex
  \* per RunningSession, indexed by generation
  kind,        \* "none" (not yet made), "login", or the user of a desktop
  origin,      \* generation of the login stage whose /launch made its SessionOrigin
  proc,        \* its process: "none", "running", "ok", "failed", "dead" or "lost"
  fate,        \* "live" while the manager owns the value, else how it ended
  \* per SessionOrigin, indexed by the login generation that made it
  client,      \* origin.client_key
  key,         \* origin.rikey
  authed,      \* who proved a password on that login screen (history)
  \* per task
  pc, held, cl, us, ref, rk

slots == <<st, ses>>
manager == <<pending, nextGen, nextKey, poisoned>>
origins == <<client, key, authed>>
locals == <<pc, held, cl, us, ref, rk>>
vars == <<st, ses, background, pending, registry, nextGen, nextKey, poisoned,
          kind, origin, proc, fate, client, key, authed, pc, held, cl, us, ref, rk>>

SlotStates == {"Idle", "Spawning", "Launched", "Streaming"}
ProcStates == {"none", "running", "ok", "failed", "dead", "lost"}
Fates == {"none", "live", "discarded", "loggedout", "reaped", "dropped", "failed"}
RequestPcs == {"idle", "launch.wait", "launch.replace", "launch.spawn", "launch.register",
               "launch.insert", "launch.fail", "launch.adopt", "play.fresh",
               "play.retake", "logout.active", "logout.terminate"}
WatcherPcs == {"none", "login.watch", "cancel.take", "handoff.take", "handoff.background",
               "handoff.active", "handoff.detach", "handoff.resume", "handoff.spawn",
               "handoff.start", "user.tick", "user.background", "user.ask", "user.reap",
               "stopped"}
Pcs == RequestPcs \cup WatcherPcs \cup {"cancel.release"}

TypeOK ==
  /\ st \in [Clients -> SlotStates]
  /\ ses \in [Clients -> 0..MaxGen]
  /\ background \in [Users -> 0..MaxGen]
  /\ pending \in [Gens -> Users \cup {"none"}]
  /\ registry \subseteq Keys
  /\ nextGen \in 1..(MaxGen + 1)
  /\ nextKey \in 1..(MaxLaunches + 1)
  /\ poisoned \in BOOLEAN
  /\ kind \in [Gens -> Users \cup {"none", "login"}]
  /\ origin \in [Gens -> 0..MaxGen]
  /\ proc \in [Gens -> ProcStates]
  /\ fate \in [Gens -> Fates]
  /\ client \in [Gens -> Clients \cup {"none"}]
  /\ key \in [Gens -> 0..MaxLaunches]
  /\ authed \in [Gens -> Users \cup {"none"}]
  /\ pc \in [Tasks -> Pcs]
  /\ held \in [Tasks -> 0..MaxGen]
  /\ cl \in [Tasks -> Clients \cup {"none"}]
  /\ us \in [Tasks -> Users \cup {"none"}]
  /\ ref \in [Tasks -> 0..MaxGen]
  /\ rk \in [Tasks -> 0..MaxLaunches]

Init ==
  /\ st = [c \in Clients |-> "Idle"]
  /\ ses = [c \in Clients |-> 0]
  /\ background = [u \in Users |-> 0]
  /\ pending = [g \in Gens |-> "none"]
  /\ registry = {}
  /\ nextGen = 1 /\ nextKey = 1
  /\ poisoned = FALSE
  /\ kind = [g \in Gens |-> "none"]
  /\ origin = [g \in Gens |-> 0]
  /\ proc = [g \in Gens |-> "none"]
  /\ fate = [g \in Gens |-> "none"]
  /\ client = [g \in Gens |-> "none"]
  /\ key = [g \in Gens |-> 0]
  /\ authed = [g \in Gens |-> "none"]
  /\ pc = [x \in Tasks |-> IF x \in Requests THEN "idle" ELSE "none"]
  /\ held = [x \in Tasks |-> 0]
  /\ cl = [x \in Tasks |-> "none"]
  /\ us = [x \in Tasks |-> "none"]
  /\ ref = [x \in Tasks |-> 0]
  /\ rk = [x \in Tasks |-> 0]

-----------------------------------------------------------------------------
(* Helpers *)

IsDesktop(g) == g \in Gens /\ kind[g] \in Users

\* Where a task goes when its operation returns.
Rest(x) == IF x \in Requests THEN "idle" ELSE "stopped"

\* fate of every session once g (nothing when 0) has ended in the way `how`.
Ended(g, how) == [h \in Gens |-> IF h = g THEN how ELSE fate[h]]

\* Mutant of UserOf: the kind of the session is not looked at.
AnyKindUserOf(g) == IF g \in Gens THEN kind[g] ELSE "none"

\* The user a session belongs to, "none" for a login stage or no session.
UserOf(g) == IF IsDesktop(g) THEN kind[g] ELSE "none"

\* Mutant of TakeSlot: the slot is looked up and not removed.
PeekSlot(c, x) ==
  /\ st' = [st EXCEPT ![c] = "Idle"]
  /\ held' = [held EXCEPT ![x] = ses[c]]
  /\ UNCHANGED ses

\* take_active_session: c's slot is removed, task x owns what was in it.
TakeSlot(c, x) ==
  /\ st' = [st EXCEPT ![c] = "Idle"]
  /\ ses' = [ses EXCEPT ![c] = 0]
  /\ held' = [held EXCEPT ![x] = ses[c]]

\* clients.insert: the previous slot value, if any, is dropped.
PutSlot(c, state, g) ==
  /\ st' = [st EXCEPT ![c] = state]
  /\ ses' = [ses EXCEPT ![c] = g]
  /\ fate' = Ended(ses[c], "dropped")

\* Mutant of Release: a desktop is torn down like a login stage.
DiscardAny(s) ==
  /\ registry' = registry \ {key[origin[s]]}
  /\ fate' = Ended(s, "discarded")
  /\ UNCHANGED background

\* drain_pending + registry.forget + background_or_discard of the session s.
Release(s) ==
  /\ registry' = registry \ {key[origin[s]]}
  /\ IF IsDesktop(s)
     THEN /\ background' = [background EXCEPT ![kind[s]] = s]
          /\ fate' = Ended(background[kind[s]], "dropped")
     ELSE /\ fate' = Ended(s, "discarded")
          /\ UNCHANGED background

\* resolve_client_key_by_ip: a Launched slot before a Streaming one, then the newest.
\* A Spawning slot holds no session, so it is never found.
Candidates(ip) == {c \in Clients : ses[c] # 0 /\ ClientIp[c] = ip}
ResolvesTo(ip, c) ==
  /\ c \in Candidates(ip)
  /\ \A d \in Candidates(ip) \ {c} :
       \/ st[c] = "Launched" /\ st[d] # "Launched"
       \/ (st[c] = "Launched" <=> st[d] = "Launched") /\ ses[c] > ses[d]

-----------------------------------------------------------------------------
(* The environment's restraint when Overlap is FALSE: a client sends nothing while an     *)
(* operation on it or on its desktop's user, or a poll of that desktop, is in flight, and *)
(* PLAYs once per launch; a user neither logs in nor out meanwhile; and a login stage     *)
(* comes up slower than the tick of watch_login_exit that ends the watcher of the one it  *)
(* replaced.  The watchers themselves, and other clients and users, are not restrained.   *)

Resting == {"none", "idle", "stopped", "login.watch", "user.tick", "user.background"}
HandoffDue(g) == kind[g] = "login" /\ fate[g] = "live" /\ proc[g] = "ok"
ClientBusy(c) ==
  \/ \E x \in Tasks : pc[x] \notin Resting /\ cl[x] = c
  \/ ses[c] # 0 /\ HandoffDue(ses[c])
UserBusy(u) ==
  /\ u # "none"
  /\ \/ \E x \in Tasks : pc[x] \notin Resting /\ us[x] = u
     \/ \E g \in Gens : HandoffDue(g) /\ authed[g] = u
MayRequest(c) == Overlap \/ (~ClientBusy(c) /\ ~UserBusy(UserOf(ses[c])))
Watched(c) == \E g \in Gens : pc[g] = "login.watch" /\ cl[g] = c
MayPlay(c) == Overlap \/ (MayRequest(c) /\ st[c] = "Launched" /\ ~Watched(c))
MayLogIn(u) == Overlap \/ ~UserBusy(u)

-----------------------------------------------------------------------------
(* Task bookkeeping *)

Goto(x, label) == pc' = [pc EXCEPT ![x] = label]

\* The operation of task x is over and keeps nothing.
Return(x) ==
  /\ Goto(x, Rest(x))
  /\ held' = [held EXCEPT ![x] = 0]
  /\ cl' = [cl EXCEPT ![x] = "none"]
  /\ us' = [us EXCEPT ![x] = "none"]
  /\ ref' = [ref EXCEPT ![x] = 0]
  /\ rk' = [rk EXCEPT ![x] = 0]

\* Mutant of StartStreaming: only desktops get an exit watcher.
StartUnwatched(x, g, c, fresh) ==
  /\ PutSlot(c, "Streaming", g)
  /\ held' = [held EXCEPT ![x] = 0]
  /\ pc' = [y \in Tasks |-> IF y = x THEN Rest(x)
                            ELSE IF y = g /\ fresh /\ IsDesktop(g) THEN "user.tick" ELSE pc[y]]
  /\ cl' = [cl EXCEPT ![x] = "none"]
  /\ us' = [us EXCEPT ![x] = "none"]
  /\ ref' = [ref EXCEPT ![x] = 0]
  /\ UNCHANGED rk

\* Task x attaches the session g as Streaming in c's slot and returns; a session that
\* streams for the first time gets its exit watcher (start_streaming).
StartStreaming(x, g, c, fresh) ==
  /\ PutSlot(c, "Streaming", g)
  /\ held' = [held EXCEPT ![x] = 0]
  /\ pc' = [y \in Tasks |->
              IF y = x THEN Rest(x)
              ELSE IF y = g /\ fresh
                   THEN IF kind[g] = "login" THEN "login.watch" ELSE "user.tick"
                   ELSE pc[y]]
  /\ cl' = [y \in Tasks |-> IF y = x THEN "none"
                            ELSE IF y = g /\ fresh /\ kind[g] = "login" THEN c ELSE cl[y]]
  /\ us' = [us EXCEPT ![x] = "none"]
  /\ ref' = [ref EXCEPT ![x] = 0]
  /\ UNCHANGED rk

\* A new RunningSession of kind k with the origin o, owned by task x.
NewSession(x, k, o) ==
  /\ nextGen \in Gens
  /\ nextGen' = nextGen + 1
  /\ kind' = [kind EXCEPT ![nextGen] = k]
  /\ origin' = [origin EXCEPT ![nextGen] = o]
  /\ proc' = [proc EXCEPT ![nextGen] = "running"]
  /\ fate' = [fate EXCEPT ![nextGen] = "live"]
  /\ held' = [held EXCEPT ![x] = nextGen]

-----------------------------------------------------------------------------
(* POST /launch *)

\* Owns the slot from here on; whatever was attached is released outside the lock.
ClaimSlot(t, c) ==
  /\ st' = [st EXCEPT ![c] = "Spawning"]
  /\ ses' = [ses EXCEPT ![c] = 0]
  /\ held' = [held EXCEPT ![t] = ses[c]]
  /\ us' = [us EXCEPT ![t] = UserOf(ses[c])]
  /\ Goto(t, IF ses[c] = 0 THEN "launch.spawn" ELSE "launch.replace")

LaunchArrives(t, c) ==
  /\ pc[t] = "idle" /\ ~poisoned /\ nextKey \in Keys /\ MayRequest(c)
  /\ nextKey' = nextKey + 1
  /\ rk' = [rk EXCEPT ![t] = nextKey]
  /\ cl' = [cl EXCEPT ![t] = c]
  /\ \/ st[c] = "Spawning" /\ Goto(t, "launch.wait") /\ UNCHANGED <<slots, held, us>>
     \/ st[c] # "Spawning" /\ ClaimSlot(t, c)
  /\ UNCHANGED <<background, pending, registry, nextGen, poisoned, kind, origin, proc, fate,
                 origins, ref>>

\* The spawn this request raced has ended: adopt its session, or spawn after all.
LaunchWakes(t) ==
  LET c == cl[t] IN
  /\ pc[t] = "launch.wait" /\ ~poisoned /\ st[c] # "Spawning"
  /\ \/ /\ ses[c] # 0
        /\ key' = [key EXCEPT ![origin[ses[c]]] = rk[t]]
        /\ Goto(t, "launch.adopt")
        /\ UNCHANGED <<slots, held, us>>
     \/ ses[c] = 0 /\ ClaimSlot(t, c) /\ UNCHANGED key
  /\ UNCHANGED <<background, registry, manager, kind, origin, proc, fate, client, authed,
                 cl, ref, rk>>

LaunchTimesOut(t) ==
  /\ pc[t] = "launch.wait" /\ ~poisoned /\ st[cl[t]] = "Spawning"
  /\ Return(t)
  /\ UNCHANGED <<slots, background, registry, manager, kind, origin, proc, fate, origins>>

LaunchAdopt(t) ==
  /\ pc[t] = "launch.adopt"
  /\ registry' = registry \cup {rk[t]}
  /\ Return(t)
  /\ UNCHANGED <<slots, background, manager, kind, origin, proc, fate, origins>>

LaunchReplace(t) ==
  /\ pc[t] = "launch.replace"
  /\ Release(held[t])
  /\ held' = [held EXCEPT ![t] = 0]
  /\ Goto(t, "launch.spawn")
  /\ UNCHANGED <<slots, manager, kind, origin, proc, origins, cl, us, ref, rk>>

\* A generation number burnt by a failed spawn is never seen again and is not counted.
LaunchSpawn(t) ==
  /\ pc[t] = "launch.spawn"
  /\ \/ /\ NewSession(t, "login", nextGen)
        /\ client' = [client EXCEPT ![nextGen] = cl[t]]
        /\ key' = [key EXCEPT ![nextGen] = rk[t]]
        /\ Goto(t, "launch.register")
     \/ /\ "login" \in Failures
        /\ Goto(t, "launch.fail")
        /\ UNCHANGED <<nextGen, kind, origin, proc, fate, held, client, key>>
  /\ UNCHANGED <<slots, background, pending, registry, nextKey, poisoned, authed, cl, us,
                 ref, rk>>

\* Mutant of LaunchFails: the slot is left at Spawning.
LaunchFailsDirty(t) ==
  /\ pc[t] = "launch.fail"
  /\ Return(t)
  /\ UNCHANGED <<slots, background, registry, manager, kind, origin, proc, fate, origins>>

LaunchFails(t) ==
  /\ pc[t] = "launch.fail" /\ ~poisoned
  /\ PutSlot(cl[t], "Idle", 0)
  /\ Return(t)
  /\ UNCHANGED <<background, registry, manager, kind, origin, proc, origins>>

LaunchRegister(t) ==
  /\ pc[t] = "launch.register"
  /\ registry' = registry \cup {rk[t]}
  /\ Goto(t, "launch.insert")
  /\ UNCHANGED <<slots, background, manager, kind, origin, proc, fate, origins, held, cl,
                 us, ref, rk>>

LaunchInsert(t) ==
  /\ pc[t] = "launch.insert" /\ ~poisoned
  /\ PutSlot(cl[t], "Launched", held[t])
  /\ Return(t)
  /\ UNCHANGED <<background, registry, manager, kind, origin, proc, origins>>

-----------------------------------------------------------------------------
(* POST /cancel, and the reset of a crashed login *)

CancelTakes(x, c) ==
  /\ ~poisoned
  /\ TakeSlot(c, x)
  /\ us' = [us EXCEPT ![x] = UserOf(ses[c])]
  /\ cl' = [cl EXCEPT ![x] = IF ses[c] = 0 THEN "none" ELSE c]
  /\ Goto(x, IF ses[c] = 0 THEN Rest(x) ELSE "cancel.release")
  /\ UNCHANGED <<background, registry, manager, kind, origin, proc, fate, origins, ref, rk>>

CancelArrives(t, c) == pc[t] = "idle" /\ st[c] # "Idle" /\ MayRequest(c) /\ CancelTakes(t, c)
LoginReset(g) == pc[g] = "cancel.take" /\ CancelTakes(g, cl[g])

CancelReleases(x) ==
  /\ pc[x] = "cancel.release"
  /\ Release(held[x])
  /\ Return(x)
  /\ UNCHANGED <<slots, manager, kind, origin, proc, origins>>

-----------------------------------------------------------------------------
(* RTSP PLAY *)

\* The wait on spawn_done in on_play never blocks: ResolvesTo finds no Spawning slot.
PlayArrives(t, c) ==
  /\ pc[t] = "idle" /\ ~poisoned
  /\ \E ip \in {ClientIp[d] : d \in Clients} : ResolvesTo(ip, c)
  /\ MayPlay(c)
  /\ TakeSlot(c, t)
  /\ cl' = [cl EXCEPT ![t] = c]
  /\ us' = [us EXCEPT ![t] = UserOf(ses[c])]
  /\ Goto(t, IF st[c] = "Launched" THEN "play.fresh" ELSE "play.retake")
  /\ UNCHANGED <<background, registry, manager, kind, origin, proc, fate, origins, ref, rk>>

\* First PLAY of a login stage: its encoder is built now.  After 15 s without an answer
\* the compositor value stays with the abandoned build, and the session goes on without.
PlayFresh(t) ==
  LET g == held[t] IN
  /\ pc[t] = "play.fresh" /\ ~poisoned
  /\ \/ UNCHANGED proc
     \/ "build" \in Failures /\ proc' = [proc EXCEPT ![g] = "lost"]
  /\ StartStreaming(t, g, client[origin[g]], TRUE)
  /\ UNCHANGED <<background, registry, manager, kind, origin, origins>>

PlayRetake(t) ==
  /\ pc[t] = "play.retake" /\ ~poisoned
  /\ PutSlot(client[origin[held[t]]], "Streaming", held[t])
  /\ Return(t)
  /\ UNCHANGED <<background, registry, manager, kind, origin, proc, origins>>

-----------------------------------------------------------------------------
(* watch_login_exit and handoff_to_user, run by the watcher task of a login stage *)

\* One tick.  A login that still runs leaves everything as it is.
WatchLoginExit(g) ==
  LET c == cl[g]
      s == ses[c]
      ownsScreen == st[c] = "Streaming" /\ kind[s] = "login"
  IN /\ pc[g] = "login.watch" /\ ~poisoned
     /\ \/ ~ownsScreen /\ Return(g) /\ UNCHANGED poisoned
        \/ /\ ownsScreen /\ proc[s] = "lost"   \* .expect() panics under the lock
           /\ poisoned' = TRUE
           /\ Return(g)
        \/ /\ ownsScreen /\ proc[s] \in {"ok", "failed"}
           /\ Goto(g, IF proc[s] = "ok" THEN "handoff.take" ELSE "cancel.take")
           /\ UNCHANGED <<poisoned, held, cl, us, ref, rk>>
     /\ UNCHANGED <<slots, background, registry, pending, nextGen, nextKey, kind, origin, proc,
                    fate, origins>>

\* First lock of handoff_to_user: it takes whatever streams in the slot by now.  The login
\* stage is torn down on a detached thread; its origin and reported user are carried on.  A
\* session that reported nothing is lost: no account has the placeholder name "user", and
\* the broker refuses its empty password.
HandoffTakes(g) ==
  LET c == cl[g]
      s == ses[c]
  IN /\ pc[g] = "handoff.take" /\ ~poisoned
     /\ \/ /\ st[c] # "Streaming"
           /\ Return(g)
           /\ UNCHANGED <<slots, pending, fate>>
        \/ /\ st[c] = "Streaming"
           /\ st' = [st EXCEPT ![c] = "Idle"]
           /\ ses' = [ses EXCEPT ![c] = 0]
           /\ fate' = Ended(s, "discarded")
           /\ pending' = [pending EXCEPT ![s] = "none"]
           /\ \/ pending[s] = "none" /\ Return(g)
              \/ /\ pending[s] # "none"
                 /\ us' = [us EXCEPT ![g] = pending[s]]
                 /\ ref' = [ref EXCEPT ![g] = origin[s]]
                 /\ Goto(g, "handoff.background")
                 /\ UNCHANGED <<held, cl, rk>>
     /\ UNCHANGED <<background, registry, nextGen, nextKey, poisoned, kind, origin, proc,
                    origins>>

HandoffLooksInBackground(g) ==
  LET u == us[g] IN
  /\ pc[g] = "handoff.background"
  /\ background' = [background EXCEPT ![u] = 0]
  /\ held' = [held EXCEPT ![g] = background[u]]
  /\ Goto(g, IF background[u] # 0 THEN "handoff.detach"
             ELSE IF AllowConcurrentPerUser THEN "handoff.spawn" ELSE "handoff.active")
  /\ UNCHANGED <<slots, registry, manager, kind, origin, proc, fate, origins, cl, us, ref, rk>>

\* Mutants of HandoffLooksForActive: it takes any user's desktop; it does not look.
HandoffTakesAnyActive(g) ==
  LET attached == {c \in Clients : IsDesktop(ses[c])} IN
  /\ pc[g] = "handoff.active" /\ ~poisoned
  /\ \/ \E c \in attached : TakeSlot(c, g) /\ Goto(g, "handoff.detach")
     \/ attached = {} /\ Goto(g, "handoff.spawn") /\ UNCHANGED <<slots, held>>
  /\ UNCHANGED <<background, registry, manager, kind, origin, proc, fate, origins, cl, us,
                 ref, rk>>

HandoffIgnoresActive(g) ==
  /\ pc[g] = "handoff.active"
  /\ Goto(g, "handoff.spawn")
  /\ UNCHANGED <<slots, background, registry, manager, kind, origin, proc, fate, origins, held,
                 cl, us, ref, rk>>

\* take_active_session_by_username
HandoffLooksForActive(g) ==
  LET attached == {c \in Clients : UserOf(ses[c]) = us[g]} IN
  /\ pc[g] = "handoff.active" /\ ~poisoned
  /\ \/ \E c \in attached : TakeSlot(c, g) /\ Goto(g, "handoff.detach")
     \/ attached = {} /\ Goto(g, "handoff.spawn") /\ UNCHANGED <<slots, held>>
  /\ UNCHANGED <<background, registry, manager, kind, origin, proc, fate, origins, cl, us,
                 ref, rk>>

\* Mutant of HandoffDetaches: the rikey of the new client is forgotten.
HandoffForgetsNew(g) ==
  /\ pc[g] = "handoff.detach"
  /\ registry' = registry \ {key[ref[g]]}
  /\ Goto(g, "handoff.resume")
  /\ UNCHANGED <<slots, background, manager, kind, origin, proc, fate, origins, held, cl,
                 us, ref, rk>>

\* The client that had this desktop before loses its control channel.
HandoffDetaches(g) ==
  /\ pc[g] = "handoff.detach"
  /\ registry' = registry \ {key[origin[held[g]]]}
  /\ Goto(g, "handoff.resume")
  /\ UNCHANGED <<slots, background, manager, kind, origin, proc, fate, origins, held, cl,
                 us, ref, rk>>

\* Mutant of HandoffResumes: the desktop goes back to the client it came from.
HandoffResumesThere(g) ==
  LET d == held[g] IN
  /\ pc[g] = "handoff.resume" /\ ~poisoned
  /\ origin' = [origin EXCEPT ![d] = ref[g]]
  /\ StartStreaming(g, d, client[origin[d]], FALSE)
  /\ UNCHANGED <<background, registry, manager, kind, proc, origins>>

\* The end of reconcile_video_pipeline's await: the desktop gets the login's origin.
HandoffResumes(g) ==
  LET d == held[g] IN
  /\ pc[g] = "handoff.resume" /\ ~poisoned
  /\ \/ /\ origin' = [origin EXCEPT ![d] = ref[g]]
        /\ StartStreaming(g, d, client[ref[g]], FALSE)
     \/ /\ "reconcile" \in Failures
        /\ fate' = Ended(d, "failed")
        /\ Return(g)
        /\ UNCHANGED <<slots, origin>>
  /\ UNCHANGED <<background, registry, manager, kind, proc, origins>>

\* The end of the awaits on the broker's SpawnSession and on spawn_session.
HandoffSpawns(g) ==
  /\ pc[g] = "handoff.spawn"
  /\ \/ NewSession(g, us[g], ref[g]) /\ Goto(g, "handoff.start") /\ UNCHANGED <<cl, us, ref, rk>>
     \/ /\ "compositor" \in Failures
        /\ Return(g)
        /\ UNCHANGED <<nextGen, kind, origin, proc, fate>>
     \/ /\ "session" \in Failures /\ nextGen \in Gens   \* the broker has started it
        /\ nextGen' = nextGen + 1
        /\ kind' = [kind EXCEPT ![nextGen] = us[g]]
        /\ origin' = [origin EXCEPT ![nextGen] = ref[g]]
        /\ proc' = [proc EXCEPT ![nextGen] = "running"]
        /\ fate' = Ended(nextGen, "failed")
        /\ Return(g)
  /\ UNCHANGED <<slots, background, registry, pending, nextKey, poisoned, origins>>

HandoffStreams(g) ==
  /\ pc[g] = "handoff.start" /\ ~poisoned
  /\ StartStreaming(g, held[g], client[origin[held[g]]], TRUE)
  /\ UNCHANGED <<background, registry, manager, kind, origin, proc, origins>>

-----------------------------------------------------------------------------
(* watch_user_session_exit, run by the watcher task of a desktop *)

UserTicks(g) ==
  LET attached == {c \in Clients : st[c] = "Streaming" /\ UserOf(ses[c]) = kind[g]} IN
  /\ pc[g] = "user.tick" /\ ~poisoned
  /\ us' = [us EXCEPT ![g] = kind[g]]
  /\ \/ \E c \in attached : /\ cl' = [cl EXCEPT ![g] = c]
                            /\ ref' = [ref EXCEPT ![g] = ses[c]]
                            /\ Goto(g, "user.ask")
     \/ attached = {} /\ Goto(g, "user.background") /\ UNCHANGED <<cl, ref>>
  /\ UNCHANGED <<slots, background, registry, manager, kind, origin, proc, fate, origins,
                 held, rk>>

\* In neither map: nothing left to watch.
UserLooksInBackground(g) ==
  LET d == background[kind[g]] IN
  /\ pc[g] = "user.background"
  /\ \/ /\ d # 0
        /\ ref' = [ref EXCEPT ![g] = d]
        /\ Goto(g, "user.ask")
        /\ UNCHANGED <<held, cl, us, rk>>
     \/ d = 0 /\ Return(g)
  /\ UNCHANGED <<slots, background, registry, manager, kind, origin, proc, fate, origins>>

\* The broker's answer to IsSessionAlive; an error counts as alive.
UserAsks(g) ==
  /\ pc[g] = "user.ask"
  /\ \/ proc[ref[g]] = "dead" /\ Goto(g, "user.reap") /\ UNCHANGED <<cl, us, ref>>
     \/ /\ proc[ref[g]] = "dead" => "ask" \in Failures
        /\ Goto(g, "user.tick")
        /\ cl' = [cl EXCEPT ![g] = "none"]
        /\ us' = [us EXCEPT ![g] = "none"]
        /\ ref' = [ref EXCEPT ![g] = 0]
  /\ UNCHANGED <<slots, background, registry, manager, kind, origin, proc, fate, origins,
                 held, rk>>

\* Mutant of UserReaps: the rikey of the dead session is not forgotten.
UserReapsUnregistered(g) ==
  LET c == cl[g]
      u == kind[g]
  IN /\ pc[g] = "user.reap"
     /\ \/ /\ c = "none"
           /\ background' = [background EXCEPT ![u] = 0]
           /\ fate' = Ended(background[u], "reaped")
           /\ UNCHANGED slots
        \/ /\ c # "none"
           /\ st' = [st EXCEPT ![c] = "Idle"]
           /\ ses' = [ses EXCEPT ![c] = 0]
           /\ fate' = Ended(ses[c], "reaped")
           /\ UNCHANGED background
     /\ Return(g)
     /\ UNCHANGED <<registry, manager, kind, origin, proc, origins>>

\* Ends whatever is by now where the dead session was seen.
UserReaps(g) ==
  LET c == cl[g]
      u == kind[g]
  IN /\ pc[g] = "user.reap"
     /\ \/ /\ c = "none"
           /\ background' = [background EXCEPT ![u] = 0]
           /\ fate' = Ended(background[u], "reaped")
           /\ UNCHANGED <<slots, registry>>
        \/ /\ c # "none" /\ ~poisoned
           /\ st' = [st EXCEPT ![c] = "Idle"]
           /\ ses' = [ses EXCEPT ![c] = 0]
           /\ fate' = Ended(ses[c], "reaped")
           /\ registry' = IF ses[c] = 0 THEN registry ELSE registry \ {key[origin[ses[c]]]}
           /\ UNCHANGED background
     /\ Return(g)
     /\ UNCHANGED <<manager, kind, origin, proc, origins>>

-----------------------------------------------------------------------------
(* handle_log_out, asked for by a login screen *)

\* Mutant of LogoutArrives: the desktop is looked up and not removed.
LogoutPeeks(t, u) ==
  /\ pc[t] = "idle" /\ MayLogIn(u)
  /\ \E g \in Gens : kind[g] = "login" /\ fate[g] = "live" /\ proc[g] = "running"
  /\ us' = [us EXCEPT ![t] = u]
  /\ held' = [held EXCEPT ![t] = background[u]]
  /\ Goto(t, IF background[u] # 0 THEN "logout.terminate" ELSE "logout.active")
  /\ UNCHANGED <<slots, background, registry, manager, kind, origin, proc, fate, origins, cl,
                 ref, rk>>

LogoutArrives(t, u) ==
  /\ pc[t] = "idle" /\ MayLogIn(u)
  /\ \E g \in Gens : kind[g] = "login" /\ fate[g] = "live" /\ proc[g] = "running"
  /\ us' = [us EXCEPT ![t] = u]
  /\ background' = [background EXCEPT ![u] = 0]
  /\ held' = [held EXCEPT ![t] = background[u]]
  /\ Goto(t, IF background[u] # 0 THEN "logout.terminate" ELSE "logout.active")
  /\ UNCHANGED <<slots, registry, manager, kind, origin, proc, fate, origins, cl, ref, rk>>

LogoutLooksForActive(t) ==
  LET attached == {c \in Clients : UserOf(ses[c]) = us[t]} IN
  /\ pc[t] = "logout.active" /\ ~poisoned
  /\ \/ \E c \in attached : /\ TakeSlot(c, t)
                            /\ registry' = registry \ {key[origin[ses[c]]]}
                            /\ Goto(t, "logout.terminate")
                            /\ UNCHANGED <<cl, us, ref, rk>>
     \/ attached = {} /\ Return(t) /\ UNCHANGED <<slots, registry>>
  /\ UNCHANGED <<background, manager, kind, origin, proc, fate, origins>>

\* TerminateSession is bounded by 15 s and its failure is only logged.
LogoutTerminates(t) ==
  /\ pc[t] = "logout.terminate"
  /\ \/ proc' = [proc EXCEPT ![held[t]] = "dead"]
     \/ "terminate" \in Failures /\ UNCHANGED proc
  /\ fate' = Ended(held[t], "loggedout")
  /\ Return(t)
  /\ UNCHANGED <<slots, background, registry, manager, kind, origin, origins>>

-----------------------------------------------------------------------------
(* Processes, and threads that find the mutex poisoned *)

\* handle_login_report accepts the credentials and redfog-login exits with status 0.
LoginSucceeds(g, u) ==
  /\ kind[g] = "login" /\ fate[g] = "live" /\ proc[g] = "running"
  /\ \E c \in Clients : ses[c] = g /\ st[c] = "Streaming"   \* or it gets no input
  /\ MayLogIn(u)
  /\ proc' = [proc EXCEPT ![g] = "ok"]
  /\ pending' = [pending EXCEPT ![g] = u]
  /\ authed' = [authed EXCEPT ![g] = u]
  /\ UNCHANGED <<slots, background, registry, nextGen, nextKey, poisoned, kind, origin, fate,
                 client, key, locals>>

ProcessDies(g) ==
  /\ fate[g] = "live" /\ proc[g] = "running"
  /\ proc' = [proc EXCEPT ![g] = IF kind[g] = "login" THEN "failed" ELSE "dead"]
  /\ UNCHANGED <<slots, background, registry, manager, kind, origin, fate, origins, locals>>

LockPcs == {"launch.wait", "launch.insert", "launch.fail", "cancel.take", "play.fresh",
            "play.retake", "login.watch", "handoff.take", "handoff.active", "handoff.resume",
            "handoff.start", "user.tick", "logout.active"}

\* shared.lock().unwrap() panics; what the task owned is dropped.
Panics(x) ==
  /\ poisoned
  /\ pc[x] \in LockPcs \/ (pc[x] = "user.reap" /\ cl[x] # "none")
  /\ fate' = Ended(held[x], "dropped")
  /\ Return(x)
  /\ UNCHANGED <<slots, background, registry, manager, kind, origin, proc, origins>>

-----------------------------------------------------------------------------
Request(t) ==
  \/ \E c \in Clients : LaunchArrives(t, c) \/ CancelArrives(t, c) \/ PlayArrives(t, c)
  \/ \E u \in Users : LogoutArrives(t, u)

Serve(t) ==
  \/ LaunchWakes(t) \/ LaunchTimesOut(t) \/ LaunchAdopt(t) \/ LaunchReplace(t)
  \/ LaunchSpawn(t) \/ LaunchFails(t) \/ LaunchRegister(t) \/ LaunchInsert(t)
  \/ CancelReleases(t) \/ PlayFresh(t) \/ PlayRetake(t)
  \/ LogoutLooksForActive(t) \/ LogoutTerminates(t) \/ Panics(t)

Watch(g) ==
  \/ WatchLoginExit(g) \/ LoginReset(g) \/ CancelReleases(g)
  \/ HandoffTakes(g) \/ HandoffLooksInBackground(g) \/ HandoffLooksForActive(g)
  \/ HandoffDetaches(g) \/ HandoffResumes(g) \/ HandoffSpawns(g) \/ HandoffStreams(g)
  \/ UserTicks(g) \/ UserLooksInBackground(g) \/ UserAsks(g) \/ UserReaps(g) \/ Panics(g)

Environment(g) == ProcessDies(g) \/ \E u \in Users : LoginSucceeds(g, u)

Next ==
  \/ \E t \in Requests : Request(t) \/ Serve(t)
  \/ \E g \in Gens : Watch(g) \/ Environment(g)

Spec == Init /\ [][Next]_vars

\* Threads and tasks that can run do run; requests and process exits need not happen.
FairSpec ==
  /\ Spec
  /\ \A t \in Requests : WF_vars(Serve(t))
  /\ \A g \in Gens : WF_vars(Watch(g))

-----------------------------------------------------------------------------
(* Properties that hold however requests, handoffs and watchers overlap *)

\* A RunningSession is owned once: by one slot of `clients`, by one entry of
\* background_sessions, or by the one task that took it out of either.
OneHome ==
  /\ \A c, d \in Clients : ses[c] # 0 /\ ses[c] = ses[d] => c = d
  /\ \A u, v \in Users : background[u] # 0 /\ background[u] = background[v] => u = v
  /\ \A x, y \in Tasks : held[x] # 0 /\ held[x] = held[y] => x = y
  /\ \A c \in Clients, u \in Users : ses[c] # 0 => ses[c] # background[u]
  /\ \A c \in Clients, x \in Tasks : ses[c] # 0 => ses[c] # held[x]
  /\ \A u \in Users, x \in Tasks : background[u] # 0 => background[u] # held[x]

\* background_sessions[u] is a desktop of u, never a login stage and never a session
\* that has already been torn down (the doc of background_sessions).
BackgroundIsTheUsers ==
  \A u \in Users : background[u] # 0 =>
    kind[background[u]] = u /\ fate[background[u]] = "live"

\* What is attached to c's slot carries an origin made by one of c's own launches, and
\* two attached sessions never share one: session_by_generation then sends a desktop's
\* frames to the client that is watching it and to no other, takeovers included.
FramesReachTheAttachedClient ==
  /\ \A c \in Clients : ses[c] # 0 => client[origin[ses[c]]] = c
  /\ \A c, d \in Clients :
       ses[c] # 0 /\ ses[d] # 0 /\ origin[ses[c]] = origin[ses[d]] => c = d

\* A client is attached to u's desktop only if u's password was accepted on the login
\* screen of that very launch, however often the desktop was parked, resumed or taken over
\* since (handle_login_report, pending_logins, handoff_to_user).
AttachedOnlyAfterLogin ==
  \A c \in Clients : IsDesktop(ses[c]) => authed[origin[ses[c]]] = kind[ses[c]]

\* An attached session's rikey is registered, so its control channel can be matched;
\* except while a retried /launch is between setting the rikey and registering it.
AttachedIsRegistered ==
  \A c \in Clients : ses[c] # 0 =>
    \/ key[origin[ses[c]]] \in registry
    \/ \E t \in Requests : pc[t] = "launch.adopt" /\ rk[t] = key[origin[ses[c]]]

\* A Spawning placeholder always has a request that will replace it; without one every
\* later /launch of that client would only time out (the comment on catch_unwind).
SpawningHasOwner ==
  poisoned \/ \A c \in Clients : st[c] = "Spawning" =>
    \E t \in Requests : cl[t] = c /\ pc[t] \in {"launch.replace", "launch.spawn", "launch.fail",
                                              "launch.register", "launch.insert"}

-----------------------------------------------------------------------------
(* Properties that hold when requests of one client or user do not overlap *)

\* A desktop ends by being logged out, found dead, or by a failure that was reported, never
\* because another session was put where it was: a disconnect backgrounds a desktop "instead
\* of killing it" (the doc of background_sessions).
NoDesktopLost ==
  \A g \in Gens : IsDesktop(g) /\ fate[g] \in {"dropped", "discarded", "reaped"} =>
    proc[g] = "dead"

\* "At most one background/active session per user at a time" (the same doc).
OneDesktopPerUser ==
  \A g, h \in Gens : IsDesktop(g) /\ kind[g] = kind[h] /\ fate[g] = "live" /\ fate[h] = "live"
    => g = h

UserWatchPcs == {"user.tick", "user.background", "user.ask", "user.reap"}

\* Every registered rikey is that of an attached session, or of one being moved: launch,
\* cancel, logout, takeover and death all forget the keys they retire.
RegistryIsExact ==
  \A k \in registry :
    \/ \E c \in Clients : ses[c] # 0 /\ key[origin[ses[c]]] = k
    \/ \E x \in Tasks : held[x] # 0 /\ key[origin[held[x]]] = k
    \/ \E g \in Gens : pc[g] \in WatcherPcs \ UserWatchPcs /\ ref[g] # 0 /\ key[ref[g]] = k

\* No client's slot stays at Spawning: `launch` gives it a session or empties it.
SpawningEnds == \A c \in Clients : st[c] = "Spawning" ~> st[c] # "Spawning"

\* An accepted login brings its user's desktop up on the client it was typed at, whether
\* the desktop is new, parked, or attached to another client.
AcceptedLoginShowsDesktop ==
  \A g \in Gens, u \in Users :
    HandoffDue(g) /\ authed[g] = u ~>
      \E c \in Clients : st[c] = "Streaming" /\ kind[ses[c]] = u /\ origin[ses[c]] = g

-----------------------------------------------------------------------------
(* What the documentation says and the code does not keep *)

\* watch_user_session_exit "only stops once the session is gone from *both*" maps: a live
\* desktop that has started to stream has a watcher.  It also stops on a tick that falls
\* while the desktop is in the hands of launch, cancel or handoff_to_user.
DesktopIsWatched ==
  \A g \in Gens : IsDesktop(g) /\ fate[g] = "live" =>
    \/ \E h \in Gens : kind[h] = kind[g] /\ pc[h] \in UserWatchPcs
    \/ \E x \in Tasks : held[x] = g /\ pc[x] = "handoff.start"

\* A login build that exceeds its 15 s is "a bounded, isolated failure of this one
\* session/request, not an indefinitely wedged server" (start_streaming).
Healthy == ~poisoned

=============================================================================
