------------------------------- MODULE Broker -------------------------------
(***************************************************************************)
(* The life of a user's compositor session outside redfog-server: the      *)
(* broker's table of sessions and its spawn, poll and terminate sequences  *)
(* (redfog-broker), the PAM parent and compositor tree of each session     *)
(* (redfog-session-init under systemd and logind), the clean and unclean   *)
(* ends of broker and server, and the watchdog that sweeps what a crash    *)
(* leaves behind (redfog-watchdog).                                        *)
(*                                                                         *)
(* Simplifications.  A session id is used for one spawn, as redfog-server  *)
(* draws it at random.  Unit files, ACL commands and uid resolution matter *)
(* only where a later step depends on them (the server's grant on the      *)
(* session's sockets).  A `systemctl` or `loginctl` call takes effect in   *)
(* one step.  It may fail wherever the code branches on its result, and so *)
(* may every kill-session, whose failure is only logged; setfacl, stopping *)
(* a unit and reloading are taken to work, as the code ignores whether     *)
(* they did.  The starts are bounded by MaxStarts, the faults by MaxFaults.*)
(***************************************************************************)
EXTENDS Naturals, FiniteSets

CONSTANTS
    Sids,        \* session ids the server draws
    MaxStarts,   \* bound: starts of redfog-broker and of redfog-server
    MaxFaults    \* bound: crashes of either process, failed calls of systemctl and loginctl

ASSUME BrokerBounds == MaxStarts \in Nat \ {0} /\ MaxFaults \in Nat

VARIABLES
    broker,   \* [pc, id, todo]: process state, InvocationID, terminate_all's list
    server,   \* [pc, id]
    faults,   \* crashes and failed calls so far
    fake,     \* REDFOG_BROKER_FAKE_SPAWN
    active,   \* SessionManager.active: kind of each tracked session, or "none"
    job,      \* the spawn request of each id
    owner,    \* InvocationID of the server that asked for it, 0: nobody
    term,     \* a terminate() of the id
    ask,      \* is_session_alive() of the id, between its peek and its cleanup
    dead,     \* the server was told that the session is not alive
    init,     \* redfog-session-init's process
    sig,      \* a SIGTERM it has not acted on
    logind,   \* the logind session
    tree,     \* whether compositor processes of the session run
    pw,       \* how far the session's own PipeWire start is
    cred,     \* the password socket LoadCredential= reads
    acl,      \* what redfog-server may reach of {"dir", "socket"}
    dog,      \* the watchdog: [pc, server, broker (ids of the last poll), now, todo]
    slipped   \* history: sessions that a failed call may have let run on, since
              \* a sweep last listed them or the broker last ended

procs   == <<broker, server, faults, fake>>
session == <<init, sig, logind, tree, pw, cred, acl>>
calls   == <<active, job, owner, term, ask, dead>>
watch   == <<dog, slipped>>
vars    == <<procs, session, calls, watch>>

Kinds   == {"Pam", "DirectChild", "Scoped"}
Opened  == {"open", "forked", "waiting", "closing", "exited"}
InFlight == {"prepare", "start", "report", "pipewire", "socket"}
Liveness(p) == [active |-> p.pc # "down", id |-> p.id]

\* Between two polls the watchdog holds no reading of the server's unit.
NoReading == [active |-> FALSE, id |-> 0]

TypeOK ==
    /\ broker \in [pc : {"up", "draining", "down"}, id : 1..MaxStarts, todo : SUBSET Sids]
    /\ server \in [pc : {"up", "stopping", "down"}, id : 1..MaxStarts]
    /\ faults \in 0..MaxFaults /\ fake \in BOOLEAN
    /\ active \in [Sids -> Kinds \cup {"none"}]
    /\ job \in [Sids -> InFlight \cup {"idle", "ok", "failed", "lost"}]
    /\ owner \in [Sids -> 0..MaxStarts]
    /\ term \in [Sids -> {"idle", "sigterm", "wait", "kill", "stop", "done", "lost"}]
    /\ ask \in [Sids -> {"idle", "asked", "stop"}]
    /\ dead \in [Sids -> BOOLEAN]
    /\ init \in [Sids -> Opened \cup {"none", "auth", "failed"}]
    /\ sig \in [Sids -> BOOLEAN] /\ tree \in [Sids -> BOOLEAN]
    /\ logind \in [Sids -> {"none", "open", "closing"}]
    /\ pw \in [Sids -> {"none", "private", "listening"}]
    /\ cred \in [Sids -> {"none", "listening", "gone"}]
    /\ acl \in [Sids -> SUBSET {"dir", "socket"}]
    /\ dog \in [pc : {"sleep", "read", "list", "sweep"}, server : 0..MaxStarts, broker : 0..MaxStarts,
                now : [active : BOOLEAN, id : 0..MaxStarts], todo : SUBSET Sids]
    /\ slipped \subseteq Sids

Init ==
    /\ broker = [pc |-> "up", id |-> 1, todo |-> {}]
    /\ server = [pc |-> "up", id |-> 1]
    /\ faults = 0 /\ fake \in BOOLEAN
    /\ active = [s \in Sids |-> "none"]
    /\ job = [s \in Sids |-> "idle"] /\ owner = [s \in Sids |-> 0]
    /\ term = [s \in Sids |-> "idle"] /\ ask = [s \in Sids |-> "idle"]
    /\ dead = [s \in Sids |-> FALSE]
    /\ init = [s \in Sids |-> "none"] /\ sig = [s \in Sids |-> FALSE]
    /\ logind = [s \in Sids |-> "none"] /\ tree = [s \in Sids |-> FALSE]
    /\ pw = [s \in Sids |-> "none"] /\ cred = [s \in Sids |-> "none"]
    /\ acl = [s \in Sids |-> {}]
    /\ dog = [pc |-> "sleep", server |-> 1, broker |-> 1, now |-> NoReading, todo |-> {}]
    /\ slipped = {}

BrokerRuns == broker.pc # "down"

\* One more call fails.
Fault == faults < MaxFaults /\ faults' = faults + 1

(***************************************************************************)
(* SpawnSession.                                                           *)
(***************************************************************************)

\* A request reaches handle_connection; spawn() picks the kind of spawn.
SpawnArrives(s) ==
    /\ server.pc = "up" /\ broker.pc = "up" /\ job[s] = "idle"
    /\ owner' = [owner EXCEPT ![s] = server.id]
    /\ IF fake
       THEN /\ job' = [job EXCEPT ![s] = "socket"]
            /\ tree' = [tree EXCEPT ![s] = TRUE]
       ELSE /\ job' = [job EXCEPT ![s] = "prepare"] /\ UNCHANGED tree
    /\ UNCHANGED <<procs, watch, active, term, ask, dead, init, sig, logind, pw, cred, acl>>

\* spawn_via_pam up to the units: the runtime directory, its owner, the ACLs
\* above it, and the socket that will hand the password to systemd.
SpawnPrepares(s) ==
    /\ BrokerRuns /\ job[s] = "prepare"
    /\ \/ /\ job' = [job EXCEPT ![s] = "start"]
          /\ cred' = [cred EXCEPT ![s] = "listening"]
       \/ job' = [job EXCEPT ![s] = "failed"] /\ UNCHANGED cred
    /\ UNCHANGED <<procs, watch, active, owner, term, ask, dead, init, sig, logind, tree, pw, acl>>

\* The listener waits 20 s for systemd, serves one connection, and is gone.
CredentialExpires(s) ==
    /\ cred[s] = "listening"
    /\ cred' = [cred EXCEPT ![s] = "gone"]
    /\ UNCHANGED <<procs, calls, watch, init, sig, logind, tree, pw, acl>>

\* The unit files are written and loaded, the socket unit and then the service
\* are started; the server may reach the Wayland socket from here on, but not
\* the directory that will hold PipeWire's.  A service without its credential
\* starts (Type=simple) and dies at once.
SpawnStartsUnits(s) ==
    /\ BrokerRuns /\ job[s] = "start"
    /\ \/ /\ job' = [job EXCEPT ![s] = "report"]
          /\ init' = [init EXCEPT ![s] = IF cred[s] = "listening" THEN "auth" ELSE "failed"]
       \/ job' = [job EXCEPT ![s] = "failed"] /\ UNCHANGED init
    /\ cred' = [cred EXCEPT ![s] = "gone"]
    /\ UNCHANGED <<procs, watch, active, owner, term, ask, dead, sig, logind, tree, pw, acl>>

\* Polling for the logind id that session-init reports, at most 15 s; running
\* out of time ends the request and nothing else.
SpawnReadsReport(s) ==
    /\ BrokerRuns /\ job[s] = "report"
    /\ \/ init[s] \in Opened /\ job' = [job EXCEPT ![s] = "pipewire"]
       \/ init[s] \notin Opened \ {"exited"} /\ job' = [job EXCEPT ![s] = "failed"]
    /\ UNCHANGED <<procs, session, watch, active, owner, term, ask, dead>>

\* Mutants of SpawnFinishes: it records the logind state in place of the kind of
\* session; it does not record the session; it does not wait for the socket.
SpawnRecordsState(s) ==
    /\ BrokerRuns /\ job[s] = "pipewire" /\ pw[s] = "listening"
    /\ active' = [active EXCEPT ![s] = logind[s]] /\ job' = [job EXCEPT ![s] = "ok"]
    /\ UNCHANGED <<procs, session, watch, owner, term, ask, dead>>
SpawnForgets(s) ==
    /\ BrokerRuns /\ job[s] = "pipewire" /\ pw[s] = "listening"
    /\ acl' = [acl EXCEPT ![s] = {"dir", "socket"}] /\ job' = [job EXCEPT ![s] = "ok"]
    /\ UNCHANGED <<procs, watch, active, owner, term, ask, dead, init, sig, logind, tree, pw, cred>>
SpawnGrantsEarly(s) ==
    /\ BrokerRuns /\ job[s] = "pipewire"
    /\ acl' = [acl EXCEPT ![s] = {"dir", "socket"}] /\ job' = [job EXCEPT ![s] = "ok"]
    /\ active' = [active EXCEPT ![s] = "Pam"]
    /\ UNCHANGED <<procs, watch, owner, term, ask, dead, init, sig, logind, tree, pw, cred>>

\* Polling for the session's PipeWire socket, at most 15 s; only then is the
\* server let into the directory and to the socket, and the id tracked.
SpawnFinishes(s) ==
    /\ BrokerRuns /\ job[s] = "pipewire"
    /\ IF pw[s] = "listening"
       THEN /\ acl' = [acl EXCEPT ![s] = {"dir", "socket"}]
            /\ active' = [active EXCEPT ![s] = "Pam"]
            /\ job' = [job EXCEPT ![s] = "ok"]
       ELSE job' = [job EXCEPT ![s] = "failed"] /\ UNCHANGED <<acl, active>>
    /\ UNCHANGED <<procs, watch, owner, term, ask, dead, init, sig, logind, tree, pw, cred>>

\* spawn_fake: the child is spawned in SpawnArrives; its Wayland socket appears
\* within 15 s, or the request fails and the child is left running.
FakeSpawnFinishes(s) ==
    /\ BrokerRuns /\ job[s] = "socket"
    /\ \/ /\ job' = [job EXCEPT ![s] = "ok"]
          /\ active' = [active EXCEPT ![s] = "DirectChild"]
       \/ job' = [job EXCEPT ![s] = "failed"] /\ UNCHANGED active
    /\ UNCHANGED <<procs, session, watch, owner, term, ask, dead>>

\* SpawnPayload: redfog-session-init in a transient scope, tracked at once.
PayloadArrives(s) ==
    /\ server.pc = "up" /\ broker.pc = "up" /\ job[s] = "idle"
    /\ owner' = [owner EXCEPT ![s] = server.id]
    /\ \/ /\ job' = [job EXCEPT ![s] = "ok"]
          /\ active' = [active EXCEPT ![s] = "Scoped"]
          /\ init' = [init EXCEPT ![s] = "auth"]
       \/ job' = [job EXCEPT ![s] = "failed"] /\ UNCHANGED <<active, init>>
    /\ UNCHANGED <<procs, watch, term, ask, dead, sig, logind, tree, pw, cred, acl>>

(***************************************************************************)
(* redfog-session-init and the compositor tree.                            *)
(***************************************************************************)

\* No credential, no such user, a wrong password, no session: exit before any
\* logind session.  A payload's scope has no credential directory at all.
InitFails(s) ==
    /\ init[s] = "auth"
    /\ init' = [init EXCEPT ![s] = "failed"]
    /\ UNCHANGED <<procs, calls, watch, sig, logind, tree, pw, cred, acl>>

\* pam_open_session succeeds; the logind id is reported.
InitOpens(s) ==
    /\ init[s] = "auth" /\ active[s] # "Scoped" /\ cred[s] = "gone"
    /\ init' = [init EXCEPT ![s] = "open"]
    /\ logind' = [logind EXCEPT ![s] = "open"]
    /\ UNCHANGED <<procs, calls, watch, sig, tree, pw, cred, acl>>

\* The report cannot be written or fork fails: it exits without closing the
\* PAM session, which logind keeps.
InitAborts(s) ==
    /\ init[s] = "open"
    /\ init' = [init EXCEPT ![s] = "exited"]
    /\ logind' = [logind EXCEPT ![s] = "closing"]
    /\ UNCHANGED <<procs, calls, watch, sig, tree, pw, cred, acl>>

\* The child drops its privileges and becomes the compositor's command chain.
InitForks(s) ==
    /\ init[s] = "open"
    /\ init' = [init EXCEPT ![s] = "forked"]
    /\ tree' = [tree EXCEPT ![s] = TRUE]
    /\ UNCHANGED <<procs, calls, watch, sig, logind, pw, cred, acl>>

\* The parent installs its handler and blocks in waitpid; a SIGTERM handled
\* just before that is lost, one before the handler was installed killed it.
InitWaits(s) ==
    /\ init[s] = "forked"
    /\ init' = [init EXCEPT ![s] = "waiting"]
    /\ sig' = [sig EXCEPT ![s] = FALSE]
    /\ UNCHANGED <<procs, calls, watch, logind, tree, pw, cred, acl>>

\* SIGTERM or the end of the child: the PAM session is closed ...
InitCloses(s) ==
    /\ init[s] = "waiting" /\ (sig[s] \/ ~tree[s])
    /\ init' = [init EXCEPT ![s] = "closing"]
    /\ sig' = [sig EXCEPT ![s] = FALSE]
    /\ logind' = [logind EXCEPT ![s] = "none"]
    /\ UNCHANGED <<procs, calls, watch, tree, pw, cred, acl>>

\* ... and whatever is left in the session's scope is killed.
InitSweepsScope(s) ==
    /\ init[s] = "closing"
    /\ init' = [init EXCEPT ![s] = "exited"]
    /\ tree' = [tree EXCEPT ![s] = FALSE]
    /\ UNCHANGED <<procs, calls, watch, sig, logind, pw, cred, acl>>

\* HeadlessRuntime::start: the runtime directory becomes 0700, which masks
\* every ACL entry on it out, then PipeWire is started and listens.
RuntimeTightens(s) ==
    /\ tree[s] /\ ~fake /\ pw[s] = "none"
    /\ pw' = [pw EXCEPT ![s] = "private"]
    /\ acl' = [acl EXCEPT ![s] = {}]
    /\ UNCHANGED <<procs, calls, watch, init, sig, logind, tree, cred>>

PipewireListens(s) ==
    /\ tree[s] /\ pw[s] = "private"
    /\ pw' = [pw EXCEPT ![s] = "listening"]
    /\ UNCHANGED <<procs, calls, watch, init, sig, logind, tree, cred, acl>>

\* The user logs out or the compositor dies; without a parent logind keeps the
\* session in state closing.
TreeExits(s) ==
    /\ tree[s]
    /\ tree' = [tree EXCEPT ![s] = FALSE]
    /\ UNCHANGED <<procs, calls, watch, init, sig, logind, pw, cred, acl>>

(***************************************************************************)
(* IsSessionAlive.                                                         *)
(***************************************************************************)

\* The peek under the lock: a child is asked (and dropped from the table) at
\* once, a PAM session only after the lock is released.
AskPeeks(s) ==
    /\ server.pc = "up" /\ broker.pc = "up" /\ ask[s] = "idle"
    /\ ~dead[s] /\ job[s] = "ok" /\ owner[s] = server.id
    /\ IF active[s] = "Pam"
       THEN ask' = [ask EXCEPT ![s] = "asked"] /\ UNCHANGED <<active, dead>>
       ELSE LET alive == \/ active[s] = "DirectChild" /\ tree[s]
                         \/ active[s] = "Scoped" /\ init[s] = "auth"
            IN  /\ dead' = [dead EXCEPT ![s] = ~alive]
                /\ active' = IF alive THEN active ELSE [active EXCEPT ![s] = "none"]
                /\ UNCHANGED ask
    /\ UNCHANGED <<procs, session, watch, job, owner, term>>

\* `loginctl show-session`, whatever state the session is in.  The broker takes
\* any failure of it for "gone".
AskLooksUp(s) ==
    /\ BrokerRuns /\ ask[s] = "asked"
    /\ \/ /\ logind[s] # "none"
          /\ ask' = [ask EXCEPT ![s] = "idle"] /\ UNCHANGED <<active, faults>>
       \/ /\ IF logind[s] = "none" THEN UNCHANGED faults ELSE Fault
          /\ ask' = [ask EXCEPT ![s] = "stop"]
          /\ active' = [active EXCEPT ![s] = "none"]
    /\ UNCHANGED <<broker, server, fake, session, watch, job, owner, term, dead>>

\* Stopping the service waits for its main process; then the unit files go and
\* the answer is sent.
AskStopsUnits(s) ==
    /\ BrokerRuns /\ ask[s] = "stop" /\ init[s] = "exited"
    /\ ask' = [ask EXCEPT ![s] = "idle"]
    /\ dead' = [dead EXCEPT ![s] = TRUE]
    /\ UNCHANGED <<procs, session, watch, active, job, owner, term>>

\* What systemd does meanwhile to a main process that still runs: SIGTERM, and
\* SIGKILL when that finds no handler yet or does not end it in time.  The tree
\* has left the service's cgroup for logind's scope and outlives the latter.
ServiceStops(s) ==
    /\ BrokerRuns /\ "stop" \in {ask[s], term[s]}
    /\ \/ /\ init[s] = "waiting" /\ ~sig[s]
          /\ sig' = [sig EXCEPT ![s] = TRUE] /\ UNCHANGED <<init, logind, slipped>>
       \/ /\ init[s] \in {"forked", "waiting"}
          /\ init' = [init EXCEPT ![s] = "exited"]
          /\ logind' = [logind EXCEPT ![s] = "closing"]
          /\ slipped' = slipped \cup {s} /\ UNCHANGED sig
    /\ UNCHANGED <<procs, dog, calls, tree, pw, cred, acl>>

(***************************************************************************)
(* TerminateSession.                                                       *)
(***************************************************************************)

\* terminate() takes the session out of the table; a child or a scope dies at
\* once.  An id that is not in the table is an error and nothing else.
Terminates(s) ==
    /\ active[s] # "none" /\ term[s] = "idle"
    /\ active' = [active EXCEPT ![s] = "none"]
    /\ IF active[s] = "Pam"
       THEN term' = [term EXCEPT ![s] = "sigterm"] /\ UNCHANGED <<tree, init>>
       ELSE /\ term' = [term EXCEPT ![s] = "done"]
            /\ tree' = [tree EXCEPT ![s] = FALSE]
            /\ init' = IF active[s] = "Scoped" THEN [init EXCEPT ![s] = "failed"] ELSE init

TerminateArrives(s) ==
    /\ server.pc \in {"up", "stopping"} /\ broker.pc = "up"
    /\ job[s] = "ok" /\ owner[s] = server.id
    /\ Terminates(s)
    /\ UNCHANGED <<procs, watch, job, owner, ask, dead, sig, logind, pw, cred, acl>>

\* SIGTERM to the unit's main process; before its handler is installed that
\* kills it, and once it closes the session it makes no difference.  Without such
\* a process the call fails, and it may fail with one.
TerminateSignals(s) ==
    LET runs == init[s] \in {"forked", "waiting", "closing"}
    IN /\ BrokerRuns /\ term[s] = "sigterm"
       /\ \/ /\ runs /\ term' = [term EXCEPT ![s] = "wait"] /\ UNCHANGED faults
             /\ \/ /\ sig' = [sig EXCEPT ![s] = init[s] # "closing"]
                   /\ UNCHANGED <<init, logind>>
                \/ /\ init[s] = "forked"
                   /\ init' = [init EXCEPT ![s] = "exited"]
                   /\ logind' = [logind EXCEPT ![s] = "closing"] /\ UNCHANGED sig
          \/ /\ IF runs THEN Fault ELSE UNCHANGED faults
             /\ term' = [term EXCEPT ![s] = "kill"] /\ UNCHANGED <<sig, init, logind>>
       /\ UNCHANGED <<broker, server, fake, watch, active, job, owner, ask, dead>>
       /\ UNCHANGED <<tree, pw, cred, acl>>

\* Mutant of TerminateWaits: no kill-session after the graceful path.
TerminateTrusts(s) ==
    /\ BrokerRuns /\ term[s] = "wait"
    /\ term' = [term EXCEPT ![s] = "done"]
    /\ UNCHANGED <<procs, session, watch, active, job, owner, ask, dead>>

\* Up to 5 s for the session to disappear from logind.
TerminateWaits(s) ==
    /\ BrokerRuns /\ term[s] = "wait"
    /\ term' = [term EXCEPT ![s] = "kill"]
    /\ UNCHANGED <<procs, session, watch, active, job, owner, ask, dead>>

\* `loginctl kill-session --kill-whom=all` on a session logind still knows.
KillSession(s) ==
    IF logind[s] = "none" THEN UNCHANGED <<init, logind, tree>>
    ELSE /\ init' = [init EXCEPT ![s] = "exited"]
         /\ logind' = [logind EXCEPT ![s] = "closing"]
         /\ tree' = [tree EXCEPT ![s] = FALSE]

TerminateKills(s) ==
    /\ BrokerRuns /\ term[s] = "kill"
    /\ \/ KillSession(s) /\ UNCHANGED <<faults, slipped>>
       \/ Fault /\ slipped' = slipped \cup {s} /\ UNCHANGED <<init, logind, tree>>
    /\ term' = [term EXCEPT ![s] = "stop"]
    /\ UNCHANGED <<broker, server, fake, dog, active, job, owner, ask, dead, sig, pw, cred, acl>>

TerminateStopsUnits(s) ==
    /\ BrokerRuns /\ term[s] = "stop" /\ init[s] = "exited"
    /\ term' = [term EXCEPT ![s] = "done"]
    /\ UNCHANGED <<procs, session, watch, active, job, owner, ask, dead>>

(***************************************************************************)
(* The broker and the server start, stop and crash.                        *)
(***************************************************************************)

\* What was in progress inside the broker is gone with it, and so are the
\* children that die with their parent.
BrokerGone ==
    /\ broker' = [broker EXCEPT !.pc = "down", !.todo = {}]
    /\ active' = [s \in Sids |-> "none"]
    /\ job' = [s \in Sids |-> IF job[s] \in InFlight THEN "lost" ELSE job[s]]
    /\ term' = [s \in Sids |-> IF term[s] \in {"idle", "done"} THEN term[s] ELSE "lost"]
    /\ ask' = [s \in Sids |-> "idle"]
    /\ tree' = IF fake THEN [s \in Sids |-> FALSE] ELSE tree
    /\ cred' = [s \in Sids |-> IF cred[s] = "listening" THEN "gone" ELSE cred[s]]
    /\ slipped' = {}
    /\ UNCHANGED <<server, fake, owner, dead, init, sig, logind, pw, acl, dog>>

BrokerCrashes ==
    /\ BrokerRuns /\ Fault
    /\ BrokerGone

\* SIGTERM: the accept loop ends, terminate_all takes the keys of the table.
BrokerStops ==
    /\ broker.pc = "up"
    /\ broker' = [broker EXCEPT !.pc = "draining", !.todo = {s \in Sids : active[s] # "none"}]
    /\ UNCHANGED <<server, faults, fake, session, calls, watch>>

\* One at a time; requests that were accepted before go on beside it.
TerminateAll(s) ==
    /\ broker.pc = "draining" /\ s \in broker.todo
    /\ IF active[s] = "none"
       THEN /\ term[s] \in {"idle", "done"}
            /\ broker' = [broker EXCEPT !.todo = @ \ {s}]
            /\ UNCHANGED <<active, term, tree, init>>
       ELSE /\ \A o \in broker.todo : term[o] \in {"idle", "done"}
            /\ Terminates(s) /\ UNCHANGED broker
    /\ UNCHANGED <<server, faults, fake, watch, job, owner, ask, dead, sig, logind, pw, cred, acl>>

BrokerExits ==
    /\ broker.pc = "draining" /\ broker.todo = {}
    /\ BrokerGone /\ UNCHANGED faults

BrokerStarts ==
    /\ broker.pc = "down" /\ broker.id < MaxStarts
    /\ broker' = [pc |-> "up", id |-> broker.id + 1, todo |-> {}]
    /\ UNCHANGED <<server, faults, fake, session, calls, watch>>

ServerCrashes ==
    /\ server.pc # "down" /\ Fault
    /\ server' = [server EXCEPT !.pc = "down"]
    /\ UNCHANGED <<broker, fake, session, calls, watch>>

\* SIGTERM: shutdown_all_sessions asks the broker to end each session it knows
\* (TerminateArrives), waiting at most 15 s, and the process exits.  The bound on
\* starts stands here too: the last instance is not stopped, but may crash.
ServerStops ==
    /\ server.pc = "up" /\ server.id < MaxStarts
    /\ server' = [server EXCEPT !.pc = "stopping"]
    /\ UNCHANGED <<broker, faults, fake, session, calls, watch>>

ServerExits ==
    /\ server.pc = "stopping"
    /\ \A s \in Sids : owner[s] = server.id /\ active[s] # "none" => broker.pc # "up"
    /\ server' = [server EXCEPT !.pc = "down"]
    /\ UNCHANGED <<broker, faults, fake, session, calls, watch>>

ServerStarts ==
    /\ server.pc = "down" /\ server.id < MaxStarts
    /\ server' = [pc |-> "up", id |-> server.id + 1]
    /\ UNCHANGED <<broker, faults, fake, session, calls, watch>>

(***************************************************************************)
(* The watchdog.                                                           *)
(***************************************************************************)

\* Mutant of CrashedSince: plain is-active polling.
DownNow(now, last) == ~now.active

CrashedSince(now, last) == ~now.active \/ now.id # last

\* is-active and show are two calls: where the one fails the unit is "not active",
\* where the other does it has no id.
Readings(p) == [active : {FALSE, p.pc # "down"}, id : {0, p.id}]
Reads(p, reading) == IF reading = Liveness(p) THEN UNCHANGED faults ELSE Fault

\* A poll reads one unit after the other.
DogReadsServer ==
    /\ dog.pc = "sleep"
    /\ \E reading \in Readings(server) :
          /\ Reads(server, reading)
          /\ dog' = [dog EXCEPT !.pc = "read", !.now = reading]
    /\ UNCHANGED <<broker, server, fake, session, calls, slipped>>

\* Mutant of DogReadsBroker: only the server's unit is compared.
DogIgnoresBroker ==
    /\ dog.pc = "read"
    /\ dog' = [dog EXCEPT !.pc = IF CrashedSince(dog.now, dog.server) THEN "list" ELSE "sleep",
                 !.now = NoReading, !.server = dog.now.id, !.broker = broker.id]
    /\ UNCHANGED <<procs, session, calls, slipped>>

\* Then it compares with the last poll; what it read is the last poll from here
\* on, whatever becomes of the sweep.
DogReadsBroker ==
    /\ dog.pc = "read"
    /\ \E reading \in Readings(broker) :
          LET swept == CrashedSince(dog.now, dog.server) \/ CrashedSince(reading, dog.broker)
          IN /\ Reads(broker, reading)
             /\ dog' = [dog EXCEPT !.pc = IF swept THEN "list" ELSE "sleep", !.now = NoReading,
                          !.server = dog.now.id, !.broker = reading.id]
    /\ UNCHANGED <<broker, server, fake, session, calls, slipped>>

KnownToLogind == {s \in Sids : logind[s] # "none"}

\* A sweep ends with its last session.
SweepOf(todo) == IF todo = {} THEN "sleep" ELSE "sweep"

\* list-sessions; when it fails nothing is listed, and no later poll makes up
\* for it.
DogLists ==
    /\ dog.pc = "list"
    /\ \/ /\ dog' = [dog EXCEPT !.pc = SweepOf(KnownToLogind), !.todo = KnownToLogind]
          /\ slipped' = {} /\ UNCHANGED faults
       \/ /\ Fault
          /\ dog' = [dog EXCEPT !.pc = "sleep"]
          /\ slipped' = slipped \cup {s \in KnownToLogind : tree[s]}
    /\ UNCHANGED <<broker, server, fake, session, calls>>

\* A session that still has redfog's properties is killed, whoever owns it; one
\* whose show-session or kill-session fails is passed over.
DogKills(s) ==
    /\ dog.pc = "sweep" /\ s \in dog.todo
    /\ dog' = [dog EXCEPT !.pc = SweepOf(dog.todo \ {s}), !.todo = @ \ {s}]
    /\ \/ KillSession(s) /\ UNCHANGED <<faults, slipped>>
       \/ Fault /\ slipped' = slipped \cup {s} /\ UNCHANGED <<init, logind, tree>>
    /\ UNCHANGED <<broker, server, fake, calls, sig, pw, cred, acl>>

(***************************************************************************)

SpawnStep(s) == SpawnPrepares(s) \/ SpawnStartsUnits(s) \/ SpawnReadsReport(s)
                  \/ SpawnFinishes(s) \/ FakeSpawnFinishes(s)
InitStep(s)  == InitFails(s) \/ InitOpens(s) \/ InitAborts(s) \/ InitForks(s) \/ InitWaits(s)
                  \/ InitCloses(s) \/ InitSweepsScope(s)
TermStep(s)  == TerminateSignals(s) \/ TerminateWaits(s) \/ TerminateKills(s)
                  \/ TerminateStopsUnits(s)
AskStep(s)   == AskLooksUp(s) \/ AskStopsUnits(s)
DogStep      == DogReadsServer \/ DogReadsBroker \/ DogLists \/ \E s \in Sids : DogKills(s)

Next ==
    \/ \E s \in Sids : SpawnArrives(s) \/ PayloadArrives(s) \/ SpawnStep(s)
    \/ \E s \in Sids : CredentialExpires(s) \/ InitStep(s) \/ RuntimeTightens(s)
                         \/ PipewireListens(s) \/ TreeExits(s)
    \/ \E s \in Sids : AskPeeks(s) \/ AskStep(s) \/ ServiceStops(s) \/ TerminateArrives(s) \/ TermStep(s)
    \/ \E s \in Sids : TerminateAll(s)
    \/ BrokerCrashes \/ BrokerStops \/ BrokerExits \/ BrokerStarts
    \/ ServerCrashes \/ ServerStops \/ ServerExits \/ ServerStarts
    \/ DogStep

\* The broker's tasks, session-init with the systemd that stops it, and the
\* watchdog are scheduled; nothing obliges a server to ask, a user to log out or
\* a process to crash.
Fairness ==
    /\ \A s \in Sids : /\ WF_vars(SpawnStep(s)) /\ WF_vars(TermStep(s)) /\ WF_vars(AskStep(s))
                       /\ WF_vars(InitStep(s) \/ ServiceStops(s))
    /\ WF_vars(DogStep)

Spec == Init /\ [][Next]_vars /\ Fairness

(***************************************************************************)
(* Properties.                                                             *)
(***************************************************************************)

\* The watchdog has yet to notice that a broker or server instance ended, or
\* is about to kill the session.
SweepComing(s) ==
    \/ ~BrokerRuns \/ server.pc = "down"
    \/ dog.broker # broker.id \/ dog.server # server.id
    \/ dog.pc = "list" \/ (dog.pc = "sweep" /\ s \in dog.todo)

\* Compositor processes that no table, request or closing parent accounts for.
Orphan(s) ==
    /\ tree[s] /\ active[s] = "none"
    /\ job[s] \notin InFlight /\ term[s] \in {"idle", "done", "lost"} /\ ask[s] # "stop"
    /\ init[s] # "closing"

\* A session that runs is in the broker's table or in the hands of a request
\* that will put it there, take it down or is taking it down; if not, an
\* instance died and the watchdog has yet to sweep.  What the code leaves open
\* is: a spawn that failed after its unit was started, or whose broker died; and
\* a failed call of the sweep, or of a terminate or a unit's stop, that nothing
\* repeats (the watchdog counts a crash as seen before it knows that it swept).
NoSilentOrphan ==
    \A s \in Sids : Orphan(s) => SweepComing(s) \/ s \in slipped \/ job[s] \in {"failed", "lost"}

\* A successful SpawnSession promises that the server can reach the session's
\* PipeWire socket: its ACL entry was made after the session tightened the
\* directory, which would have masked it out.
GrantSurvives ==
    \A s \in Sids : job[s] = "ok" /\ pw[s] # "none" => acl[s] = {"dir", "socket"}

\* A session whose broker died, and which logind knows, is swept however short
\* the outage was, unless a call of that very sweep fails.
OrphansAreSwept ==
    \A s \in Sids : (Orphan(s) /\ logind[s] = "open" /\ ~fake /\ SweepComing(s))
                        ~> (~tree[s] \/ s \in slipped)

\* When IsSessionAlive has said no, the server forgets the session: then its
\* processes do end, whichever broker instance said it, and also where the
\* answer was wrong because loginctl failed; unless the unit's stop had to kill
\* session-init, or a sweep failed.
DeadMeansGone ==
    \A s \in Sids : (dead[s] /\ ~fake) ~> (~tree[s] \/ s \in slipped)

\* A terminate() that was begun ends the whole tree, even if the PAM parent
\* misses its signal, and even if the broker dies in the middle; unless its own
\* kill-session, or that of the sweep after the broker's death, fails.
TerminateEndsTree ==
    \A s \in Sids : (term[s] # "idle") ~> (~tree[s] \/ s \in slipped)
=============================================================================
