------------------------------ MODULE LoginSpawn ------------------------------
(***************************************************************************)
(* How the server gets the frames of a login screen: spawn_login_compositor*)
(* (session-backend) binds a socket at a path that all spawns of the       *)
(* process share, starts redfog-login and accepts one connection; a spawn  *)
(* runs on the thread of its /launch, and so beside those of other clients.*)
(*                                                                         *)
(* Simplifications.  Time is left out: the 10 s may pass at any moment, and*)
(* a process may take any time to come up.  Frames and input follow the    *)
(* connection, so who is at its other end is all that is kept of them.     *)
(***************************************************************************)
EXTENDS Naturals, Sequences

CONSTANT MaxSpawns  \* bound: login stages that are started

Spawns == 1..MaxSpawns  \* a spawn, its listener and its process: the generation
Nobody == 0

VARIABLES
    path,     \* the listener that the path names, if any
    pc,       \* where each spawn is, and then its session
    process,  \* redfog-login of each spawn
    backlog,  \* backlog[g]: processes that wait to be accepted by g
    stream    \* stream[g]: the process whose frames g's session shows

vars == <<path, pc, process, backlog, stream>>

Init ==
    /\ path = Nobody
    /\ pc = [g \in Spawns |-> "idle"] /\ process = [g \in Spawns |-> "none"]
    /\ backlog = [g \in Spawns |-> <<>>] /\ stream = [g \in Spawns |-> Nobody]

Goes(g, place) == pc' = [pc EXCEPT ![g] = place]

Listens(g) == pc[g] \in {"spawn", "accept", "unlink"}

\* "stale socket from a previous run"
RemovesStale(g) ==
    /\ pc[g] = "idle" /\ Goes(g, "bind") /\ path' = Nobody
    /\ UNCHANGED <<process, backlog, stream>>

\* bind refuses a path that exists.
Binds(g) ==
    /\ pc[g] = "bind"
    /\ \/ path = Nobody /\ Goes(g, "spawn") /\ path' = g
       \/ path # Nobody /\ Goes(g, "failed") /\ UNCHANGED path
    /\ UNCHANGED <<process, backlog, stream>>

\* The process is told the path and its generation.
StartsProcess(g) ==
    /\ pc[g] = "spawn"
    /\ \/ Goes(g, "accept") /\ process' = [process EXCEPT ![g] = "starting"]
       \/ Goes(g, "failed") /\ UNCHANGED process
    /\ UNCHANGED <<path, backlog, stream>>

\* redfog-login: a socket that is not there, or not listened to, ends it.
Connects(p) ==
    /\ process[p] = "starting"
    /\ IF path # Nobody /\ Listens(path)
       THEN /\ process' = [process EXCEPT ![p] = "running"]
            /\ backlog' = [backlog EXCEPT ![path] = Append(@, p)]
       ELSE process' = [process EXCEPT ![p] = "exited"] /\ UNCHANGED backlog
    /\ UNCHANGED <<path, pc, stream>>

\* Its user is done, or has closed it, or its connection is gone.
Exits(p) ==
    /\ process[p] = "running"
    /\ process' = [process EXCEPT ![p] = "exited"]
    /\ UNCHANGED <<path, pc, backlog, stream>>

Accepts(g) ==
    /\ pc[g] = "accept" /\ backlog[g] # <<>> /\ Goes(g, "unlink")
    /\ stream' = [stream EXCEPT ![g] = Head(backlog[g])]
    /\ backlog' = [backlog EXCEPT ![g] = Tail(@)]
    /\ UNCHANGED <<path, process>>

\* Its own process has exited, or 10 s have passed; the path stays.
GivesUp(g) ==
    /\ pc[g] = "accept" /\ backlog[g] = <<>> /\ Goes(g, "failed")
    /\ process' = [process EXCEPT ![g] = "exited"]
    /\ UNCHANGED <<path, backlog, stream>>

\* "no longer needed once connected": whatever the path names by now.
Unlinks(g) ==
    /\ pc[g] = "unlink" /\ Goes(g, "ready") /\ path' = Nobody
    /\ UNCHANGED <<process, backlog, stream>>

\* terminate: the connection is shut down, the process killed.
Terminates(g) ==
    /\ pc[g] = "ready" /\ Goes(g, "over")
    /\ process' = [process EXCEPT ![g] = "exited"]
    /\ UNCHANGED <<path, backlog, stream>>

Next ==
    \E g \in Spawns :
       \/ RemovesStale(g) \/ Binds(g) \/ StartsProcess(g) \/ Accepts(g) \/ GivesUp(g) \/ Unlinks(g)
       \/ Connects(g) \/ Exits(g) \/ Terminates(g)

Spec == Init /\ [][Next]_vars

\* However spawns overlap, a login session shows, and its input reaches, the
\* process whose exit it waits for and whose report carries its generation.
ScreenIsOwn == \A g \in Spawns : pc[g] = "ready" => stream[g] = g

===============================================================================
