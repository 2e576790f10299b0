----------------------------- MODULE BrokerProofs -----------------------------
(***************************************************************************)
(* Proofs about Broker for every set of session ids and every number of    *)
(* starts, crashes and failed readings.                                    *)
(*                                                                         *)
(* A session's compositor tree is visible to no variable of the broker, so *)
(* the invariant ties what the broker believes (table, request, terminate) *)
(* to how far session-init, logind and PipeWire are in that session.  What *)
(* keeps an untracked tree from being forgotten is stated without the      *)
(* server: the broker's own InvocationID, and the watchdog's list, are     *)
(* enough.                                                                 *)
(***************************************************************************)
EXTENDS Broker, TLAPS

\* Session-init has forked the compositor's command chain.
Late == {"forked", "waiting", "closing", "exited"}

\* How far the parts of one session can be, given its request and its credential.
SpawnOf(s) ==
    /\ job[s] \in {"idle", "prepare", "start"} => init[s] = "none"
    /\ job[s] \in {"idle", "prepare"} => cred[s] = "none"
    /\ job[s] = "idle" => ~tree[s] /\ active[s] = "none"
    /\ job[s] \in {"prepare", "start", "report", "pipewire"} => ~fake
    /\ job[s] = "socket" => fake
    /\ fake => cred[s] = "none"
    /\ cred[s] = "none" => init[s] \in {"none", "auth", "failed"}
    /\ init[s] \in {"none", "auth", "failed"} => logind[s] = "none"

\* The tree, logind and PipeWire of a session follow session-init.
TreeOf(s) ==
    /\ tree[s] /\ ~fake => init[s] \in Late
    /\ pw[s] # "none" => init[s] \in Late
    /\ init[s] \in {"open", "forked", "waiting"} => logind[s] # "none"
    /\ init[s] = "exited" /\ logind[s] = "none" => ~tree[s]

\* What the broker's table says of a session is true of it.
TableOf(s) ==
    /\ active[s] # "none" => job[s] = "ok"
    /\ active[s] = "Pam" => cred[s] # "none"
    /\ active[s] = "DirectChild" => fake
    /\ active[s] = "Scoped" => ~tree[s] /\ cred[s] = "none"
    /\ ask[s] # "idle" \/ term[s] \in {"sigterm", "wait", "kill", "stop"} => cred[s] # "none"
    /\ fake /\ job[s] = "ok" /\ tree[s] => active[s] # "none"
    /\ job[s] = "ok" /\ cred[s] # "none" => acl[s] = {"dir", "socket"} /\ pw[s] = "listening"

\* The broker instance that tracked the session is gone and the watchdog has
\* not compared its id yet, or it is about to list the session or has listed it.
BrokerSweep(s) ==
    ~BrokerRuns \/ dog.broker # broker.id \/ dog.pc = "list" \/ (dog.pc = "sweep" /\ s \in dog.todo)

Watched(s) == s \in slipped \/ BrokerSweep(s)

\* A running session that left the table is being terminated, closing, stopped by
\* systemd or to be swept, unless a failed call let it slip.  When its
\* session-init is gone, only a terminate or the sweep is left to end it.
CoveredOf(s) ==
    /\ job[s] = "ok" /\ tree[s] /\ active[s] = "none" /\ init[s] # "closing" =>
          term[s] \in {"sigterm", "wait", "kill"} \/ ask[s] = "stop" \/ Watched(s)
    /\ init[s] = "exited" /\ tree[s] => term[s] \in {"sigterm", "wait", "kill"} \/ Watched(s)

LifeOf(s) == SpawnOf(s) /\ TreeOf(s) /\ TableOf(s) /\ CoveredOf(s)
Life == \A s \in Sids : LifeOf(s)

DogIsBehind == dog.broker <= broker.id

IInv == TypeOK /\ Life /\ DogIsBehind

-----------------------------------------------------------------------------
(***************************************************************************)
(* Every variable keeps its type.                                          *)
(***************************************************************************)

\* The types, one group of variables at a time.
BrokerOK  == broker \in [pc : {"up", "draining", "down"}, id : 1..MaxStarts, todo : SUBSET Sids]
ServerOK  == server \in [pc : {"up", "stopping", "down"}, id : 1..MaxStarts]
FaultsOK  == faults \in 0..MaxFaults /\ fake \in BOOLEAN
CallsOK   ==
    /\ active \in [Sids -> Kinds \cup {"none"}]
    /\ job \in [Sids -> InFlight \cup {"idle", "ok", "failed", "lost"}]
    /\ owner \in [Sids -> 0..MaxStarts]
    /\ term \in [Sids -> {"idle", "sigterm", "wait", "kill", "stop", "done", "lost"}]
    /\ ask \in [Sids -> {"idle", "asked", "stop"}]
    /\ dead \in [Sids -> BOOLEAN]
SessionOK ==
    /\ init \in [Sids -> Opened \cup {"none", "auth", "failed"}]
    /\ sig \in [Sids -> BOOLEAN] /\ tree \in [Sids -> BOOLEAN]
    /\ logind \in [Sids -> {"none", "open", "closing"}]
    /\ pw \in [Sids -> {"none", "private", "listening"}]
    /\ cred \in [Sids -> {"none", "listening", "gone"}]
    /\ acl \in [Sids -> SUBSET {"dir", "socket"}]
DogOK     ==
    /\ dog \in [pc : {"sleep", "read", "list", "sweep"}, server : 0..MaxStarts, broker : 0..MaxStarts,
                now : [active : BOOLEAN, id : 0..MaxStarts], todo : SUBSET Sids]
    /\ slipped \subseteq Sids

LEMMA TypeParts ==
  TypeOK <=> BrokerOK /\ ServerOK /\ FaultsOK /\ CallsOK /\ SessionOK /\ DogOK
BY DEF TypeOK, BrokerOK, ServerOK, FaultsOK, CallsOK, SessionOK, DogOK

\* The invariant, in the form the steps below use.
LEMMA Parts ==
  ASSUME IInv
  PROVE  /\ BrokerOK /\ ServerOK /\ FaultsOK /\ CallsOK /\ SessionOK /\ DogOK
         /\ \A s \in Sids : SpawnOf(s) /\ TreeOf(s) /\ TableOf(s) /\ CoveredOf(s)
         /\ DogIsBehind
BY TypeParts DEF IInv, Life, LifeOf

-----------------------------------------------------------------------------
(***************************************************************************)
(* One session's step leaves the others alone.                             *)
(***************************************************************************)

\* Nothing the invariant says of session x has changed.
Untouched(x) ==
    /\ fake' = fake /\ active'[x] = active[x] /\ job'[x] = job[x]
    /\ term'[x] = term[x] /\ ask'[x] = ask[x]
    /\ init'[x] = init[x] /\ logind'[x] = logind[x] /\ tree'[x] = tree[x]
    /\ pw'[x] = pw[x] /\ cred'[x] = cred[x] /\ acl'[x] = acl[x]
    /\ Watched(x) => Watched(x)'

OthersUntouched(s) == \A x \in Sids : x # s => Untouched(x)

\* Such a session keeps its part of the invariant.
LEMMA KeepsLife ==
  ASSUME NEW x \in Sids, LifeOf(x), Untouched(x)
  PROVE  LifeOf(x)'
BY DEF LifeOf, Untouched, SpawnOf, TreeOf, TableOf, CoveredOf

\* What a step of session s must show.
LEMMA OneSession ==
  ASSUME IInv, NEW s \in Sids, OthersUntouched(s), DogIsBehind',
         BrokerOK', ServerOK', FaultsOK', CallsOK', SessionOK', DogOK',
         SpawnOf(s)', TreeOf(s)', TableOf(s)', CoveredOf(s)'
  PROVE  IInv'
<1>1. LifeOf(s)'  BY DEF LifeOf
<1>2. ASSUME NEW x \in Sids, x # s PROVE LifeOf(x)'
  BY <1>2, KeepsLife DEF OthersUntouched, IInv, Life
<1>3. \A x \in Sids : LifeOf(x)'  BY <1>1, <1>2
<1>4. TypeOK'
  BY DEF TypeOK, BrokerOK, ServerOK, FaultsOK, CallsOK, SessionOK, DogOK
<1> QED BY <1>3, <1>4 DEF IInv, Life

\* The bound on faults holds whether or not a call fails.
LEMMA FaultTypes ==
  ASSUME FaultsOK, Fault \/ UNCHANGED faults, UNCHANGED fake
  PROVE  FaultsOK'
BY BrokerBounds DEF BrokerBounds, FaultsOK, Fault

\* kill-session, if it works and logind knows the session: its parent and its
\* tree are gone.
LEMMA KillTypes ==
  ASSUME NEW s \in Sids, SessionOK, KillSession(s) \/ UNCHANGED <<init, logind, tree>>,
         UNCHANGED <<sig, pw, cred, acl>>
  PROVE  SessionOK'
<1>1. CASE UNCHANGED <<init, logind, tree>>  BY <1>1 DEF SessionOK
<1>2. CASE KillSession(s) /\ logind[s] # "none"  BY <1>2 DEF SessionOK, KillSession, Opened
<1> QED BY <1>1, <1>2 DEF KillSession

\* ... and so are a child or a payload's scope when terminate() takes them.
LEMMA TerminatesTypes ==
  ASSUME NEW s \in Sids, CallsOK, SessionOK, Terminates(s), UNCHANGED <<job, owner, ask, dead>>,
         UNCHANGED <<sig, logind, pw, cred, acl>>
  PROVE  CallsOK' /\ SessionOK'
<1>1. CallsOK'  BY DEF CallsOK, Terminates, Kinds
<1>2. CASE active[s] = "Pam"  BY <1>1, <1>2 DEF SessionOK, Terminates
<1>3. CASE active[s] = "Scoped"  BY <1>1, <1>3 DEF SessionOK, Terminates
<1>4. CASE active[s] \notin {"Pam", "Scoped"}  BY <1>1, <1>4 DEF SessionOK, Terminates
<1> QED BY <1>1, <1>2, <1>3, <1>4

-----------------------------------------------------------------------------
(***************************************************************************)
(* The steps of one session.                                               *)
(***************************************************************************)
\* A request's steps inside the broker.
LEMMA SpawnKeeps ==
  ASSUME IInv, NEW s \in Sids, SpawnArrives(s) \/ PayloadArrives(s) \/ SpawnStep(s)
  PROVE  IInv'
<1> USE Parts DEF Late, Opened, Watched, BrokerSweep, BrokerRuns, watch
<1>1. CASE SpawnArrives(s)
  <2> USE <1>1 DEF SpawnArrives, procs
  <2>1. BrokerOK' /\ ServerOK' /\ FaultsOK' /\ DogOK' /\ DogIsBehind'
    BY DEF BrokerOK, ServerOK, FaultsOK, DogOK, DogIsBehind
  <2>2. CallsOK'  BY DEF CallsOK, Kinds, InFlight, ServerOK
  <2>3. SessionOK'  BY DEF SessionOK
  <2>4. OthersUntouched(s)  BY DEF CallsOK, SessionOK, OthersUntouched, Untouched
  <2>5. SpawnOf(s)' /\ TreeOf(s)'  BY DEF CallsOK, SessionOK, SpawnOf, TreeOf, TableOf
  <2>6. TableOf(s)'  BY DEF CallsOK, SessionOK, SpawnOf, TreeOf, TableOf
  <2>7. CoveredOf(s)'  BY DEF CallsOK, SessionOK, DogOK, SpawnOf, TreeOf, TableOf, CoveredOf
  <2> QED BY <2>1, <2>2, <2>3, <2>4, <2>5, <2>6, <2>7, OneSession
<1>2. CASE PayloadArrives(s)
  <2> USE <1>2 DEF PayloadArrives, procs
  <2>1. BrokerOK' /\ ServerOK' /\ FaultsOK' /\ DogOK' /\ DogIsBehind'
    BY DEF BrokerOK, ServerOK, FaultsOK, DogOK, DogIsBehind
  <2>2. CallsOK'  BY DEF CallsOK, Kinds, InFlight, ServerOK
  <2>3. SessionOK'  BY DEF SessionOK
  <2>4. OthersUntouched(s)  BY DEF CallsOK, SessionOK, OthersUntouched, Untouched
  <2>5. SpawnOf(s)' /\ TreeOf(s)'  BY DEF CallsOK, SessionOK, SpawnOf, TreeOf, TableOf
  <2>6. TableOf(s)'  BY DEF CallsOK, SessionOK, SpawnOf, TreeOf, TableOf
  <2>7. CoveredOf(s)'  BY DEF CallsOK, SessionOK, DogOK, SpawnOf, TreeOf, TableOf, CoveredOf
  <2> QED BY <2>1, <2>2, <2>3, <2>4, <2>5, <2>6, <2>7, OneSession
<1>3. CASE SpawnPrepares(s)
  <2> USE <1>3 DEF SpawnPrepares, procs
  <2>1. BrokerOK' /\ ServerOK' /\ FaultsOK' /\ DogOK' /\ DogIsBehind'
    BY DEF BrokerOK, ServerOK, FaultsOK, DogOK, DogIsBehind
  <2>2. CallsOK'  BY DEF CallsOK, Kinds, InFlight
  <2>3. SessionOK'  BY DEF SessionOK
  <2>4. OthersUntouched(s)  BY DEF CallsOK, SessionOK, OthersUntouched, Untouched
  <2>5. SpawnOf(s)' /\ TreeOf(s)'  BY DEF CallsOK, SessionOK, SpawnOf, TreeOf, TableOf
  <2>6. TableOf(s)'  BY DEF CallsOK, SessionOK, SpawnOf, TreeOf, TableOf
  <2>7. CoveredOf(s)'  BY DEF CallsOK, SessionOK, DogOK, SpawnOf, TreeOf, TableOf, CoveredOf
  <2> QED BY <2>1, <2>2, <2>3, <2>4, <2>5, <2>6, <2>7, OneSession
<1>4. CASE SpawnStartsUnits(s)
  <2> USE <1>4 DEF SpawnStartsUnits, procs
  <2>1. BrokerOK' /\ ServerOK' /\ FaultsOK' /\ DogOK' /\ DogIsBehind'
    BY DEF BrokerOK, ServerOK, FaultsOK, DogOK, DogIsBehind
  <2>2. CallsOK'  BY DEF CallsOK, Kinds, InFlight
  <2>3. SessionOK'  BY DEF SessionOK
  <2>4. OthersUntouched(s)  BY DEF CallsOK, SessionOK, OthersUntouched, Untouched
  <2>5. SpawnOf(s)' /\ TreeOf(s)'  BY DEF CallsOK, SessionOK, SpawnOf, TreeOf, TableOf
  <2>6. TableOf(s)'  BY DEF CallsOK, SessionOK, SpawnOf, TreeOf, TableOf
  <2>7. CoveredOf(s)'  BY DEF CallsOK, SessionOK, DogOK, SpawnOf, TreeOf, TableOf, CoveredOf
  <2> QED BY <2>1, <2>2, <2>3, <2>4, <2>5, <2>6, <2>7, OneSession
<1>5. CASE SpawnReadsReport(s)
  <2> USE <1>5 DEF SpawnReadsReport, procs, session
  <2>1. BrokerOK' /\ ServerOK' /\ FaultsOK' /\ DogOK' /\ DogIsBehind'
    BY DEF BrokerOK, ServerOK, FaultsOK, DogOK, DogIsBehind
  <2>2. CallsOK'  BY DEF CallsOK, Kinds, InFlight
  <2>3. SessionOK'  BY DEF SessionOK
  <2>4. OthersUntouched(s)  BY DEF CallsOK, SessionOK, OthersUntouched, Untouched
  <2>5. SpawnOf(s)' /\ TreeOf(s)'  BY DEF CallsOK, SessionOK, SpawnOf, TreeOf, TableOf
  <2>6. TableOf(s)'  BY DEF CallsOK, SessionOK, SpawnOf, TreeOf, TableOf
  <2>7. CoveredOf(s)'  BY DEF CallsOK, SessionOK, DogOK, SpawnOf, TreeOf, TableOf, CoveredOf
  <2> QED BY <2>1, <2>2, <2>3, <2>4, <2>5, <2>6, <2>7, OneSession
<1>6. CASE SpawnFinishes(s)
  <2> USE <1>6 DEF SpawnFinishes, procs
  <2>1. BrokerOK' /\ ServerOK' /\ FaultsOK' /\ DogOK' /\ DogIsBehind'
    BY DEF BrokerOK, ServerOK, FaultsOK, DogOK, DogIsBehind
  <2>2. CallsOK'  BY DEF CallsOK, Kinds, InFlight
  <2>3. SessionOK'  BY DEF SessionOK
  <2>4. OthersUntouched(s)  BY DEF CallsOK, SessionOK, OthersUntouched, Untouched
  <2>5. SpawnOf(s)' /\ TreeOf(s)'  BY DEF CallsOK, SessionOK, SpawnOf, TreeOf, TableOf
  <2>6. TableOf(s)'  BY DEF CallsOK, SessionOK, SpawnOf, TreeOf, TableOf
  <2>7. CoveredOf(s)'  BY DEF CallsOK, SessionOK, DogOK, SpawnOf, TreeOf, TableOf, CoveredOf
  <2> QED BY <2>1, <2>2, <2>3, <2>4, <2>5, <2>6, <2>7, OneSession
<1>7. CASE FakeSpawnFinishes(s)
  <2> USE <1>7 DEF FakeSpawnFinishes, procs, session
  <2>1. BrokerOK' /\ ServerOK' /\ FaultsOK' /\ DogOK' /\ DogIsBehind'
    BY DEF BrokerOK, ServerOK, FaultsOK, DogOK, DogIsBehind
  <2>2. CallsOK'  BY DEF CallsOK, Kinds, InFlight
  <2>3. SessionOK'  BY DEF SessionOK
  <2>4. OthersUntouched(s)  BY DEF CallsOK, SessionOK, OthersUntouched, Untouched
  <2>5. SpawnOf(s)' /\ TreeOf(s)'  BY DEF CallsOK, SessionOK, SpawnOf, TreeOf, TableOf
  <2>6. TableOf(s)'  BY DEF CallsOK, SessionOK, SpawnOf, TreeOf, TableOf
  <2>7. CoveredOf(s)'  BY DEF CallsOK, SessionOK, DogOK, SpawnOf, TreeOf, TableOf, CoveredOf
  <2> QED BY <2>1, <2>2, <2>3, <2>4, <2>5, <2>6, <2>7, OneSession
<1> QED BY <1>1, <1>2, <1>3, <1>4, <1>5, <1>6, <1>7 DEF SpawnStep

\* The steps of session-init, of its compositor tree and of the credential socket.
LEMMA SessionKeeps ==
  ASSUME IInv, NEW s \in Sids, \/ CredentialExpires(s) \/ InitStep(s) \/ RuntimeTightens(s)
                           \/ PipewireListens(s) \/ TreeExits(s)
  PROVE  IInv'
<1> USE Parts DEF Late, Opened, Watched, BrokerSweep, BrokerRuns, watch
<1>1. CASE CredentialExpires(s)
  <2> USE <1>1 DEF CredentialExpires, procs, calls
  <2>1. BrokerOK' /\ ServerOK' /\ FaultsOK' /\ DogOK' /\ DogIsBehind'
    BY DEF BrokerOK, ServerOK, FaultsOK, DogOK, DogIsBehind
  <2>2. CallsOK'  BY DEF CallsOK, Kinds, InFlight
  <2>3. SessionOK'  BY DEF SessionOK
  <2>4. OthersUntouched(s)  BY DEF CallsOK, SessionOK, OthersUntouched, Untouched
  <2>5. SpawnOf(s)' /\ TreeOf(s)'  BY DEF CallsOK, SessionOK, SpawnOf, TreeOf, TableOf
  <2>6. TableOf(s)'  BY DEF CallsOK, SessionOK, SpawnOf, TreeOf, TableOf
  <2>7. CoveredOf(s)'  BY DEF CallsOK, SessionOK, DogOK, SpawnOf, TreeOf, TableOf, CoveredOf
  <2> QED BY <2>1, <2>2, <2>3, <2>4, <2>5, <2>6, <2>7, OneSession
<1>2. CASE InitFails(s)
  <2> USE <1>2 DEF InitFails, procs, calls
  <2>1. BrokerOK' /\ ServerOK' /\ FaultsOK' /\ DogOK' /\ DogIsBehind'
    BY DEF BrokerOK, ServerOK, FaultsOK, DogOK, DogIsBehind
  <2>2. CallsOK'  BY DEF CallsOK, Kinds, InFlight
  <2>3. SessionOK'  BY DEF SessionOK
  <2>4. OthersUntouched(s)  BY DEF CallsOK, SessionOK, OthersUntouched, Untouched
  <2>5. SpawnOf(s)' /\ TreeOf(s)'  BY DEF CallsOK, SessionOK, SpawnOf, TreeOf, TableOf
  <2>6. TableOf(s)'  BY DEF CallsOK, SessionOK, SpawnOf, TreeOf, TableOf
  <2>7. CoveredOf(s)'  BY DEF CallsOK, SessionOK, DogOK, SpawnOf, TreeOf, TableOf, CoveredOf
  <2> QED BY <2>1, <2>2, <2>3, <2>4, <2>5, <2>6, <2>7, OneSession
<1>3. CASE InitOpens(s)
  <2> USE <1>3 DEF InitOpens, procs, calls
  <2>1. BrokerOK' /\ ServerOK' /\ FaultsOK' /\ DogOK' /\ DogIsBehind'
    BY DEF BrokerOK, ServerOK, FaultsOK, DogOK, DogIsBehind
  <2>2. CallsOK'  BY DEF CallsOK, Kinds, InFlight
  <2>3. SessionOK'  BY DEF SessionOK
  <2>4. OthersUntouched(s)  BY DEF CallsOK, SessionOK, OthersUntouched, Untouched
  <2>5. SpawnOf(s)' /\ TreeOf(s)'  BY DEF CallsOK, SessionOK, SpawnOf, TreeOf, TableOf
  <2>6. TableOf(s)'  BY DEF CallsOK, SessionOK, SpawnOf, TreeOf, TableOf
  <2>7. CoveredOf(s)'  BY DEF CallsOK, SessionOK, DogOK, SpawnOf, TreeOf, TableOf, CoveredOf
  <2> QED BY <2>1, <2>2, <2>3, <2>4, <2>5, <2>6, <2>7, OneSession
<1>4. CASE InitAborts(s)
  <2> USE <1>4 DEF InitAborts, procs, calls
  <2>1. BrokerOK' /\ ServerOK' /\ FaultsOK' /\ DogOK' /\ DogIsBehind'
    BY DEF BrokerOK, ServerOK, FaultsOK, DogOK, DogIsBehind
  <2>2. CallsOK'  BY DEF CallsOK, Kinds, InFlight
  <2>3. SessionOK'  BY DEF SessionOK
  <2>4. OthersUntouched(s)  BY DEF CallsOK, SessionOK, OthersUntouched, Untouched
  <2>5. SpawnOf(s)' /\ TreeOf(s)'  BY DEF CallsOK, SessionOK, SpawnOf, TreeOf, TableOf
  <2>6. TableOf(s)'  BY DEF CallsOK, SessionOK, SpawnOf, TreeOf, TableOf
  <2>7. CoveredOf(s)'  BY DEF CallsOK, SessionOK, DogOK, SpawnOf, TreeOf, TableOf, CoveredOf
  <2> QED BY <2>1, <2>2, <2>3, <2>4, <2>5, <2>6, <2>7, OneSession
<1>5. CASE InitForks(s)
  <2> USE <1>5 DEF InitForks, procs, calls
  <2>1. BrokerOK' /\ ServerOK' /\ FaultsOK' /\ DogOK' /\ DogIsBehind'
    BY DEF BrokerOK, ServerOK, FaultsOK, DogOK, DogIsBehind
  <2>2. CallsOK'  BY DEF CallsOK, Kinds, InFlight
  <2>3. SessionOK'  BY DEF SessionOK
  <2>4. OthersUntouched(s)  BY DEF CallsOK, SessionOK, OthersUntouched, Untouched
  <2>5. SpawnOf(s)' /\ TreeOf(s)'  BY DEF CallsOK, SessionOK, SpawnOf, TreeOf, TableOf
  <2>6. TableOf(s)'  BY DEF CallsOK, SessionOK, SpawnOf, TreeOf, TableOf
  <2>7. CoveredOf(s)'  BY DEF CallsOK, SessionOK, DogOK, SpawnOf, TreeOf, TableOf, CoveredOf
  <2> QED BY <2>1, <2>2, <2>3, <2>4, <2>5, <2>6, <2>7, OneSession
<1>6. CASE InitWaits(s)
  <2> USE <1>6 DEF InitWaits, procs, calls
  <2>1. BrokerOK' /\ ServerOK' /\ FaultsOK' /\ DogOK' /\ DogIsBehind'
    BY DEF BrokerOK, ServerOK, FaultsOK, DogOK, DogIsBehind
  <2>2. CallsOK'  BY DEF CallsOK, Kinds, InFlight
  <2>3. SessionOK'  BY DEF SessionOK
  <2>4. OthersUntouched(s)  BY DEF CallsOK, SessionOK, OthersUntouched, Untouched
  <2>5. SpawnOf(s)' /\ TreeOf(s)'  BY DEF CallsOK, SessionOK, SpawnOf, TreeOf, TableOf
  <2>6. TableOf(s)'  BY DEF CallsOK, SessionOK, SpawnOf, TreeOf, TableOf
  <2>7. CoveredOf(s)'  BY DEF CallsOK, SessionOK, DogOK, SpawnOf, TreeOf, TableOf, CoveredOf
  <2> QED BY <2>1, <2>2, <2>3, <2>4, <2>5, <2>6, <2>7, OneSession
<1>7. CASE InitCloses(s)
  <2> USE <1>7 DEF InitCloses, procs, calls
  <2>1. BrokerOK' /\ ServerOK' /\ FaultsOK' /\ DogOK' /\ DogIsBehind'
    BY DEF BrokerOK, ServerOK, FaultsOK, DogOK, DogIsBehind
  <2>2. CallsOK'  BY DEF CallsOK, Kinds, InFlight
  <2>3. SessionOK'  BY DEF SessionOK
  <2>4. OthersUntouched(s)  BY DEF CallsOK, SessionOK, OthersUntouched, Untouched
  <2>5. SpawnOf(s)' /\ TreeOf(s)'  BY DEF CallsOK, SessionOK, SpawnOf, TreeOf, TableOf
  <2>6. TableOf(s)'  BY DEF CallsOK, SessionOK, SpawnOf, TreeOf, TableOf
  <2>7. CoveredOf(s)'  BY DEF CallsOK, SessionOK, DogOK, SpawnOf, TreeOf, TableOf, CoveredOf
  <2> QED BY <2>1, <2>2, <2>3, <2>4, <2>5, <2>6, <2>7, OneSession
<1>8. CASE InitSweepsScope(s)
  <2> USE <1>8 DEF InitSweepsScope, procs, calls
  <2>1. BrokerOK' /\ ServerOK' /\ FaultsOK' /\ DogOK' /\ DogIsBehind'
    BY DEF BrokerOK, ServerOK, FaultsOK, DogOK, DogIsBehind
  <2>2. CallsOK'  BY DEF CallsOK, Kinds, InFlight
  <2>3. SessionOK'  BY DEF SessionOK
  <2>4. OthersUntouched(s)  BY DEF CallsOK, SessionOK, OthersUntouched, Untouched
  <2>5. SpawnOf(s)' /\ TreeOf(s)'  BY DEF CallsOK, SessionOK, SpawnOf, TreeOf, TableOf
  <2>6. TableOf(s)'  BY DEF CallsOK, SessionOK, SpawnOf, TreeOf, TableOf
  <2>7. CoveredOf(s)'  BY DEF CallsOK, SessionOK, DogOK, SpawnOf, TreeOf, TableOf, CoveredOf
  <2> QED BY <2>1, <2>2, <2>3, <2>4, <2>5, <2>6, <2>7, OneSession
<1>9. CASE RuntimeTightens(s)
  <2> USE <1>9 DEF RuntimeTightens, procs, calls
  <2>1. BrokerOK' /\ ServerOK' /\ FaultsOK' /\ DogOK' /\ DogIsBehind'
    BY DEF BrokerOK, ServerOK, FaultsOK, DogOK, DogIsBehind
  <2>2. CallsOK'  BY DEF CallsOK, Kinds, InFlight
  <2>3. SessionOK'  BY DEF SessionOK
  <2>4. OthersUntouched(s)  BY DEF CallsOK, SessionOK, OthersUntouched, Untouched
  <2>5. SpawnOf(s)' /\ TreeOf(s)'  BY DEF CallsOK, SessionOK, SpawnOf, TreeOf, TableOf
  <2>6. TableOf(s)'  BY DEF CallsOK, SessionOK, SpawnOf, TreeOf, TableOf
  <2>7. CoveredOf(s)'  BY DEF CallsOK, SessionOK, DogOK, SpawnOf, TreeOf, TableOf, CoveredOf
  <2> QED BY <2>1, <2>2, <2>3, <2>4, <2>5, <2>6, <2>7, OneSession
<1>10. CASE PipewireListens(s)
  <2> USE <1>10 DEF PipewireListens, procs, calls
  <2>1. BrokerOK' /\ ServerOK' /\ FaultsOK' /\ DogOK' /\ DogIsBehind'
    BY DEF BrokerOK, ServerOK, FaultsOK, DogOK, DogIsBehind
  <2>2. CallsOK'  BY DEF CallsOK, Kinds, InFlight
  <2>3. SessionOK'  BY DEF SessionOK
  <2>4. OthersUntouched(s)  BY DEF CallsOK, SessionOK, OthersUntouched, Untouched
  <2>5. SpawnOf(s)' /\ TreeOf(s)'  BY DEF CallsOK, SessionOK, SpawnOf, TreeOf, TableOf
  <2>6. TableOf(s)'  BY DEF CallsOK, SessionOK, SpawnOf, TreeOf, TableOf
  <2>7. CoveredOf(s)'  BY DEF CallsOK, SessionOK, DogOK, SpawnOf, TreeOf, TableOf, CoveredOf
  <2> QED BY <2>1, <2>2, <2>3, <2>4, <2>5, <2>6, <2>7, OneSession
<1>11. CASE TreeExits(s)
  <2> USE <1>11 DEF TreeExits, procs, calls
  <2>1. BrokerOK' /\ ServerOK' /\ FaultsOK' /\ DogOK' /\ DogIsBehind'
    BY DEF BrokerOK, ServerOK, FaultsOK, DogOK, DogIsBehind
  <2>2. CallsOK'  BY DEF CallsOK, Kinds, InFlight
  <2>3. SessionOK'  BY DEF SessionOK
  <2>4. OthersUntouched(s)  BY DEF CallsOK, SessionOK, OthersUntouched, Untouched
  <2>5. SpawnOf(s)' /\ TreeOf(s)'  BY DEF CallsOK, SessionOK, SpawnOf, TreeOf, TableOf
  <2>6. TableOf(s)'  BY DEF CallsOK, SessionOK, SpawnOf, TreeOf, TableOf
  <2>7. CoveredOf(s)'  BY DEF CallsOK, SessionOK, DogOK, SpawnOf, TreeOf, TableOf, CoveredOf
  <2> QED BY <2>1, <2>2, <2>3, <2>4, <2>5, <2>6, <2>7, OneSession
<1> QED BY <1>1, <1>2, <1>3, <1>4, <1>5, <1>6, <1>7, <1>8, <1>9, <1>10, <1>11 DEF InitStep

\* The steps of IsSessionAlive and TerminateSession, and the watchdog's kill.
LEMMA CallKeeps ==
  ASSUME IInv, NEW s \in Sids, \/ AskPeeks(s) \/ AskStep(s) \/ TerminateArrives(s)
                           \/ TermStep(s) \/ TerminateAll(s) \/ DogKills(s) \/ ServiceStops(s)
  PROVE  IInv'
<1> USE Parts DEF Late, Opened, Watched, BrokerSweep, BrokerRuns, watch
<1>1. CASE AskPeeks(s)
  <2> USE <1>1 DEF AskPeeks, procs, session
  <2>1. BrokerOK' /\ ServerOK' /\ FaultsOK' /\ DogOK' /\ DogIsBehind'
    BY DEF BrokerOK, ServerOK, FaultsOK, DogOK, DogIsBehind
  <2>2. CallsOK'  BY DEF CallsOK, Kinds, InFlight
  <2>3. SessionOK'  BY DEF SessionOK
  <2>4. OthersUntouched(s)  BY DEF CallsOK, SessionOK, OthersUntouched, Untouched
  <2>5. SpawnOf(s)' /\ TreeOf(s)'  BY DEF CallsOK, SessionOK, SpawnOf, TreeOf, TableOf
  <2>6. TableOf(s)'
    <3>1. CASE active[s] = "Pam"
      BY <3>1 DEF CallsOK, SessionOK, SpawnOf, TreeOf, TableOf
    <3>2. CASE active[s] = "DirectChild"
      BY <3>2 DEF CallsOK, SessionOK, SpawnOf, TreeOf, TableOf
    <3>3. CASE active[s] = "Scoped"
      BY <3>3 DEF CallsOK, SessionOK, SpawnOf, TreeOf, TableOf
    <3>4. CASE active[s] = "none"
      BY <3>4 DEF CallsOK, SessionOK, SpawnOf, TreeOf, TableOf
    <3> QED BY <3>1, <3>2, <3>3, <3>4 DEF CallsOK, Kinds
  <2>7. CoveredOf(s)'
    <3>1. CASE active[s] = "Pam"
      BY <3>1 DEF CallsOK, SessionOK, DogOK, SpawnOf, TreeOf, TableOf, CoveredOf
    <3>2. CASE active[s] = "DirectChild"
      BY <3>2 DEF CallsOK, SessionOK, DogOK, SpawnOf, TreeOf, TableOf, CoveredOf
    <3>3. CASE active[s] = "Scoped"
      BY <3>3 DEF CallsOK, SessionOK, DogOK, SpawnOf, TreeOf, TableOf, CoveredOf
    <3>4. CASE active[s] = "none"
      BY <3>4 DEF CallsOK, SessionOK, DogOK, SpawnOf, TreeOf, TableOf, CoveredOf
    <3> QED BY <3>1, <3>2, <3>3, <3>4 DEF CallsOK, Kinds
  <2> QED BY <2>1, <2>2, <2>3, <2>4, <2>5, <2>6, <2>7, OneSession
<1>2. CASE AskLooksUp(s)
  <2> USE <1>2 DEF AskLooksUp, procs, session
  <2>1. BrokerOK' /\ ServerOK' /\ FaultsOK' /\ DogOK' /\ DogIsBehind'
    BY FaultTypes DEF BrokerOK, ServerOK, DogOK, DogIsBehind
  <2>2. CallsOK'  BY DEF CallsOK, Kinds, InFlight
  <2>3. SessionOK'  BY DEF SessionOK
  <2>4. OthersUntouched(s)  BY DEF CallsOK, SessionOK, OthersUntouched, Untouched
  <2>5. SpawnOf(s)' /\ TreeOf(s)'  BY DEF CallsOK, SessionOK, SpawnOf, TreeOf, TableOf
  <2>6. TableOf(s)'  BY DEF CallsOK, SessionOK, SpawnOf, TreeOf, TableOf
  <2>7. CoveredOf(s)'  BY DEF CallsOK, SessionOK, DogOK, SpawnOf, TreeOf, TableOf, CoveredOf
  <2> QED BY <2>1, <2>2, <2>3, <2>4, <2>5, <2>6, <2>7, OneSession
<1>3. CASE AskStopsUnits(s)
  <2> USE <1>3 DEF AskStopsUnits, procs, session
  <2>1. BrokerOK' /\ ServerOK' /\ FaultsOK' /\ DogOK' /\ DogIsBehind'
    BY DEF BrokerOK, ServerOK, FaultsOK, DogOK, DogIsBehind
  <2>2. CallsOK'  BY DEF CallsOK, Kinds, InFlight
  <2>3. SessionOK'  BY DEF SessionOK
  <2>4. OthersUntouched(s)  BY DEF CallsOK, SessionOK, OthersUntouched, Untouched
  <2>5. SpawnOf(s)' /\ TreeOf(s)'  BY DEF CallsOK, SessionOK, SpawnOf, TreeOf, TableOf
  <2>6. TableOf(s)'  BY DEF CallsOK, SessionOK, SpawnOf, TreeOf, TableOf
  <2>7. CoveredOf(s)'  BY DEF CallsOK, SessionOK, DogOK, SpawnOf, TreeOf, TableOf, CoveredOf
  <2> QED BY <2>1, <2>2, <2>3, <2>4, <2>5, <2>6, <2>7, OneSession
<1>4. CASE TerminateArrives(s)
  <2> USE <1>4 DEF TerminateArrives, procs, Terminates
  <2>1. BrokerOK' /\ ServerOK' /\ FaultsOK' /\ DogOK' /\ DogIsBehind'
    BY DEF BrokerOK, ServerOK, FaultsOK, DogOK, DogIsBehind
  <2>2. CallsOK' /\ SessionOK'  BY TerminatesTypes
  <2>3. OthersUntouched(s)  BY DEF CallsOK, SessionOK, OthersUntouched, Untouched
  <2>4. SpawnOf(s)' /\ TreeOf(s)'  BY DEF CallsOK, SessionOK, SpawnOf, TreeOf, TableOf
  <2>5. TableOf(s)'  BY DEF CallsOK, SessionOK, SpawnOf, TreeOf, TableOf
  <2>6. CoveredOf(s)'  BY DEF CallsOK, SessionOK, DogOK, SpawnOf, TreeOf, TableOf, CoveredOf
  <2> QED BY <2>1, <2>2, <2>3, <2>4, <2>5, <2>6, OneSession
<1>5. CASE TerminateSignals(s)
  <2> USE <1>5 DEF TerminateSignals, procs
  <2>1. BrokerOK' /\ ServerOK' /\ FaultsOK' /\ DogOK' /\ DogIsBehind'
    BY FaultTypes DEF BrokerOK, ServerOK, DogOK, DogIsBehind
  <2>2. CallsOK'  BY DEF CallsOK, Kinds, InFlight
  <2>3. SessionOK'  BY DEF SessionOK
  <2>4. OthersUntouched(s)  BY DEF CallsOK, SessionOK, OthersUntouched, Untouched
  <2>5. SpawnOf(s)' /\ TreeOf(s)'  BY DEF CallsOK, SessionOK, SpawnOf, TreeOf, TableOf
  <2>6. TableOf(s)'  BY DEF CallsOK, SessionOK, SpawnOf, TreeOf, TableOf
  <2>7. CoveredOf(s)'  BY DEF CallsOK, SessionOK, DogOK, SpawnOf, TreeOf, TableOf, CoveredOf
  <2> QED BY <2>1, <2>2, <2>3, <2>4, <2>5, <2>6, <2>7, OneSession
<1>6. CASE TerminateWaits(s)
  <2> USE <1>6 DEF TerminateWaits, procs, session
  <2>1. BrokerOK' /\ ServerOK' /\ FaultsOK' /\ DogOK' /\ DogIsBehind'
    BY DEF BrokerOK, ServerOK, FaultsOK, DogOK, DogIsBehind
  <2>2. CallsOK'  BY DEF CallsOK, Kinds, InFlight
  <2>3. SessionOK'  BY DEF SessionOK
  <2>4. OthersUntouched(s)  BY DEF CallsOK, SessionOK, OthersUntouched, Untouched
  <2>5. SpawnOf(s)' /\ TreeOf(s)'  BY DEF CallsOK, SessionOK, SpawnOf, TreeOf, TableOf
  <2>6. TableOf(s)'  BY DEF CallsOK, SessionOK, SpawnOf, TreeOf, TableOf
  <2>7. CoveredOf(s)'  BY DEF CallsOK, SessionOK, DogOK, SpawnOf, TreeOf, TableOf, CoveredOf
  <2> QED BY <2>1, <2>2, <2>3, <2>4, <2>5, <2>6, <2>7, OneSession
<1>7. CASE TerminateKills(s)
  <2> USE <1>7 DEF TerminateKills, procs, KillSession
  <2>1. BrokerOK' /\ ServerOK' /\ FaultsOK' /\ DogOK' /\ DogIsBehind'
    BY FaultTypes DEF BrokerOK, ServerOK, DogOK, DogIsBehind
  <2>2. CallsOK'  BY DEF CallsOK, Kinds, InFlight
  <2>3. SessionOK'  BY KillTypes
  <2>4. OthersUntouched(s)  BY DEF CallsOK, SessionOK, OthersUntouched, Untouched
  <2>5. SpawnOf(s)' /\ TreeOf(s)'  BY DEF CallsOK, SessionOK, SpawnOf, TreeOf, TableOf
  <2>6. TableOf(s)'  BY DEF CallsOK, SessionOK, SpawnOf, TreeOf, TableOf
  <2>7. CoveredOf(s)'  BY DEF CallsOK, SessionOK, DogOK, SpawnOf, TreeOf, TableOf, CoveredOf
  <2> QED BY <2>1, <2>2, <2>3, <2>4, <2>5, <2>6, <2>7, OneSession
<1>8. CASE TerminateStopsUnits(s)
  <2> USE <1>8 DEF TerminateStopsUnits, procs, session
  <2>1. BrokerOK' /\ ServerOK' /\ FaultsOK' /\ DogOK' /\ DogIsBehind'
    BY DEF BrokerOK, ServerOK, FaultsOK, DogOK, DogIsBehind
  <2>2. CallsOK'  BY DEF CallsOK, Kinds, InFlight
  <2>3. SessionOK'  BY DEF SessionOK
  <2>4. OthersUntouched(s)  BY DEF CallsOK, SessionOK, OthersUntouched, Untouched
  <2>5. SpawnOf(s)' /\ TreeOf(s)'  BY DEF CallsOK, SessionOK, SpawnOf, TreeOf, TableOf
  <2>6. TableOf(s)'  BY DEF CallsOK, SessionOK, SpawnOf, TreeOf, TableOf
  <2>7. CoveredOf(s)'  BY DEF CallsOK, SessionOK, DogOK, SpawnOf, TreeOf, TableOf, CoveredOf
  <2> QED BY <2>1, <2>2, <2>3, <2>4, <2>5, <2>6, <2>7, OneSession
<1>9. CASE TerminateAll(s)
  <2> USE <1>9 DEF TerminateAll
  <2>1. BrokerOK' /\ ServerOK' /\ FaultsOK' /\ DogOK' /\ DogIsBehind'
    BY DEF BrokerOK, ServerOK, FaultsOK, DogOK, DogIsBehind
  <2>2. CallsOK' /\ SessionOK'
    <3>1. CASE active[s] = "none"
      BY <3>1, TerminatesTypes DEF CallsOK, SessionOK
    <3>2. CASE active[s] # "none"
      BY <3>2, TerminatesTypes DEF CallsOK, SessionOK
    <3> QED BY <3>1, <3>2
  <2>3. OthersUntouched(s)
    BY DEF CallsOK, SessionOK, OthersUntouched, Untouched, DogOK, BrokerOK, Terminates
  <2>4. SpawnOf(s)' /\ TreeOf(s)'
    <3>1. CASE active[s] = "none"
      BY <3>1 DEF CallsOK, SessionOK, SpawnOf, TreeOf, TableOf, Terminates
    <3>2. CASE active[s] # "none"
      BY <3>2 DEF CallsOK, SessionOK, SpawnOf, TreeOf, TableOf, Terminates
    <3> QED BY <3>1, <3>2
  <2>5. TableOf(s)'
    <3>1. CASE active[s] = "none"
      BY <3>1 DEF CallsOK, SessionOK, SpawnOf, TreeOf, TableOf, Terminates
    <3>2. CASE active[s] # "none"
      BY <3>2 DEF CallsOK, SessionOK, SpawnOf, TreeOf, TableOf, Terminates
    <3> QED BY <3>1, <3>2
  <2>6. CoveredOf(s)'
    <3>1. CASE active[s] = "none"
      BY <3>1 DEF CallsOK, SessionOK, DogOK, SpawnOf, TreeOf, TableOf, CoveredOf, Terminates, BrokerOK
    <3>2. CASE active[s] # "none"
      BY <3>2 DEF CallsOK, SessionOK, DogOK, SpawnOf, TreeOf, TableOf, CoveredOf, Terminates, BrokerOK
    <3> QED BY <3>1, <3>2
  <2> QED BY <2>1, <2>2, <2>3, <2>4, <2>5, <2>6, OneSession
<1>10. CASE DogKills(s)
  <2> USE <1>10 DEF DogKills, procs, calls, KillSession
  <2>1. BrokerOK' /\ ServerOK' /\ FaultsOK' /\ DogOK' /\ DogIsBehind'
    BY FaultTypes DEF BrokerOK, ServerOK, DogOK, DogIsBehind, SweepOf
  <2>2. CallsOK'  BY DEF CallsOK, Kinds, InFlight
  <2>3. SessionOK'  BY KillTypes
  <2>4. OthersUntouched(s)
    <3>1. ASSUME NEW x \in Sids, x # s, BrokerSweep(x) PROVE BrokerSweep(x)'
      BY <3>1 DEF DogOK, SweepOf
    <3>2. slipped \subseteq slipped'  OBVIOUS
    <3>3. ASSUME NEW x \in Sids, x # s
          PROVE  init'[x] = init[x] /\ logind'[x] = logind[x] /\ tree'[x] = tree[x]
      BY <3>3 DEF SessionOK
    <3>4. ASSUME NEW x \in Sids, x # s, Watched(x) PROVE Watched(x)'
      <4> HIDE DEF DogKills, BrokerSweep
      <4> QED BY <3>1, <3>2, <3>4
    <3>5. UNCHANGED <<fake, calls, pw, cred, acl>>  OBVIOUS
    <3> HIDE <1>10 DEF DogKills, Watched
    <3> QED BY <3>3, <3>4, <3>5 DEF OthersUntouched, Untouched
  <2>5. SpawnOf(s)' /\ TreeOf(s)'  BY DEF CallsOK, SessionOK, SpawnOf, TreeOf, TableOf
  <2>6. TableOf(s)'  BY DEF CallsOK, SessionOK, SpawnOf, TreeOf, TableOf
  <2>7. CoveredOf(s)'  BY DEF CallsOK, SessionOK, DogOK, SpawnOf, TreeOf, TableOf, CoveredOf, SweepOf
  <2> QED BY <2>1, <2>2, <2>3, <2>4, <2>5, <2>6, <2>7, OneSession
<1>11. CASE ServiceStops(s)
  <2> USE <1>11 DEF ServiceStops, procs, calls
  <2>1. BrokerOK' /\ ServerOK' /\ FaultsOK' /\ DogOK' /\ DogIsBehind'
    BY DEF BrokerOK, ServerOK, FaultsOK, DogOK, DogIsBehind
  <2>2. CallsOK'  BY DEF CallsOK, Kinds, InFlight
  <2>3. SessionOK'  BY DEF SessionOK
  <2>4. OthersUntouched(s)  BY DEF CallsOK, SessionOK, OthersUntouched, Untouched
  <2>5. SpawnOf(s)' /\ TreeOf(s)'  BY DEF CallsOK, SessionOK, SpawnOf, TreeOf, TableOf
  <2>6. TableOf(s)'  BY DEF CallsOK, SessionOK, SpawnOf, TreeOf, TableOf
  <2>7. CoveredOf(s)'  BY DEF CallsOK, SessionOK, DogOK, SpawnOf, TreeOf, TableOf, CoveredOf
  <2> QED BY <2>1, <2>2, <2>3, <2>4, <2>5, <2>6, <2>7, OneSession
<1> QED BY <1>1, <1>2, <1>3, <1>4, <1>5, <1>6, <1>7, <1>8, <1>9, <1>10, <1>11 DEF AskStep, TermStep

-----------------------------------------------------------------------------
(***************************************************************************)
(* The steps of the processes.                                             *)
(***************************************************************************)

\* A step that touches no session.
LEMMA NoSession ==
  ASSUME IInv, \A x \in Sids : Untouched(x), DogIsBehind',
         BrokerOK', ServerOK', FaultsOK', CallsOK', SessionOK', DogOK'
  PROVE  IInv'
<1>1. \A x \in Sids : LifeOf(x)'  BY KeepsLife DEF IInv, Life
<1>2. TypeOK'
  BY DEF TypeOK, BrokerOK, ServerOK, FaultsOK, CallsOK, SessionOK, DogOK
<1> QED BY <1>1, <1>2 DEF IInv, Life

\* The broker's end: what it was doing is lost, and the next instance differs.
LEMMA GoneKeeps ==
  ASSUME IInv, BrokerGone, FaultsOK'
  PROVE  IInv'
<1> USE Parts DEF BrokerGone
<1>1. BrokerOK' /\ ServerOK' /\ DogOK' /\ DogIsBehind'
  BY DEF BrokerOK, ServerOK, DogOK, DogIsBehind
<1>2. CallsOK'  BY DEF CallsOK, InFlight
<1>3. SessionOK'
  <2>1. cred' \in [Sids -> {"none", "listening", "gone"}]  BY DEF SessionOK
  <2>2. tree' \in [Sids -> BOOLEAN]  BY DEF SessionOK
  <2> QED BY <2>1, <2>2 DEF SessionOK
<1>4. ~BrokerRuns'  BY DEF BrokerRuns, BrokerOK
<1>5. ASSUME NEW s \in Sids PROVE LifeOf(s)'
  <2>1. SpawnOf(s)'  BY DEF SpawnOf, CallsOK, SessionOK, InFlight
  <2>2. TreeOf(s)'  BY DEF TreeOf, SessionOK
  <2>3. TableOf(s)'  BY DEF TableOf, CallsOK, SessionOK, InFlight
  <2>4. CoveredOf(s)'  BY <1>4 DEF CoveredOf, Watched, BrokerSweep
  <2> QED BY <2>1, <2>2, <2>3, <2>4 DEF LifeOf
<1>6. TypeOK'
  BY <1>1, <1>2, <1>3 DEF TypeOK, BrokerOK, ServerOK, FaultsOK, CallsOK, SessionOK, DogOK
<1> QED BY <1>1, <1>5, <1>6 DEF IInv, Life

\* After list-sessions every session that logind knows and that runs is listed,
\* or has slipped; a running session that logind does not know is closing, or a
\* child of the broker in the table.
LEMMA ListKeeps ==
  ASSUME IInv, UNCHANGED <<broker, server, fake, session, calls>>, FaultsOK', DogOK', DogIsBehind',
         \A s \in Sids : logind[s] # "none" /\ tree[s] => Watched(s)'
  PROVE  IInv'
<1> USE Parts
<1>1. ASSUME NEW s \in Sids PROVE LifeOf(s)'
  <2>1. SpawnOf(s)' /\ TreeOf(s)' /\ TableOf(s)'
    BY DEF SpawnOf, TreeOf, TableOf, session, calls
  <2>2. logind[s] = "none" => fake \/ ~tree[s] \/ init[s] = "closing"
    BY DEF TreeOf, Late
  <2>3. init[s] = "exited" => ~fake  BY DEF SpawnOf
  <2>4. CoveredOf(s)'  BY <2>2, <2>3 DEF CoveredOf, TableOf, session, calls
  <2> QED BY <2>1, <2>4 DEF LifeOf
<1>2. TypeOK'
  BY DEF TypeOK, BrokerOK, ServerOK, FaultsOK, CallsOK, SessionOK, DogOK, session, calls
<1> QED BY <1>1, <1>2 DEF IInv, Life

\* What a poll may read of a unit, whichever of its calls fail.
LEMMA ReadingTypes ==
  ASSUME NEW p, p.id \in 1..MaxStarts, NEW reading \in Readings(p)
  PROVE  /\ reading \in [active : BOOLEAN, id : 0..MaxStarts]
         /\ reading.id \in 0..MaxStarts /\ reading.id <= p.id
<1>1. {FALSE, p.pc # "down"} \subseteq BOOLEAN  OBVIOUS
<1>2. {0, p.id} \subseteq 0..MaxStarts  BY BrokerBounds DEF BrokerBounds
<1>3. reading \in [active : BOOLEAN, id : 0..MaxStarts] /\ reading.id \in {0, p.id}
  BY <1>1, <1>2 DEF Readings
<1> QED BY <1>3, BrokerBounds DEF BrokerBounds

\* The steps of broker and server as processes, and the watchdog's polls.
LEMMA ProcessKeeps ==
  ASSUME IInv, \/ BrokerCrashes \/ BrokerStops \/ BrokerExits \/ BrokerStarts
               \/ ServerCrashes \/ ServerStops \/ ServerExits \/ ServerStarts
               \/ DogReadsServer \/ DogReadsBroker \/ DogLists
  PROVE  IInv'
<1> USE Parts, BrokerBounds DEF BrokerBounds, Fault, watch
<1> DEFINE Typed == BrokerOK /\ ServerOK /\ FaultsOK /\ CallsOK /\ SessionOK /\ DogOK
<1>1. CASE BrokerCrashes
  <2>1. FaultsOK'  BY <1>1 DEF BrokerCrashes, FaultsOK, BrokerGone
  <2> QED BY <1>1, <2>1, GoneKeeps DEF BrokerCrashes
<1>2. CASE BrokerExits
  <2>1. FaultsOK'  BY <1>2 DEF BrokerExits, FaultsOK, BrokerGone
  <2> QED BY <1>2, <2>1, GoneKeeps DEF BrokerExits
<1>3. CASE BrokerStops
  <2> USE <1>3 DEF BrokerStops, session, calls
  <2>1. Typed' /\ DogIsBehind'
    BY DEF BrokerOK, ServerOK, FaultsOK, CallsOK, SessionOK, DogOK, DogIsBehind
  <2>2. \A x \in Sids : Untouched(x)  BY DEF Untouched, Watched, BrokerSweep, BrokerRuns, BrokerOK
  <2> QED BY <2>1, <2>2, NoSession
<1>4. CASE BrokerStarts
  <2> USE <1>4 DEF BrokerStarts, session, calls
  <2>1. Typed' /\ DogIsBehind' /\ dog.broker # broker'.id
    BY DEF BrokerOK, ServerOK, FaultsOK, CallsOK, SessionOK, DogOK, DogIsBehind
  <2>2. \A x \in Sids : Untouched(x)  BY <2>1 DEF Untouched, Watched, BrokerSweep
  <2> QED BY <2>1, <2>2, NoSession
<1>5. CASE ServerCrashes \/ ServerStops \/ ServerExits \/ ServerStarts
  <2> USE <1>5 DEF ServerCrashes, ServerStops, ServerExits, ServerStarts, session, calls
  <2>1. Typed' /\ DogIsBehind'
    BY DEF BrokerOK, ServerOK, FaultsOK, CallsOK, SessionOK, DogOK, DogIsBehind
  <2>2. \A x \in Sids : Untouched(x)  BY DEF Untouched, Watched, BrokerSweep, BrokerRuns
  <2> QED BY <2>1, <2>2, NoSession
<1>6. CASE DogReadsServer
  <2> USE <1>6 DEF DogReadsServer, session, calls
  <2>1. PICK reading \in Readings(server) :
          Reads(server, reading) /\ dog' = [dog EXCEPT !.pc = "read", !.now = reading]
    OBVIOUS
  <2>2. FaultsOK'  BY <2>1, FaultTypes DEF Reads
  <2>3. reading \in [active : BOOLEAN, id : 0..MaxStarts]
    <3>1. server.id \in 1..MaxStarts  BY DEF ServerOK
    <3> QED BY <2>1, <3>1, ReadingTypes
  <2>4. DogOK' /\ dog.pc = "sleep" /\ dog'.broker = dog.broker  BY <2>1, <2>3 DEF DogOK
  <2>5. BrokerOK' /\ ServerOK' /\ CallsOK' /\ SessionOK' /\ DogIsBehind'
    BY <2>4 DEF BrokerOK, ServerOK, CallsOK, SessionOK, DogIsBehind
  <2>6. \A x \in Sids : Untouched(x)  BY <2>4 DEF Untouched, Watched, BrokerSweep, BrokerRuns
  <2> QED BY <2>2, <2>4, <2>5, <2>6, NoSession
<1>7. CASE DogReadsBroker
  <2> DEFINE listed(reading) == CrashedSince(dog.now, dog.server) \/ CrashedSince(reading, dog.broker)
  <2>1. PICK reading \in Readings(broker) :
          /\ Reads(broker, reading)
          /\ dog' = [dog EXCEPT !.pc = IF listed(reading) THEN "list" ELSE "sleep",
                       !.now = NoReading, !.server = dog.now.id, !.broker = reading.id]
    BY <1>7 DEF DogReadsBroker
  <2>2. dog.pc = "read" /\ UNCHANGED <<broker, server, fake, session, calls, slipped>>
    BY <1>7 DEF DogReadsBroker
  <2>3. reading.id \in 0..MaxStarts /\ reading.id <= broker.id
    <3>1. broker.id \in 1..MaxStarts  BY DEF BrokerOK
    <3> QED BY <2>1, <3>1, ReadingTypes
  <2>4. dog.broker # broker.id => listed(reading) \/ reading.id # broker.id
    BY DEF CrashedSince
  <2> HIDE DEF listed
  <2>5. dog'.pc = (IF listed(reading) THEN "list" ELSE "sleep") /\ dog'.broker = reading.id
    BY <2>1 DEF DogOK
  <2>6. DogOK' /\ DogIsBehind'
    <3>1. NoReading \in [active : BOOLEAN, id : 0..MaxStarts]  BY DEF NoReading
    <3>2. dog.now.id \in 0..MaxStarts  BY DEF DogOK
    <3>3. DogOK'  BY <2>1, <2>2, <2>3, <3>1, <3>2 DEF DogOK
    <3> QED BY <2>2, <2>3, <2>5, <3>3 DEF DogIsBehind
  <2>7. BrokerOK' /\ ServerOK' /\ FaultsOK' /\ CallsOK' /\ SessionOK'
    BY <2>1, <2>2, FaultTypes DEF Reads, BrokerOK, ServerOK, CallsOK, SessionOK, session, calls
  <2>8. \A x \in Sids : Untouched(x)
    BY <2>2, <2>4, <2>5 DEF Untouched, Watched, BrokerSweep, BrokerRuns, session, calls
  <2> QED BY <2>6, <2>7, <2>8, NoSession
<1>8. CASE DogLists
  <2>1. UNCHANGED <<broker, server, fake, session, calls>> /\ dog.pc = "list"
    BY <1>8 DEF DogLists
  <2>2. CASE dog' = [dog EXCEPT !.pc = SweepOf(KnownToLogind), !.todo = KnownToLogind]
             /\ slipped' = {} /\ UNCHANGED faults
    <3>1. DogOK' /\ DogIsBehind'
      BY <2>1, <2>2 DEF DogOK, DogIsBehind, KnownToLogind, SweepOf
    <3>2. ASSUME NEW s \in Sids, logind[s] # "none" PROVE BrokerSweep(s)'
      BY <2>2, <3>2 DEF DogOK, BrokerSweep, KnownToLogind, SweepOf
    <3>3. FaultsOK'  BY <2>1, <2>2 DEF FaultsOK
    <3> QED BY <2>1, <3>1, <3>2, <3>3, ListKeeps DEF Watched
  <2>3. CASE /\ Fault /\ dog' = [dog EXCEPT !.pc = "sleep"]
             /\ slipped' = slipped \cup {s \in KnownToLogind : tree[s]}
    <3>1. DogOK' /\ DogIsBehind'  BY <2>1, <2>3 DEF DogOK, DogIsBehind, KnownToLogind
    <3>2. ASSUME NEW s \in Sids, logind[s] # "none", tree[s] PROVE s \in slipped'
      BY <2>3, <3>2 DEF KnownToLogind
    <3>3. FaultsOK'  BY <2>1, <2>3 DEF FaultsOK
    <3> QED BY <2>1, <3>1, <3>2, <3>3, ListKeeps DEF Watched
  <2> QED BY <1>8, <2>2, <2>3 DEF DogLists
<1> QED BY <1>1, <1>2, <1>3, <1>4, <1>5, <1>6, <1>7, <1>8

-----------------------------------------------------------------------------
(***************************************************************************)
(* The theorems.                                                           *)
(***************************************************************************)

LEMMA InitHolds == Init => IInv
<1> SUFFICES ASSUME Init PROVE IInv
  OBVIOUS
<1>1. TypeOK
  <2>1. 1 \in 1..MaxStarts /\ 1 \in 0..MaxStarts /\ 0 \in 0..MaxStarts /\ 0 \in 0..MaxFaults
    BY BrokerBounds DEF BrokerBounds
  <2> QED BY <2>1 DEF Init, TypeOK, NoReading
<1>2. Life
  BY DEF Init, Life, LifeOf, SpawnOf, TreeOf, TableOf, CoveredOf
<1>3. DogIsBehind  BY DEF Init, DogIsBehind
<1> QED BY <1>1, <1>2, <1>3 DEF IInv

LEMMA StepKeeps == IInv /\ [Next]_vars => IInv'
<1> SUFFICES ASSUME IInv, [Next]_vars PROVE IInv'
  OBVIOUS
<1>1. CASE Next
  BY <1>1, SpawnKeeps, SessionKeeps, CallKeeps, ProcessKeeps DEF Next, DogStep, AskStep
<1>2. CASE UNCHANGED vars
  BY <1>2 DEF IInv, TypeOK, Life, LifeOf, SpawnOf, TreeOf, TableOf, CoveredOf, BrokerSweep,
              BrokerRuns, Watched, DogIsBehind, vars, procs, session, calls, watch
<1> QED BY <1>1, <1>2

LEMMA InvariantHolds == Spec => []IInv
BY InitHolds, StepKeeps, PTL DEF Spec

\* Every variable of broker, server, session and watchdog keeps its type.
THEOREM TypesHold == Spec => []TypeOK
<1>1. IInv => TypeOK  BY DEF IInv
<1> QED BY <1>1, InvariantHolds, PTL

\* A compositor tree that no table, request or closing parent accounts for is
\* one the watchdog has yet to look for, a spawn that failed or was lost with its
\* broker, or one that a failed call let slip: a list-sessions, show-session or
\* kill-session of the sweep, a terminate's kill-session, or a unit's stop that
\* had to kill session-init.  The stretches between the broker's lock, its calls
\* of systemd and the watchdog's readings leave no other.
THEOREM NoTreeForgotten == Spec => []NoSilentOrphan
<1>1. IInv => NoSilentOrphan
  <2> SUFFICES ASSUME IInv, NEW s \in Sids, Orphan(s), job[s] \notin {"failed", "lost"}
               PROVE  SweepComing(s) \/ s \in slipped
    BY DEF NoSilentOrphan
  <2>1. job[s] = "ok"
    BY Parts DEF CallsOK, Orphan, SpawnOf
  <2>2. Watched(s)  BY <2>1, Parts DEF Orphan, CoveredOf
  <2> QED BY <2>2 DEF Watched, BrokerSweep, SweepComing
<1> QED BY <1>1, InvariantHolds, PTL

\* The server's access to the PipeWire socket of a session that the broker
\* reported as spawned is never masked out by the session's own chmod.
THEOREM GrantsSurvive == Spec => []GrantSurvives
<1>1. IInv => GrantSurvives
  BY Parts DEF GrantSurvives, SpawnOf, TreeOf, TableOf, Late
<1> QED BY <1>1, InvariantHolds, PTL
===============================================================================
