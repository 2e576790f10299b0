---------------------- MODULE SessionManagerKeysProofs ----------------------
(***************************************************************************)
(* Proof that the rikey of every attached session is registered, for every *)
(* value of the constants.  A rikey is forgotten wherever a session is     *)
(* released, reaped, logged out or taken over, and each of these sites     *)
(* must hit no rikey that another session, or a handoff in flight, still   *)
(* needs.  That rests on rikeys being apart (KeysApart) and on no two      *)
(* sessions or handoffs having one origin (OneBearer).                     *)
(***************************************************************************)
EXTENDS SessionManagerProofs

USE DEF Gens, Tasks

\* Program points of a /launch whose rikey no session has yet.
FreshPcs == {"launch.wait", "launch.replace", "launch.spawn"}

\* Program points at which a task is about to put the session it owns into a slot.
AttachPcs == {"launch.insert", "play.fresh", "play.retake", "handoff.start"}

\* k is registered, or a retried /launch is about to register it.
Registering(k) == k \in registry \/ \E t \in Requests : pc[t] = "launch.adopt" /\ rk[t] = k

\* The session with this origin is attached, or on its way to a slot.
Obliged(o) ==
  \/ \E c \in Clients : ses[c] # 0 /\ origin[ses[c]] = o
  \/ \E x \in Tasks : pc[x] \in AttachPcs /\ origin[held[x]] = o
  \/ \E x \in Tasks : pc[x] \in CarryPcs /\ ref[x] = o

\* Each rikey is used by one origin, or by one /launch that has not made its session.
KeysApart ==
  /\ \A g \in Gens : key[g] < nextKey
  /\ \A x \in Tasks : rk[x] < nextKey
  /\ \A g, h \in Gens : key[g] # 0 /\ key[g] = key[h] => g = h
  /\ \A t \in Requests, g \in Gens : pc[t] \in FreshPcs => key[g] # rk[t]
  /\ \A t, u \in Requests : pc[t] \in FreshPcs /\ pc[u] \in FreshPcs /\ rk[t] = rk[u] => t = u
  /\ \A x \in Tasks : pc[x] = "launch.register" => key[origin[held[x]]] = rk[x]

Registered == \A o \in Gens : Obliged(o) => Registering(key[o])

KInv == KeysApart /\ Registered

-----------------------------------------------------------------------------
\* What is attached or owned is alive, and has the origin of some login stage.
LEMMA Owners ==
  ASSUME IInv
  PROVE  /\ \A c \in Clients : ses[c] # 0 =>
              /\ ses[c] \in Gens /\ fate[ses[c]] = "live" /\ origin[ses[c]] \in Gens
         /\ \A x \in Tasks : held[x] # 0 =>
              /\ held[x] \in Gens /\ fate[held[x]] = "live" /\ origin[held[x]] \in Gens
         /\ \A x \in Tasks : pc[x] \in HoldPcs => held[x] # 0
         /\ \A x \in Tasks : pc[x] \in CarryPcs => ref[x] \in Gens
<1>1. \A c \in Clients : ses[c] # 0 => ses[c] \in Gens /\ fate[ses[c]] = "live"
  BY Parts, SomeSession DEF TypeOK, OwnedIsLive
<1>2. \A x \in Tasks : held[x] # 0 => held[x] \in Gens /\ fate[held[x]] = "live"
  BY Parts, SomeSession DEF TypeOK, OwnedIsLive
<1>3. \A g \in Gens : fate[g] = "live" => origin[g] \in Gens  BY Parts DEF Lineage
<1>4. \A x \in Tasks : /\ pc[x] \in HoldPcs => held[x] # 0
                       /\ pc[x] \in CarryPcs => ref[x] \in Gens
  BY Parts DEF Hands, HandsOf
<1> QED BY <1>1, <1>2, <1>3, <1>4

\* Only rikeys of launches are registered or about to be.
LEMMA RegisteringIsKey == ASSUME IInv, NEW k, Registering(k) PROVE k \in Keys
<1>1. \A t \in Requests : pc[t] = "launch.adopt" => rk[t] \in Keys
  BY Parts, RequestsAndWatchers DEF Hands, HandsOf, LaunchPcs
<1> QED BY <1>1, Parts DEF Registering, TypeOK

\* Forgetting the rikey of one origin leaves those of the others.
LEMMA ForgetsOne ==
  ASSUME IInv, KInv, NEW s \in Gens, NEW o \in Gens, Obliged(o), o # s
  PROVE  key[o] # key[s]
<1>1. key[o] \in Keys  BY RegisteringIsKey DEF KInv, Registered
<1>2. key[o] # 0  BY <1>1, ConstantsAssumption DEF Keys, ConstantsAssumption
<1> QED BY <1>2 DEF KInv, KeysApart

\* A session that a task owns, and is not about to attach, has an origin nobody needs.
LEMMA HeldIsFree ==
  ASSUME IInv, NEW x \in Tasks, held[x] # 0, pc[x] \notin AttachPcs
  PROVE  ~Obliged(origin[held[x]])
<1>1. held[x] \in Gens /\ fate[held[x]] = "live"  BY Owners
<1>2. ASSUME NEW c \in Clients, ses[c] # 0, origin[ses[c]] = origin[held[x]] PROVE FALSE
  <2>1. ses[c] \in Gens /\ fate[ses[c]] = "live"  BY <1>2, Owners
  <2>2. ses[c] = held[x]  BY <1>1, <1>2, <2>1, Parts DEF OneBearer
  <2> QED BY <1>2, <2>2, Parts DEF OneHome
<1>3. ASSUME NEW y \in Tasks, pc[y] \in AttachPcs, origin[held[y]] = origin[held[x]] PROVE FALSE
  <2>1. held[y] # 0  BY <1>3, Owners DEF AttachPcs, HoldPcs
  <2>2. held[y] \in Gens /\ fate[held[y]] = "live"  BY <2>1, Owners
  <2>3. held[y] = held[x]  BY <1>1, <1>3, <2>2, Parts DEF OneBearer
  <2> QED BY <1>3, <2>1, <2>3, Parts DEF OneHome
<1>4. ASSUME NEW y \in Tasks, pc[y] \in CarryPcs, ref[y] = origin[held[x]] PROVE FALSE
  BY <1>1, <1>4, Parts DEF OneBearer
<1> QED BY <1>2, <1>3, <1>4 DEF Obliged

\* The origin of a slot's session is needed by nobody but that slot.
LEMMA SlotIsTheOnlyNeed ==
  ASSUME IInv, NEW c \in Clients, ses[c] # 0
  PROVE  /\ \A d \in Clients : d # c /\ ses[d] # 0 => origin[ses[d]] # origin[ses[c]]
         /\ \A y \in Tasks : held[y] # 0 => origin[held[y]] # origin[ses[c]]
         /\ \A y \in Tasks : pc[y] \in CarryPcs => ref[y] # origin[ses[c]]
<1>1. ses[c] \in Gens /\ fate[ses[c]] = "live"  BY Owners
<1>2. \A d \in Clients : d # c /\ ses[d] # 0 => origin[ses[d]] # origin[ses[c]]
  BY <1>1, Owners, Parts DEF OneBearer, OneHome
<1>3. \A y \in Tasks : held[y] # 0 => origin[held[y]] # origin[ses[c]]
  BY <1>1, Owners, Parts DEF OneBearer, OneHome
<1>4. \A y \in Tasks : pc[y] \in CarryPcs => ref[y] # origin[ses[c]]
  BY <1>1, Parts DEF OneBearer
<1> QED BY <1>2, <1>3, <1>4

\* A task other than the one that moves: its variables stay; a watcher may be started.
Bystands(y) ==
  /\ held'[y] = held[y] /\ ref'[y] = ref[y] /\ rk'[y] = rk[y]
  /\ pc'[y] = pc[y] \/ (y \in Gens /\ pc'[y] \in {"login.watch", "user.tick"})

\* A step that changes no rikey and no origin.
LEMMA KeysStay ==
  ASSUME IInv, KeysApart, UNCHANGED <<key, nextKey, origin>>, NEW x \in Tasks,
         \A y \in Tasks : y # x => Bystands(y),
         rk'[x] \in {rk[x], 0}, pc'[x] # "launch.register",
         pc'[x] \in FreshPcs => pc[x] \in FreshPcs /\ rk'[x] = rk[x]
  PROVE  KeysApart'
<1>1. 0 < nextKey  BY Parts, ConstantsAssumption DEF TypeOK, ConstantsAssumption
<1>2. \A y \in Tasks : rk'[y] < nextKey  BY <1>1 DEF KeysApart, Bystands
<1>3. \A t \in Requests : pc'[t] \in FreshPcs => pc[t] \in FreshPcs /\ rk'[t] = rk[t]
  <2>1. \A g \in Gens : g \notin Requests  BY ConstantsAssumption DEF ConstantsAssumption
  <2> QED BY <2>1 DEF Bystands
<1>4. \A y \in Tasks : pc'[y] = "launch.register" =>
         pc[y] = "launch.register" /\ held'[y] = held[y] /\ rk'[y] = rk[y]
  BY DEF Bystands
<1> QED BY <1>2, <1>3, <1>4 DEF KeysApart

\* What keeps a registration: the rikey stays in the registry, and a pending adoption by
\* another task stays pending.
LEMMA RegistrationStays ==
  ASSUME NEW x \in Tasks, \A y \in Tasks : y # x => Bystands(y), pc[x] # "launch.adopt",
         NEW k, Registering(k), k \in registry => k \in registry'
  PROVE  k \in registry' \/ \E t \in Requests : pc'[t] = "launch.adopt" /\ rk'[t] = k
<1>1. CASE k \in registry  BY <1>1 DEF Registering
<1>2. CASE k \notin registry
  <2>1. PICK t \in Requests : pc[t] = "launch.adopt" /\ rk[t] = k  BY <1>2 DEF Registering
  <2>2. pc'[t] = "launch.adopt" /\ rk'[t] = k
    BY <2>1, ConstantsAssumption DEF Bystands, ConstantsAssumption
  <2> QED BY <2>2
<1> QED BY <1>1, <1>2

\* Nothing new has to be registered by a step that attaches only what was being attached.
LEMMA NoNewNeed ==
  ASSUME IInv, origin' = origin, NEW x \in Tasks,
         \A y \in Tasks : y # x => Bystands(y),
         \A c \in Clients :
           ses'[c] \in {ses[c], 0} \/ (ses'[c] = held[x] /\ pc[x] \in AttachPcs),
         pc'[x] \in AttachPcs => Obliged(origin[held'[x]]),
         pc'[x] \in CarryPcs => Obliged(ref'[x]),
         NEW o \in Gens, Obliged(o)'
  PROVE  Obliged(o)
<1>1. CASE \E c \in Clients : ses'[c] # 0 /\ origin[ses'[c]] = o  BY <1>1 DEF Obliged
<1>2. CASE \E y \in Tasks : pc'[y] \in AttachPcs /\ origin[held'[y]] = o
  <2>1. PICK y \in Tasks : pc'[y] \in AttachPcs /\ origin[held'[y]] = o  BY <1>2
  <2>2. CASE y = x  BY <2>1, <2>2
  <2>3. CASE y # x
    <3>1. pc[y] \in AttachPcs /\ held'[y] = held[y]  BY <2>1, <2>3 DEF Bystands, AttachPcs
    <3> QED BY <2>1, <3>1 DEF Obliged
  <2> QED BY <2>2, <2>3
<1>3. CASE \E y \in Tasks : pc'[y] \in CarryPcs /\ ref'[y] = o
  <2>1. PICK y \in Tasks : pc'[y] \in CarryPcs /\ ref'[y] = o  BY <1>3
  <2>2. CASE y = x  BY <2>1, <2>2
  <2>3. CASE y # x
    <3>1. pc[y] \in CarryPcs /\ ref'[y] = ref[y]  BY <2>1, <2>3 DEF Bystands, CarryPcs
    <3> QED BY <2>1, <3>1 DEF Obliged
  <2> QED BY <2>2, <2>3
<1> QED BY <1>1, <1>2, <1>3 DEF Obliged

\* A step that changes no rikey and no origin, and forgets no rikey that is still needed.
LEMMA KStep ==
  ASSUME IInv, KInv, UNCHANGED <<key, nextKey, origin>>, NEW x \in Tasks,
         \A y \in Tasks : y # x => Bystands(y),
         rk'[x] \in {rk[x], 0}, pc[x] # "launch.adopt", pc'[x] # "launch.register",
         pc'[x] \in FreshPcs => pc[x] \in FreshPcs /\ rk'[x] = rk[x],
         \A c \in Clients :
           ses'[c] \in {ses[c], 0} \/ (ses'[c] = held[x] /\ pc[x] \in AttachPcs),
         pc'[x] \in AttachPcs => Obliged(origin[held'[x]]),
         pc'[x] \in CarryPcs => Obliged(ref'[x]),
         \A o \in Gens : Obliged(o) /\ Obliged(o)' /\ key[o] \in registry => key[o] \in registry'
  PROVE  KInv'
<1>1. KeysApart'  BY KeysStay DEF KInv
<1>2. ASSUME NEW o \in Gens, Obliged(o)' PROVE Registering(key[o])'
  <2>1. Obliged(o)  BY <1>2, NoNewNeed
  <2>2. Registering(key[o])  BY <2>1 DEF KInv, Registered
  <2>3. key[o] \in registry => key[o] \in registry'  BY <1>2, <2>1
  <2>4. PICK k : k = key[o]  OBVIOUS
  <2>5. k \in registry' \/ \E t \in Requests : pc'[t] = "launch.adopt" /\ rk'[t] = k
    BY <2>2, <2>3, <2>4, RegistrationStays
  <2> QED BY <2>4, <2>5 DEF Registering
<1> QED BY <1>1, <1>2 DEF KInv, Registered

\* The same for a step of x alone that attaches nothing, and leaves the registry alone.
LEMMA KQuiet ==
  ASSUME IInv, KInv, UNCHANGED <<key, nextKey, origin, registry>>, NEW x \in Tasks,
         \A y \in Tasks : y # x => Same(y),
         rk'[x] \in {rk[x], 0}, pc[x] # "launch.adopt", pc'[x] # "launch.register",
         pc'[x] \in FreshPcs => pc[x] \in FreshPcs /\ rk'[x] = rk[x],
         \A c \in Clients : ses'[c] \in {ses[c], 0},
         pc'[x] \in AttachPcs => Obliged(origin[held'[x]]),
         pc'[x] \in CarryPcs => Obliged(ref'[x])
  PROVE  KInv'
<1>1. \A y \in Tasks : y # x => Bystands(y)  BY DEF Same, Bystands
<1> QED BY <1>1, KStep

\* The same for a step after which x is at rest.
LEMMA KReturn ==
  ASSUME IInv, KInv, UNCHANGED <<key, nextKey, origin>>, NEW x \in Tasks, Return(x),
         pc[x] # "launch.adopt",
         \A c \in Clients :
           ses'[c] \in {ses[c], 0} \/ (ses'[c] = held[x] /\ pc[x] \in AttachPcs),
         \A o \in Gens : Obliged(o) /\ Obliged(o)' /\ key[o] \in registry => key[o] \in registry'
  PROVE  KInv'
<1>1. pc'[x] \in {"idle", "stopped"} /\ \A y \in Tasks : y # x => Same(y)
  BY Parts, ReturnEffect
<1>2. rk'[x] = 0  BY Parts DEF Return, TypeOK
<1>3. \A y \in Tasks : y # x => Bystands(y)  BY <1>1 DEF Same, Bystands
<1>4. pc'[x] # "launch.register" /\ pc'[x] \notin FreshPcs \cup AttachPcs \cup CarryPcs
  BY <1>1 DEF FreshPcs, AttachPcs, CarryPcs
<1> QED BY <1>2, <1>3, <1>4, KStep

\* start_streaming of a session that keeps its origin.
LEMMA KStarts ==
  ASSUME IInv, KInv, UNCHANGED <<key, nextKey, origin, registry>>, NEW x \in Tasks,
         pc[x] \in AttachPcs, NEW c, StartStreaming(x, held[x], c, TRUE)
  PROVE  KInv'
<1>1. ses \in [Clients -> 0..MaxGen] /\ held \in [Tasks -> 0..MaxGen]
      /\ ref \in [Tasks -> 0..MaxGen]
  BY Parts DEF TypeOK
<1>2. \A d \in Clients : ses'[d] = ses[d] \/ ses'[d] = held[x]
  BY <1>1 DEF StartStreaming, PutSlot
<1>3. held[x] \in Gens  BY Owners DEF AttachPcs, HoldPcs
<1>4. \A y \in Tasks : y # x => Bystands(y)
  BY <1>1, <1>3 DEF StartStreaming, Bystands
<1>5. pc'[x] \in {"idle", "stopped"} /\ rk' = rk
  BY RestPcs DEF StartStreaming
<1>6. pc'[x] # "launch.register" /\ pc'[x] \notin FreshPcs \cup AttachPcs \cup CarryPcs
  BY <1>5 DEF FreshPcs, AttachPcs, CarryPcs
<1>7. pc[x] # "launch.adopt"  BY DEF AttachPcs
<1> QED BY <1>2, <1>4, <1>5, <1>6, <1>7, KStep

-----------------------------------------------------------------------------
(* The steps of /launch *)

\* A new rikey is above every other.
LEMMA LaunchArrivesKeys ==
  ASSUME IInv, KInv, NEW t \in Requests, NEW c \in Clients, LaunchArrives(t, c) PROVE KInv'
<1>1. t \in Tasks /\ pc[t] = "idle"  BY DEF LaunchArrives
<1>2. UNCHANGED <<key, origin, registry, ref>> /\ nextKey' = nextKey + 1 /\ nextKey \in Keys
  BY DEF LaunchArrives, origins
<1>3. rk'[t] = nextKey /\ \A y \in Tasks : y # t => rk'[y] = rk[y]
  BY <1>1, Parts DEF LaunchArrives, TypeOK
<1>4. pc'[t] \in FreshPcs /\ \A y \in Tasks : y # t => pc'[y] = pc[y]
  BY <1>1, Parts DEF LaunchArrives, ClaimSlot, Goto, TypeOK, FreshPcs
<1>5. \A y \in Tasks : y # t => held'[y] = held[y]
  BY <1>1, Parts DEF LaunchArrives, ClaimSlot, TypeOK
<1>6. \A d \in Clients : ses'[d] \in {ses[d], 0}
  BY Parts DEF LaunchArrives, ClaimSlot, TypeOK, slots
<1>7. /\ key \in [Gens -> 0..MaxLaunches] /\ rk \in [Tasks -> 0..MaxLaunches]
      /\ nextKey \in Nat /\ MaxLaunches \in Nat
  BY <1>2, Parts, ConstantsAssumption DEF TypeOK, Keys, ConstantsAssumption
<1>8. KeysApart'
  <2>1. /\ \A g \in Gens : key[g] < nextKey /\ key[g] \in Nat
        /\ \A y \in Tasks : rk[y] < nextKey /\ rk[y] \in Nat
    BY <1>7 DEF KInv, KeysApart
  <2>2. \A g \in Gens : key'[g] < nextKey'  BY <1>2, <1>7, <2>1
  <2>3. \A y \in Tasks : rk'[y] < nextKey'  BY <1>2, <1>3, <1>7, <2>1
  <2>4. \A g, h \in Gens : key'[g] # 0 /\ key'[g] = key'[h] => g = h
    BY <1>2 DEF KInv, KeysApart
  <2>5. ASSUME NEW u \in Requests, NEW g \in Gens, pc'[u] \in FreshPcs
        PROVE  key'[g] # rk'[u]
    <3>1. CASE u = t  BY <1>2, <1>3, <1>7, <2>1, <3>1
    <3>2. CASE u # t  BY <1>2, <1>3, <1>4, <2>5, <3>2 DEF KInv, KeysApart
    <3> QED BY <3>1, <3>2
  <2>6. ASSUME NEW u \in Requests, NEW v \in Requests,
               pc'[u] \in FreshPcs, pc'[v] \in FreshPcs, rk'[u] = rk'[v]
        PROVE  u = v
    <3>1. CASE u # t /\ v # t  BY <1>3, <1>4, <2>6, <3>1 DEF KInv, KeysApart
    <3>2. CASE u = t \/ v = t
      <4>1. \A y \in Tasks : y # t => rk'[y] # nextKey  BY <1>3, <1>7, <2>1
      <4> QED BY <1>3, <2>6, <3>2, <4>1
    <3> QED BY <3>1, <3>2
  <2>7. ASSUME NEW y \in Tasks, pc'[y] = "launch.register"
        PROVE  key'[origin'[held'[y]]] = rk'[y]
    <3>1. y # t  BY <1>4, <2>7 DEF FreshPcs
    <3> QED BY <1>2, <1>3, <1>4, <1>5, <2>7, <3>1 DEF KInv, KeysApart
  <2> QED BY <2>2, <2>3, <2>4, <2>5, <2>6, <2>7 DEF KeysApart
<1>9. ASSUME NEW o \in Gens, Obliged(o)' PROVE Registering(key[o])'
  <2>1. \A y \in Tasks : y # t => Bystands(y)  BY <1>2, <1>3, <1>4, <1>5 DEF Bystands
  <2>2. pc'[t] \notin AttachPcs \cup CarryPcs  BY <1>4 DEF FreshPcs, AttachPcs, CarryPcs
  <2>3. Obliged(o)  BY <1>1, <1>2, <1>6, <1>9, <2>1, <2>2, NoNewNeed
  <2>4. PICK k : k = key[o]  OBVIOUS
  <2>5. Registering(k)  BY <2>3, <2>4 DEF KInv, Registered
  <2>6. pc[t] # "launch.adopt" /\ (k \in registry => k \in registry')  BY <1>1, <1>2
  <2>7. k \in registry' \/ \E u \in Requests : pc'[u] = "launch.adopt" /\ rk'[u] = k
    BY <1>1, <2>1, <2>5, <2>6, RegistrationStays
  <2> QED BY <1>2, <2>4, <2>7 DEF Registering
<1> QED BY <1>8, <1>9 DEF KInv, Registered

\* The retried launch gives its rikey to the session of its slot, or claims the slot.
LEMMA LaunchWakesKeys ==
  ASSUME IInv, KInv, NEW t \in Requests, LaunchWakes(t) PROVE KInv'
<1>1. t \in Tasks /\ pc[t] = "launch.wait" /\ HandsOf(t)
  BY Parts DEF LaunchWakes, Hands
<1>2. cl[t] \in Clients /\ rk[t] \in Keys /\ rk[t] # 0
  BY <1>1, ConstantsAssumption DEF HandsOf, ClientPcs, LaunchPcs, Keys, ConstantsAssumption
<1>3. UNCHANGED <<nextKey, origin, registry, rk, ref>>
  BY DEF LaunchWakes, manager
<1>4. CASE ses[cl[t]] = 0 /\ ClaimSlot(t, cl[t]) /\ UNCHANGED key
  <2>1. pc'[t] \in {"launch.spawn", "launch.replace"}
    BY <1>1, <1>4, Parts DEF ClaimSlot, Goto, TypeOK
  <2>2. pc'[t] \in FreshPcs /\ pc[t] \in FreshPcs /\ pc'[t] \notin AttachPcs \cup CarryPcs
    BY <1>1, <2>1 DEF FreshPcs, AttachPcs, CarryPcs
  <2>3. \A y \in Tasks : y # t => Bystands(y)
    BY <1>1, <1>3, <1>4, Parts DEF ClaimSlot, Goto, TypeOK, Bystands
  <2>4. \A d \in Clients : ses'[d] \in {ses[d], 0}  BY <1>4, Parts DEF ClaimSlot, TypeOK
  <2> QED BY <1>1, <1>3, <1>4, <2>1, <2>2, <2>3, <2>4, KStep
<1>5. CASE /\ ses[cl[t]] # 0
           /\ key' = [key EXCEPT ![origin[ses[cl[t]]]] = rk[t]]
           /\ Goto(t, "launch.adopt")
           /\ UNCHANGED <<slots, held, us>>
  <2> DEFINE s == ses[cl[t]]
             p == origin[s]
  <2>1. p \in Gens  BY <1>2, <1>5, Owners
  <2>2. key'[p] = rk[t] /\ \A g \in Gens : g # p => key'[g] = key[g]
    BY <1>5, <2>1, Parts DEF TypeOK
  <2>3. pc'[t] = "launch.adopt" /\ \A y \in Tasks : y # t => pc'[y] = pc[y]
    BY <1>1, <1>5, Parts DEF Goto, TypeOK
  <2>4. \A g \in Gens : key[g] # rk[t]  BY <1>1 DEF KInv, KeysApart, FreshPcs
  <2>5. \A y \in Tasks : held[y] # 0 => origin[held[y]] # p
    BY <1>2, <1>5, SlotIsTheOnlyNeed
  <2>6. KeysApart'
    <3>1. \A g \in Gens : key'[g] < nextKey'  BY <1>1, <1>3, <2>2 DEF KInv, KeysApart
    <3>2. \A y \in Tasks : rk'[y] < nextKey'  BY <1>3 DEF KInv, KeysApart
    <3>3. \A g, h \in Gens : key'[g] # 0 /\ key'[g] = key'[h] => g = h
      BY <2>2, <2>4 DEF KInv, KeysApart
    <3>4. \A u \in Requests : pc'[u] \in FreshPcs => u # t /\ pc[u] \in FreshPcs
      BY <2>3 DEF FreshPcs
    <3>5. \A u \in Requests, g \in Gens : pc'[u] \in FreshPcs => key'[g] # rk'[u]
      BY <1>1, <1>3, <2>2, <3>4 DEF KInv, KeysApart, FreshPcs
    <3>6. \A u, v \in Requests :
            pc'[u] \in FreshPcs /\ pc'[v] \in FreshPcs /\ rk'[u] = rk'[v] => u = v
      BY <1>3, <3>4 DEF KInv, KeysApart
    <3>7. ASSUME NEW y \in Tasks, pc'[y] = "launch.register"
          PROVE  key'[origin'[held'[y]]] = rk'[y]
      <4>1. pc[y] = "launch.register"  BY <2>3, <3>7
      <4>2. held[y] # 0  BY <4>1, Owners DEF HoldPcs
      <4>3. origin[held[y]] \in Gens /\ origin[held[y]] # p  BY <2>5, <4>2, Owners
      <4> QED BY <1>3, <1>5, <2>2, <4>1, <4>3 DEF KInv, KeysApart
    <3> QED BY <3>1, <3>2, <3>3, <3>5, <3>6, <3>7 DEF KeysApart
  <2>7. ASSUME NEW o \in Gens, Obliged(o)' PROVE Registering(key[o])'
    <3>1. CASE o = p  BY <1>3, <2>2, <2>3, <3>1 DEF Registering
    <3>2. CASE o # p
      <4>1. \A y \in Tasks : y # t => Bystands(y)  BY <1>3, <1>5, <2>3 DEF Bystands
      <4>2. pc'[t] \notin AttachPcs \cup CarryPcs  BY <2>3 DEF AttachPcs, CarryPcs
      <4>3. \A d \in Clients : ses'[d] = ses[d]  BY <1>5 DEF slots
      <4>4. Obliged(o)  BY <1>1, <1>3, <2>7, <4>1, <4>2, <4>3, NoNewNeed
      <4>5. PICK k : k = key[o]  OBVIOUS
      <4>6. Registering(k)  BY <4>4, <4>5 DEF KInv, Registered
      <4>7. pc[t] # "launch.adopt" /\ (k \in registry => k \in registry')  BY <1>1, <1>3
      <4>8. k \in registry' \/ \E u \in Requests : pc'[u] = "launch.adopt" /\ rk'[u] = k
        BY <1>1, <4>1, <4>6, <4>7, RegistrationStays
      <4> QED BY <2>2, <3>2, <4>5, <4>8 DEF Registering
    <3> QED BY <3>1, <3>2
  <2> QED BY <2>6, <2>7 DEF KInv, Registered
<1> QED BY <1>4, <1>5 DEF LaunchWakes

\* The retried launch registers its rikey.
LEMMA LaunchAdoptKeys ==
  ASSUME IInv, KInv, NEW t \in Requests, LaunchAdopt(t) PROVE KInv'
<1>1. t \in Tasks /\ Return(t) /\ registry' = registry \cup {rk[t]} /\ pc[t] = "launch.adopt"
      /\ UNCHANGED <<slots, nextKey, key, origin>>
  BY DEF LaunchAdopt, manager, origins
<1>2. pc'[t] \in {"idle", "stopped"} /\ \A y \in Tasks : y # t => Same(y)
  BY <1>1, Parts, ReturnEffect
<1>3. rk'[t] = 0 /\ \A y \in Tasks : y # t => Bystands(y)
  BY <1>1, <1>2, Parts DEF Same, Bystands, Return, TypeOK
<1>4. pc'[t] # "launch.register" /\ pc'[t] \notin FreshPcs \cup AttachPcs \cup CarryPcs
  BY <1>2 DEF FreshPcs, AttachPcs, CarryPcs
<1>5. KeysApart'  BY <1>1, <1>3, <1>4, KeysStay DEF KInv
<1>6. ASSUME NEW o \in Gens, Obliged(o)' PROVE Registering(key[o])'
  <2>1. \A d \in Clients : ses'[d] = ses[d]  BY <1>1 DEF slots
  <2>2. Obliged(o)  BY <1>1, <1>3, <1>4, <1>6, <2>1, NoNewNeed
  <2>3. Registering(key[o])  BY <2>2 DEF KInv, Registered
  <2>4. CASE key[o] \in registry'  BY <1>1, <2>4 DEF Registering
  <2>5. CASE key[o] \notin registry'
    <3>1. PICK u \in Requests : pc[u] = "launch.adopt" /\ rk[u] = key[o] /\ u # t
      BY <1>1, <2>3, <2>5 DEF Registering
    <3>2. pc'[u] = "launch.adopt" /\ rk'[u] = key[o]  BY <1>2, <3>1 DEF Same
    <3> QED BY <1>1, <3>2 DEF Registering
  <2> QED BY <2>4, <2>5
<1> QED BY <1>5, <1>6 DEF KInv, Registered

\* The session of a new launch takes over the launch's rikey.
LEMMA LaunchSpawnKeys ==
  ASSUME IInv, KInv, NEW t \in Requests, LaunchSpawn(t) PROVE KInv'
<1>1. t \in Tasks /\ pc[t] = "launch.spawn"
      /\ UNCHANGED <<slots, registry, nextKey, us, ref, rk>>
  BY DEF LaunchSpawn
<1>2. CASE Goto(t, "launch.fail") /\ UNCHANGED <<origin, held, key>>
  <2>1. pc'[t] = "launch.fail" /\ \A y \in Tasks : y # t => Bystands(y)
    BY <1>1, <1>2, Parts DEF Goto, TypeOK, Bystands
  <2>2. pc'[t] \notin FreshPcs \cup AttachPcs \cup CarryPcs
    BY <2>1 DEF FreshPcs, AttachPcs, CarryPcs
  <2>3. \A d \in Clients : ses'[d] = ses[d]  BY <1>1 DEF slots
  <2> QED BY <1>1, <1>2, <2>1, <2>2, <2>3, KStep
<1>3. CASE /\ NewSession(t, "login", nextGen)
           /\ key' = [key EXCEPT ![nextGen] = rk[t]]
           /\ Goto(t, "launch.register")
  <2> DEFINE n == nextGen
  <2>1. n \in Gens  BY <1>3 DEF NewSession
  <2>2. key'[n] = rk[t] /\ \A g \in Gens : g # n => key'[g] = key[g]
    BY <1>3, <2>1, Parts DEF TypeOK
  <2>3. origin'[n] = n /\ \A g \in Gens : g # n => origin'[g] = origin[g]
    BY <1>3, <2>1, Parts DEF NewSession, TypeOK
  <2>4. held'[t] = n /\ \A y \in Tasks : y # t => held'[y] = held[y]
    BY <1>1, <1>3, <2>1, Parts DEF NewSession, TypeOK
  <2>5. pc'[t] = "launch.register" /\ \A y \in Tasks : y # t => pc'[y] = pc[y]
    BY <1>1, <1>3, Parts DEF Goto, TypeOK
  <2>6. \A g \in Gens : key[g] # rk[t]  BY <1>1 DEF KInv, KeysApart, FreshPcs
  <2>7. fate[n] = "none" /\ kind[n] = "none"  BY <2>1, Parts DEF Unborn, TypeOK
  <2>8. \A g \in Gens : fate[g] = "live" => g # n /\ origin[g] # n
    BY <2>7, Parts DEF Lineage
  <2>9. \A y \in Tasks : pc[y] \in CarryPcs => ref[y] # n
    BY <2>7, Parts DEF Hands, HandsOf
  <2>10. KeysApart'
    <3>1. \A g \in Gens : key'[g] < nextKey'  BY <1>1, <2>2 DEF KInv, KeysApart
    <3>2. \A y \in Tasks : rk'[y] < nextKey'  BY <1>1 DEF KInv, KeysApart
    <3>3. \A g, h \in Gens : key'[g] # 0 /\ key'[g] = key'[h] => g = h
      BY <2>2, <2>6 DEF KInv, KeysApart
    <3>4. \A u \in Requests : pc'[u] \in FreshPcs => u # t /\ pc[u] \in FreshPcs
      BY <2>5 DEF FreshPcs
    <3>5. \A u \in Requests, g \in Gens : pc'[u] \in FreshPcs => key'[g] # rk'[u]
      BY <1>1, <2>2, <3>4 DEF KInv, KeysApart, FreshPcs
    <3>6. \A u, v \in Requests :
            pc'[u] \in FreshPcs /\ pc'[v] \in FreshPcs /\ rk'[u] = rk'[v] => u = v
      BY <1>1, <3>4 DEF KInv, KeysApart
    <3>7. ASSUME NEW y \in Tasks, pc'[y] = "launch.register"
          PROVE  key'[origin'[held'[y]]] = rk'[y]
      <4>1. CASE y = t  BY <1>1, <2>1, <2>2, <2>3, <2>4, <4>1
      <4>2. CASE y # t
        <5>1. pc[y] = "launch.register" /\ held'[y] = held[y]  BY <2>4, <2>5, <3>7, <4>2
        <5>2. held[y] # 0  BY <5>1, Owners DEF HoldPcs
        <5>3. held[y] \in Gens /\ held[y] # n /\ origin[held[y]] \in Gens
              /\ origin[held[y]] # n
          BY <2>8, <5>2, Owners
        <5> QED BY <1>1, <2>2, <2>3, <5>1, <5>3 DEF KInv, KeysApart
      <4> QED BY <4>1, <4>2
    <3> QED BY <3>1, <3>2, <3>3, <3>5, <3>6, <3>7 DEF KeysApart
  <2>11. ASSUME NEW o \in Gens, Obliged(o)' PROVE Registering(key[o])'
    <3>1. Obliged(o) /\ o # n
      <4>1. ASSUME NEW c \in Clients, ses'[c] # 0, origin'[ses'[c]] = o
            PROVE  Obliged(o) /\ o # n
        <5>1. ses'[c] = ses[c]  BY <1>1 DEF slots
        <5>2. ses[c] \in Gens /\ fate[ses[c]] = "live"  BY <4>1, <5>1, Owners
        <5> QED BY <2>3, <2>8, <4>1, <5>1, <5>2 DEF Obliged
      <4>2. ASSUME NEW y \in Tasks, pc'[y] \in AttachPcs, origin'[held'[y]] = o
            PROVE  Obliged(o) /\ o # n
        <5>1. y # t  BY <2>5, <4>2 DEF AttachPcs
        <5>2. pc[y] \in AttachPcs /\ held'[y] = held[y]  BY <2>4, <2>5, <4>2, <5>1
        <5>3. held[y] \in Gens /\ fate[held[y]] = "live"  BY <5>2, Owners DEF AttachPcs, HoldPcs
        <5> QED BY <2>3, <2>8, <4>2, <5>2, <5>3 DEF Obliged
      <4>3. ASSUME NEW y \in Tasks, pc'[y] \in CarryPcs, ref'[y] = o
            PROVE  Obliged(o) /\ o # n
        <5>1. y # t  BY <2>5, <4>3 DEF CarryPcs
        <5>2. pc[y] \in CarryPcs /\ ref[y] = o  BY <1>1, <2>5, <4>3, <5>1
        <5> QED BY <2>9, <5>2 DEF Obliged
      <4> QED BY <2>11, <4>1, <4>2, <4>3 DEF Obliged
    <3>2. Registering(key[o])  BY <3>1 DEF KInv, Registered
    <3>3. CASE key[o] \in registry  BY <1>1, <2>2, <3>1, <3>3 DEF Registering
    <3>4. CASE key[o] \notin registry
      <4>1. PICK u \in Requests : pc[u] = "launch.adopt" /\ rk[u] = key[o]
        BY <3>2, <3>4 DEF Registering
      <4>2. pc'[u] = "launch.adopt" /\ rk'[u] = key[o]  BY <1>1, <2>5, <4>1
      <4> QED BY <2>2, <3>1, <4>2 DEF Registering
    <3> QED BY <3>3, <3>4
  <2> QED BY <2>10, <2>11 DEF KInv, Registered
<1> QED BY <1>2, <1>3 DEF LaunchSpawn

\* The launch registers the rikey of the session it is about to insert.
LEMMA LaunchRegisterKeys ==
  ASSUME IInv, KInv, NEW t \in Requests, LaunchRegister(t) PROVE KInv'
<1>1. t \in Tasks /\ pc[t] = "launch.register" /\ registry' = registry \cup {rk[t]}
      /\ UNCHANGED <<slots, nextKey, key, origin, held, ref, rk>>
  BY DEF LaunchRegister, manager, origins
<1>2. pc'[t] = "launch.insert" /\ \A y \in Tasks : y # t => pc'[y] = pc[y]
  BY <1>1, Parts DEF LaunchRegister, Goto, TypeOK
<1>3. \A y \in Tasks : y # t => Bystands(y)  BY <1>1, <1>2 DEF Bystands
<1>4. pc'[t] # "launch.register" /\ pc'[t] \notin FreshPcs  BY <1>2 DEF FreshPcs
<1>5. KeysApart'  BY <1>1, <1>3, <1>4, KeysStay DEF KInv
<1>6. ASSUME NEW o \in Gens, Obliged(o)' PROVE Registering(key[o])'
  <2>1. Obliged(o) \/ o = origin[held[t]]
    <3>1. \A y \in Tasks : pc'[y] \in AttachPcs => y = t \/ pc[y] \in AttachPcs  BY <1>2
    <3>2. \A y \in Tasks : pc'[y] \in CarryPcs => pc[y] \in CarryPcs
      BY <1>2 DEF CarryPcs
    <3> QED BY <1>1, <1>6, <3>1, <3>2 DEF Obliged, slots
  <2>2. CASE o = origin[held[t]]
    <3>1. key[o] = rk[t]  BY <1>1, <2>2 DEF KInv, KeysApart
    <3> QED BY <1>1, <3>1 DEF Registering
  <2>3. CASE Obliged(o)
    <3>1. Registering(key[o])  BY <2>3 DEF KInv, Registered
    <3>2. \A u \in Requests : pc[u] = "launch.adopt" => pc'[u] = "launch.adopt"
      BY <1>1, <1>2
    <3> QED BY <1>1, <3>1, <3>2 DEF Registering
  <2> QED BY <2>1, <2>2, <2>3
<1> QED BY <1>5, <1>6 DEF KInv, Registered

\* A launch that gives up, fails, replaces what was attached, or inserts its session.
LEMMA LaunchEndsKeys ==
  ASSUME IInv, KInv, NEW t \in Requests,
         LaunchTimesOut(t) \/ LaunchFails(t) \/ LaunchInsert(t) \/ LaunchReplace(t)
  PROVE  KInv'
<1>1. t \in Tasks /\ ses \in [Clients -> 0..MaxGen]  BY Parts DEF TypeOK
<1>2. CASE LaunchTimesOut(t)
  <2>1. UNCHANGED <<ses, registry, key, nextKey, origin>> /\ pc[t] # "launch.adopt"
    BY <1>2 DEF LaunchTimesOut, slots, origins, manager
  <2> QED BY <1>1, <1>2, <2>1, KReturn DEF LaunchTimesOut
<1>3. CASE LaunchFails(t)
  <2>1. UNCHANGED <<registry, key, nextKey, origin>> /\ pc[t] # "launch.adopt"
    BY <1>3 DEF LaunchFails, origins, manager
  <2>2. \A c \in Clients : ses'[c] \in {ses[c], 0}  BY <1>1, <1>3 DEF LaunchFails, PutSlot
  <2> QED BY <1>1, <1>3, <2>1, <2>2, KReturn DEF LaunchFails
<1>4. CASE LaunchInsert(t)
  <2>1. UNCHANGED <<registry, key, nextKey, origin>> /\ pc[t] # "launch.adopt"
        /\ pc[t] \in AttachPcs
    BY <1>4 DEF LaunchInsert, origins, manager, AttachPcs
  <2>2. \A c \in Clients : ses'[c] = ses[c] \/ ses'[c] = held[t]
    BY <1>1, <1>4 DEF LaunchInsert, PutSlot
  <2> QED BY <1>1, <1>4, <2>1, <2>2, KReturn DEF LaunchInsert
<1>5. CASE LaunchReplace(t)
  <2>1. /\ UNCHANGED <<ses, key, nextKey, origin, ref, rk>>
        /\ pc[t] = "launch.replace" /\ registry' = registry \ {key[origin[held[t]]]}
    BY <1>5 DEF LaunchReplace, Release, slots, origins, manager
  <2>2. pc'[t] = "launch.spawn" /\ \A y \in Tasks : y # t => pc'[y] = pc[y] /\ held'[y] = held[y]
    BY <1>1, <1>5, Parts DEF LaunchReplace, Goto, TypeOK
  <2>3. \A y \in Tasks : y # t => Bystands(y)  BY <2>1, <2>2 DEF Bystands
  <2>4. held[t] # 0 /\ origin[held[t]] \in Gens  BY <1>1, <2>1, Owners DEF HoldPcs
  <2>5. ~Obliged(origin[held[t]])  BY <1>1, <2>1, <2>4, HeldIsFree DEF AttachPcs
  <2>6. \A o \in Gens : Obliged(o) => key[o] # key[origin[held[t]]]
    BY <2>4, <2>5, ForgetsOne
  <2>7. /\ pc[t] \in FreshPcs /\ pc'[t] \notin AttachPcs \cup CarryPcs
        /\ pc[t] # "launch.adopt" /\ pc'[t] # "launch.register"
    BY <2>1, <2>2 DEF FreshPcs, AttachPcs, CarryPcs
  <2> QED BY <1>1, <2>1, <2>3, <2>6, <2>7, KStep
<1> QED BY <1>2, <1>3, <1>4, <1>5

-----------------------------------------------------------------------------
(* The other operations *)

\* Cancelling empties the slot; the rikey is forgotten when the session is released.
LEMMA CancelTakesKeys ==
  ASSUME IInv, KInv, NEW x \in Tasks, NEW c \in Clients, pc[x] # "launch.adopt", CancelTakes(x, c)
  PROVE  KInv'
<1>1. UNCHANGED <<registry, key, nextKey, origin, ref, rk>>
  BY DEF CancelTakes, origins, manager
<1>2. \A d \in Clients : ses'[d] \in {ses[d], 0}  BY Parts DEF CancelTakes, TakeSlot, TypeOK
<1>3. \A y \in Tasks : y # x => Bystands(y)
  BY <1>1, Parts DEF CancelTakes, TakeSlot, Goto, TypeOK, Bystands
<1>4. pc'[x] \in {"idle", "stopped", "cancel.release"}
  BY RestPcs, Parts DEF CancelTakes, Goto, TypeOK
<1>5. pc'[x] # "launch.register" /\ pc'[x] \notin FreshPcs \cup AttachPcs \cup CarryPcs
  BY <1>4 DEF FreshPcs, AttachPcs, CarryPcs
<1> QED BY <1>1, <1>2, <1>3, <1>5, KStep

\* Releasing a session forgets a rikey that nobody needs.
LEMMA CancelReleasesKeys ==
  ASSUME IInv, KInv, NEW x \in Tasks, CancelReleases(x) PROVE KInv'
<1>1. /\ UNCHANGED <<ses, key, nextKey, origin>>
      /\ pc[x] = "cancel.release" /\ registry' = registry \ {key[origin[held[x]]]}
  BY DEF CancelReleases, Release, slots, origins, manager
<1>2. held[x] # 0 /\ origin[held[x]] \in Gens  BY <1>1, Owners DEF HoldPcs
<1>3. ~Obliged(origin[held[x]])  BY <1>1, <1>2, HeldIsFree DEF AttachPcs
<1>4. \A o \in Gens : Obliged(o) => key[o] # key[origin[held[x]]]
  BY <1>2, <1>3, ForgetsOne
<1> QED BY <1>1, <1>4, KReturn DEF CancelReleases

\* PLAY takes a session out of its slot and puts it back.
LEMMA PlayKeys ==
  ASSUME IInv, KInv, NEW t \in Requests,
         (\E c \in Clients : PlayArrives(t, c)) \/ PlayFresh(t) \/ PlayRetake(t)
  PROVE  KInv'
<1>1. t \in Tasks /\ ses \in [Clients -> 0..MaxGen]  BY Parts DEF TypeOK
<1>2. ASSUME NEW c \in Clients, PlayArrives(t, c) PROVE KInv'
  <2>1. UNCHANGED <<registry, key, nextKey, origin, ref, rk>> /\ pc[t] = "idle" /\ ses[c] # 0
    BY <1>2 DEF PlayArrives, ResolvesTo, Candidates, origins, manager
  <2>2. \A d \in Clients : ses'[d] \in {ses[d], 0}
    BY <1>1, <1>2 DEF PlayArrives, TakeSlot
  <2>3. \A y \in Tasks : y # t => Bystands(y)
    BY <1>1, <1>2, <2>1, Parts DEF PlayArrives, TakeSlot, Goto, TypeOK, Bystands
  <2>4. pc'[t] \in {"play.fresh", "play.retake"} /\ held'[t] = ses[c]
    BY <1>1, <1>2, Parts DEF PlayArrives, TakeSlot, Goto, TypeOK
  <2>5. pc'[t] # "launch.register" /\ pc'[t] \notin FreshPcs \cup CarryPcs
    BY <2>4 DEF FreshPcs, CarryPcs
  <2>6. Obliged(origin[held'[t]])  BY <2>1, <2>4 DEF Obliged
  <2> QED BY <1>1, <2>1, <2>2, <2>3, <2>5, <2>6, KStep
<1>3. CASE PlayFresh(t)
  <2>1. UNCHANGED <<registry, key, nextKey, origin>> /\ pc[t] \in AttachPcs
    BY <1>3 DEF PlayFresh, origins, manager, AttachPcs
  <2> QED BY <1>1, <1>3, <2>1, KStarts DEF PlayFresh
<1>4. CASE PlayRetake(t)
  <2>1. UNCHANGED <<registry, key, nextKey, origin>> /\ pc[t] \in AttachPcs
        /\ pc[t] # "launch.adopt"
    BY <1>4 DEF PlayRetake, origins, manager, AttachPcs
  <2>2. \A c \in Clients : ses'[c] = ses[c] \/ ses'[c] = held[t]
    BY <1>1, <1>4 DEF PlayRetake, PutSlot
  <2> QED BY <1>1, <1>4, <2>1, <2>2, KReturn DEF PlayRetake
<1> QED BY <1>2, <1>3, <1>4

\* A slot is emptied and the rikey of what was in it is forgotten.
LEMMA SlotForgets ==
  ASSUME IInv, KInv, NEW x \in Tasks, \A y \in Tasks : y # x => Bystands(y),
         origin' = origin, NEW c \in Clients, ses[c] # 0,
         registry' = registry \ {key[origin[ses[c]]]}, ses' = [ses EXCEPT ![c] = 0],
         pc'[x] \notin AttachPcs \cup CarryPcs
  PROVE  \A o \in Gens : Obliged(o) /\ Obliged(o)' /\ key[o] \in registry => key[o] \in registry'
<1> SUFFICES ASSUME NEW o \in Gens, Obliged(o), Obliged(o)', key[o] \in registry
             PROVE  key[o] \in registry'
  OBVIOUS
<1>1. origin[ses[c]] \in Gens  BY Owners
<1>2. o # origin[ses[c]]
  <2>1. ASSUME NEW d \in Clients, ses'[d] # 0, origin[ses'[d]] = o PROVE o # origin[ses[c]]
    <3>1. d # c /\ ses'[d] = ses[d]  BY <2>1, Parts DEF TypeOK
    <3> QED BY <2>1, <3>1, SlotIsTheOnlyNeed
  <2>2. ASSUME NEW y \in Tasks, pc'[y] \in AttachPcs, origin[held'[y]] = o
        PROVE  o # origin[ses[c]]
    <3>1. pc[y] \in AttachPcs /\ held'[y] = held[y]  BY <2>2 DEF Bystands, AttachPcs
    <3>2. held[y] # 0  BY <3>1, Owners DEF AttachPcs, HoldPcs
    <3> QED BY <2>2, <3>1, <3>2, SlotIsTheOnlyNeed
  <2>3. ASSUME NEW y \in Tasks, pc'[y] \in CarryPcs, ref'[y] = o PROVE o # origin[ses[c]]
    <3>1. pc[y] \in CarryPcs /\ ref'[y] = ref[y]  BY <2>3 DEF Bystands, CarryPcs
    <3> QED BY <2>3, <3>1, SlotIsTheOnlyNeed
  <2> QED BY <2>1, <2>2, <2>3 DEF Obliged
<1>3. key[o] # key[origin[ses[c]]]  BY <1>1, <1>2, ForgetsOne
<1> QED BY <1>3

\* A log-out forgets the rikey of the desktop it takes out of a slot.
LEMMA LogoutKeys ==
  ASSUME IInv, KInv, NEW t \in Requests,
         (\E u \in Users : LogoutArrives(t, u)) \/ LogoutLooksForActive(t) \/ LogoutTerminates(t)
  PROVE  KInv'
<1>1. t \in Tasks /\ ses \in [Clients -> 0..MaxGen]  BY Parts DEF TypeOK
<1>2. ASSUME NEW u \in Users, LogoutArrives(t, u) PROVE KInv'
  <2>1. UNCHANGED <<ses, registry, key, nextKey, origin, ref, rk>> /\ pc[t] = "idle"
    BY <1>2 DEF LogoutArrives, slots, origins, manager
  <2>2. \A y \in Tasks : y # t => Bystands(y)
    BY <1>1, <1>2, <2>1, Parts DEF LogoutArrives, Goto, TypeOK, Bystands
  <2>3. pc'[t] \in {"logout.terminate", "logout.active"}
    BY <1>1, <1>2, Parts DEF LogoutArrives, Goto, TypeOK
  <2>4. pc'[t] # "launch.register" /\ pc'[t] \notin FreshPcs \cup AttachPcs \cup CarryPcs
    BY <2>3 DEF FreshPcs, AttachPcs, CarryPcs
  <2> QED BY <1>1, <2>1, <2>2, <2>4, KStep
<1>3. CASE LogoutTerminates(t)
  <2>1. UNCHANGED <<ses, registry, key, nextKey, origin>> /\ pc[t] # "launch.adopt"
    BY <1>3 DEF LogoutTerminates, slots, origins, manager
  <2> QED BY <1>1, <1>3, <2>1, KReturn DEF LogoutTerminates
<1>4. CASE LogoutLooksForActive(t)
  <2>1. UNCHANGED <<key, nextKey, origin>> /\ pc[t] = "logout.active" /\ HandsOf(t)
    BY <1>1, <1>4, Parts DEF LogoutLooksForActive, origins, manager, Hands
  <2>2. CASE Return(t) /\ UNCHANGED <<slots, registry>>
    BY <1>1, <2>1, <2>2, KReturn DEF slots
  <2>3. ASSUME NEW c \in Clients, UserOf(ses[c]) = us[t], TakeSlot(c, t),
               registry' = registry \ {key[origin[ses[c]]]}, Goto(t, "logout.terminate"),
               UNCHANGED <<cl, us, ref, rk>>
        PROVE  KInv'
    <3>1. ses[c] # 0
      BY <2>1, <2>3, ConstantsAssumption
         DEF HandsOf, UserOf, IsDesktop, ConstantsAssumption
    <3>2. pc'[t] = "logout.terminate" /\ \A y \in Tasks : y # t => Bystands(y)
      BY <1>1, <2>3, Parts DEF TakeSlot, Goto, TypeOK, Bystands
    <3>3. ses' = [ses EXCEPT ![c] = 0] /\ \A d \in Clients : ses'[d] \in {ses[d], 0}
      BY <1>1, <2>3 DEF TakeSlot
    <3>4. pc'[t] # "launch.register" /\ pc'[t] \notin FreshPcs \cup AttachPcs \cup CarryPcs
      BY <3>2 DEF FreshPcs, AttachPcs, CarryPcs
    <3>5. \A o \in Gens : Obliged(o) /\ Obliged(o)' /\ key[o] \in registry
            => key[o] \in registry'
      BY <1>1, <2>1, <2>3, <3>1, <3>2, <3>3, <3>4, SlotForgets
    <3> QED BY <1>1, <2>1, <2>3, <3>2, <3>3, <3>4, <3>5, KStep
  <2> QED BY <1>4, <2>2, <2>3 DEF LogoutLooksForActive
<1> QED BY <1>2, <1>3, <1>4

\* A task that finds the mutex poisoned gives up what it had.
LEMMA PanicsKeys ==
  ASSUME IInv, KInv, NEW x \in Tasks, Panics(x) PROVE KInv'
<1>1. UNCHANGED <<ses, registry, key, nextKey, origin>> /\ pc[x] # "launch.adopt"
  BY DEF Panics, LockPcs, slots, origins, manager
<1> QED BY <1>1, KReturn DEF Panics

-----------------------------------------------------------------------------
(* The watchers and the handoff *)

\* A handoff carries the origin of what streamed in the slot.
LEMMA WatchLoginKeys ==
  ASSUME IInv, KInv, NEW g \in Gens, WatchLoginExit(g) \/ HandoffTakes(g) PROVE KInv'
<1>1. g \in Tasks /\ ses \in [Clients -> 0..MaxGen] /\ HandsOf(g)  BY Parts DEF TypeOK, Hands
<1>2. UNCHANGED <<registry, key, nextKey, origin>> /\ pc[g] # "launch.adopt"
  BY DEF WatchLoginExit, HandoffTakes, origins
<1>3. CASE Return(g)
  <2>1. \A c \in Clients : ses'[c] \in {ses[c], 0}
    BY <1>1 DEF WatchLoginExit, HandoffTakes, slots
  <2> QED BY <1>1, <1>2, <1>3, <2>1, KReturn
<1>4. CASE WatchLoginExit(g) /\ ~Return(g)
  <2>1. UNCHANGED <<ses, held, ref, rk>>  BY <1>4 DEF WatchLoginExit, slots
  <2>2. \A y \in Tasks : y # g => Bystands(y)
    BY <1>1, <1>4, <2>1, Parts DEF WatchLoginExit, Goto, TypeOK, Bystands
  <2>3. pc'[g] \in {"handoff.take", "cancel.take"}
    BY <1>1, <1>4, Parts DEF WatchLoginExit, Goto, TypeOK
  <2>4. pc'[g] # "launch.register" /\ pc'[g] \notin FreshPcs \cup AttachPcs \cup CarryPcs
    BY <2>3 DEF FreshPcs, AttachPcs, CarryPcs
  <2> QED BY <1>1, <1>2, <2>1, <2>2, <2>4, KStep
<1>5. CASE HandoffTakes(g) /\ ~Return(g)
  <2>1. cl[g] \in Clients /\ ses[cl[g]] # 0
    BY <1>1, <1>5, Parts DEF HandoffTakes, HandsOf, ClientPcs, SlotShape
  <2>2. \A c \in Clients : ses'[c] \in {ses[c], 0}  BY <1>1, <1>5 DEF HandoffTakes
  <2>3. \A y \in Tasks : y # g => Bystands(y)
    BY <1>1, <1>5, Parts DEF HandoffTakes, Goto, TypeOK, Bystands
  <2>4. pc'[g] = "handoff.background" /\ ref'[g] = origin[ses[cl[g]]] /\ rk' = rk
    BY <1>1, <1>5, Parts DEF HandoffTakes, Goto, TypeOK
  <2>5. pc'[g] # "launch.register" /\ pc'[g] \notin FreshPcs \cup AttachPcs
    BY <2>4 DEF FreshPcs, AttachPcs
  <2>6. Obliged(ref'[g])  BY <2>1, <2>4 DEF Obliged
  <2> QED BY <1>1, <1>2, <2>2, <2>3, <2>4, <2>5, <2>6, KStep
<1> QED BY <1>3, <1>4, <1>5

\* A handoff looks for the user's desktop and takes it from the client that has it.
LEMMA HandoffLooksKeys ==
  ASSUME IInv, KInv, NEW g \in Gens,
         HandoffLooksInBackground(g) \/ HandoffLooksForActive(g) \/ HandoffDetaches(g)
  PROVE  KInv'
<1>1. g \in Tasks /\ ses \in [Clients -> 0..MaxGen]  BY Parts DEF TypeOK
<1>2. /\ UNCHANGED <<key, nextKey, origin, ref, rk>>
      /\ pc[g] \in {"handoff.background", "handoff.active", "handoff.detach"}
  BY DEF HandoffLooksInBackground, HandoffLooksForActive, HandoffDetaches, origins, manager
<1>3. \A c \in Clients : ses'[c] \in {ses[c], 0}
  BY <1>1 DEF HandoffLooksInBackground, HandoffLooksForActive, HandoffDetaches, TakeSlot, slots
<1>4. \A y \in Tasks : y # g => Bystands(y)
  BY <1>1, <1>2, Parts DEF HandoffLooksInBackground, HandoffLooksForActive, HandoffDetaches,
                           TakeSlot, Goto, TypeOK, Bystands
<1>5. pc'[g] \in {"handoff.detach", "handoff.spawn", "handoff.active", "handoff.resume"}
  BY <1>1, Parts DEF HandoffLooksInBackground, HandoffLooksForActive, HandoffDetaches,
                     Goto, TypeOK
<1>6. /\ pc'[g] # "launch.register" /\ pc'[g] \notin FreshPcs \cup AttachPcs
      /\ pc[g] \in CarryPcs /\ pc[g] # "launch.adopt"
  BY <1>2, <1>5 DEF FreshPcs, AttachPcs, CarryPcs
<1>7. Obliged(ref'[g])  BY <1>1, <1>2, <1>6 DEF Obliged
<1>8. CASE registry' = registry  BY <1>1, <1>2, <1>3, <1>4, <1>6, <1>7, <1>8, KStep
<1>9. CASE HandoffDetaches(g)
  <2>1. pc[g] = "handoff.detach" /\ registry' = registry \ {key[origin[held[g]]]}
    BY <1>9 DEF HandoffDetaches
  <2>2. held[g] # 0 /\ origin[held[g]] \in Gens  BY <1>1, <2>1, Owners DEF HoldPcs
  <2>3. ~Obliged(origin[held[g]])  BY <1>1, <2>1, <2>2, HeldIsFree DEF AttachPcs
  <2>4. \A o \in Gens : Obliged(o) => key[o] # key[origin[held[g]]]
    BY <2>2, <2>3, ForgetsOne
  <2> QED BY <1>1, <1>2, <1>3, <1>4, <1>6, <1>7, <2>1, <2>4, KStep
<1> QED BY <1>8, <1>9 DEF HandoffLooksInBackground, HandoffLooksForActive

\* A session that x ends up with, or that ends up in a slot, has the origin x carried.
LEMMA CarriedOrigin ==
  ASSUME IInv, KInv, UNCHANGED <<key, nextKey, registry>>, NEW x \in Gens, pc[x] \in CarryPcs,
         NEW d \in Gens, \A h \in Gens : h # d => origin'[h] = origin[h], origin'[d] = ref[x],
         held[x] = d \/ fate[d] = "none",
         \A y \in Tasks : y # x => Bystands(y),
         rk'[x] \in {rk[x], 0}, pc'[x] \in {"idle", "stopped", "handoff.start"},
         pc'[x] = "handoff.start" => held'[x] = d,
         \A c \in Clients : ses'[c] \in {ses[c], d}
  PROVE  KInv'
<1>1. x \in Tasks /\ Obliged(ref[x])  BY DEF Obliged
<1>2. pc'[x] # "launch.register" /\ pc'[x] \notin FreshPcs \cup CarryPcs
  BY DEF FreshPcs, CarryPcs
<1>3. ASSUME NEW y \in Tasks, y # x, held[y] # 0 PROVE held[y] \in Gens /\ held[y] # d
  BY <1>3, <1>1, Owners, Parts DEF OneHome
<1>4. KeysApart'
  <2>1. 0 < nextKey  BY Parts, ConstantsAssumption DEF TypeOK, ConstantsAssumption
  <2>2. \A y \in Tasks : rk'[y] < nextKey  BY <2>1 DEF KInv, KeysApart, Bystands
  <2>3. \A t \in Requests : pc'[t] \in FreshPcs => pc[t] \in FreshPcs /\ rk'[t] = rk[t]
    <3>1. \A h \in Gens : h \notin Requests  BY ConstantsAssumption DEF ConstantsAssumption
    <3> QED BY <1>2, <3>1 DEF Bystands
  <2>4. ASSUME NEW y \in Tasks, pc'[y] = "launch.register"
        PROVE  key[origin'[held'[y]]] = rk'[y]
    <3>1. y # x  BY <1>2, <2>4
    <3>2. pc[y] = "launch.register" /\ held'[y] = held[y] /\ rk'[y] = rk[y]
      BY <2>4, <3>1 DEF Bystands
    <3>3. held[y] # 0  BY <3>2, Owners DEF HoldPcs
    <3>4. origin'[held[y]] = origin[held[y]]  BY <1>3, <3>1, <3>3
    <3> QED BY <3>2, <3>4 DEF KInv, KeysApart
  <2> QED BY <2>2, <2>3, <2>4 DEF KInv, KeysApart
<1>5. ASSUME NEW o \in Gens, Obliged(o)' PROVE Registering(key[o])'
  <2>1. ASSUME NEW c \in Clients, ses'[c] # 0, origin'[ses'[c]] = o PROVE Obliged(o)
    <3>1. CASE ses'[c] = d  BY <1>1, <2>1, <3>1
    <3>2. CASE ses'[c] # d
      <4>1. ses'[c] = ses[c] /\ ses[c] \in Gens  BY <2>1, <3>2, Owners
      <4> QED BY <2>1, <3>2, <4>1 DEF Obliged
    <3> QED BY <3>1, <3>2
  <2>2. ASSUME NEW y \in Tasks, pc'[y] \in AttachPcs, origin'[held'[y]] = o PROVE Obliged(o)
    <3>1. CASE y = x  BY <1>1, <2>2, <3>1 DEF AttachPcs
    <3>2. CASE y # x
      <4>1. pc[y] \in AttachPcs /\ held'[y] = held[y]  BY <2>2, <3>2 DEF Bystands, AttachPcs
      <4>2. held[y] # 0  BY <4>1, Owners DEF AttachPcs, HoldPcs
      <4> QED BY <1>3, <2>2, <3>2, <4>1, <4>2 DEF Obliged
    <3> QED BY <3>1, <3>2
  <2>3. ASSUME NEW y \in Tasks, pc'[y] \in CarryPcs, ref'[y] = o PROVE Obliged(o)
    <3>1. y # x  BY <1>2, <2>3
    <3>2. pc[y] \in CarryPcs /\ ref'[y] = ref[y]  BY <2>3, <3>1 DEF Bystands, CarryPcs
    <3> QED BY <2>3, <3>2 DEF Obliged
  <2>4. Obliged(o)  BY <1>5, <2>1, <2>2, <2>3 DEF Obliged
  <2>5. PICK k : k = key[o]  OBVIOUS
  <2>6. Registering(k)  BY <2>4, <2>5 DEF KInv, Registered
  <2>7. pc[x] # "launch.adopt"  BY DEF CarryPcs
  <2>8. k \in registry' \/ \E t \in Requests : pc'[t] = "launch.adopt" /\ rk'[t] = k
    BY <1>1, <2>6, <2>7, RegistrationStays
  <2> QED BY <2>5, <2>8 DEF Registering
<1> QED BY <1>4, <1>5 DEF KInv, Registered

\* The resumed desktop gets the origin of the login stage.
LEMMA HandoffResumesKeys ==
  ASSUME IInv, KInv, NEW g \in Gens, HandoffResumes(g) PROVE KInv'
<1>1. g \in Tasks /\ ses \in [Clients -> 0..MaxGen]  BY Parts DEF TypeOK
<1>2. UNCHANGED <<key, nextKey, registry>> /\ pc[g] = "handoff.resume"
  BY DEF HandoffResumes, origins, manager
<1>3. pc[g] \in CarryPcs /\ pc[g] # "launch.adopt"  BY <1>2 DEF CarryPcs
<1>4. held[g] \in Gens /\ fate[held[g]] = "live"  BY <1>1, <1>2, Owners DEF HoldPcs
<1>5. CASE Return(g) /\ UNCHANGED <<slots, origin>>
  <2>1. ses' = ses  BY <1>5 DEF slots
  <2> QED BY <1>1, <1>2, <1>3, <1>5, <2>1, KReturn
<1>6. CASE /\ origin' = [origin EXCEPT ![held[g]] = ref[g]]
           /\ StartStreaming(g, held[g], client[ref[g]], FALSE)
  <2>1. origin'[held[g]] = ref[g] /\ \A h \in Gens : h # held[g] => origin'[h] = origin[h]
    BY <1>4, <1>6, Parts DEF TypeOK
  <2>2. \A y \in Tasks : y # g => Bystands(y)
    BY <1>1, <1>6, Parts DEF StartStreaming, TypeOK, Bystands
  <2>3. pc'[g] \in {"idle", "stopped"} /\ rk' = rk
    BY <1>1, <1>6, RestPcs DEF StartStreaming
  <2>4. \A c \in Clients : ses'[c] \in {ses[c], held[g]}
    BY <1>1, <1>6 DEF StartStreaming, PutSlot
  <2> QED BY <1>2, <1>3, <1>4, <2>1, <2>2, <2>3, <2>4, CarriedOrigin
<1> QED BY <1>5, <1>6 DEF HandoffResumes

\* The new desktop is made with the origin of the login stage.
LEMMA HandoffSpawnsKeys ==
  ASSUME IInv, KInv, NEW g \in Gens, HandoffSpawns(g) PROVE KInv'
<1>1. g \in Tasks /\ ses' = ses  BY DEF HandoffSpawns, slots
<1>2. UNCHANGED <<key, nextKey, registry>> /\ pc[g] = "handoff.spawn"
  BY DEF HandoffSpawns, origins
<1>3. pc[g] \in CarryPcs /\ pc[g] # "launch.adopt"  BY <1>2 DEF CarryPcs
<1>4. CASE Return(g) /\ UNCHANGED origin  BY <1>1, <1>2, <1>3, <1>4, KReturn
<1>5. CASE /\ nextGen \in Gens /\ origin' = [origin EXCEPT ![nextGen] = ref[g]]
           /\ \/ /\ held' = [held EXCEPT ![g] = nextGen]
                 /\ Goto(g, "handoff.start") /\ UNCHANGED <<ref, rk>>
              \/ Return(g)
  <2> DEFINE n == nextGen
  <2>1. n \in Gens /\ fate[n] = "none"  BY <1>5, Parts DEF Unborn, TypeOK
  <2>2. origin'[n] = ref[g] /\ \A h \in Gens : h # n => origin'[h] = origin[h]
    BY <1>5, <2>1, Parts DEF TypeOK
  <2>3. /\ \A y \in Tasks : y # g => Bystands(y)
        /\ rk'[g] \in {rk[g], 0} /\ pc'[g] \in {"idle", "stopped", "handoff.start"}
        /\ pc'[g] = "handoff.start" => held'[g] = n
    <3>1. CASE Return(g)
      <4>1. pc'[g] \in {"idle", "stopped"} /\ \A y \in Tasks : y # g => Same(y)
        BY <1>1, <3>1, Parts, ReturnEffect
      <4>2. rk'[g] = 0  BY <1>1, <3>1, Parts DEF Return, TypeOK
      <4> QED BY <4>1, <4>2 DEF Same, Bystands
    <3>2. CASE /\ held' = [held EXCEPT ![g] = nextGen]
               /\ Goto(g, "handoff.start") /\ UNCHANGED <<ref, rk>>
      BY <1>1, <3>2, Parts DEF Goto, TypeOK, Bystands
    <3> QED BY <1>5, <3>1, <3>2
  <2> QED BY <1>1, <1>2, <1>3, <2>1, <2>2, <2>3, CarriedOrigin
<1> QED BY <1>4, <1>5 DEF HandoffSpawns, NewSession

\* The watcher of a desktop looks for it, and asks the broker.
LEMMA UserWatchKeys ==
  ASSUME IInv, KInv, NEW g \in Gens,
         UserTicks(g) \/ UserLooksInBackground(g) \/ UserAsks(g)
  PROVE  KInv'
<1>1. g \in Tasks /\ ses' = ses /\ UNCHANGED <<key, nextKey, origin, registry>>
      /\ pc[g] # "launch.adopt"
  BY DEF UserTicks, UserLooksInBackground, UserAsks, slots, origins, manager
<1>2. CASE Return(g)  BY <1>1, <1>2, KReturn
<1>3. CASE ~Return(g)
  <2>1. UNCHANGED <<held, rk>>
    BY <1>3 DEF UserTicks, UserLooksInBackground, UserAsks
  <2>2. \A y \in Tasks : y # g => Bystands(y)
    BY <1>1, <1>3, <2>1, Parts DEF UserTicks, UserLooksInBackground, UserAsks, Goto, TypeOK,
                                   Bystands
  <2>3. pc'[g] \in {"user.ask", "user.background", "user.reap", "user.tick"}
    BY <1>1, <1>3, Parts DEF UserTicks, UserLooksInBackground, UserAsks, Goto, TypeOK
  <2>4. pc'[g] # "launch.register" /\ pc'[g] \notin FreshPcs \cup AttachPcs \cup CarryPcs
    BY <2>3 DEF FreshPcs, AttachPcs, CarryPcs
  <2> QED BY <1>1, <2>1, <2>2, <2>4, KStep
<1> QED BY <1>2, <1>3

\* A reaped desktop's rikey is forgotten, whatever is in the slot by then.
LEMMA UserReapsKeys ==
  ASSUME IInv, KInv, NEW g \in Gens, UserReaps(g) PROVE KInv'
<1>1. g \in Tasks /\ ses \in [Clients -> 0..MaxGen] /\ Return(g) /\ pc[g] # "launch.adopt"
      /\ UNCHANGED <<key, nextKey, origin>>
  BY Parts DEF UserReaps, TypeOK, origins, manager
<1>2. pc'[g] \in {"idle", "stopped"} /\ \A y \in Tasks : y # g => Same(y)
  BY <1>1, Parts, ReturnEffect
<1>3. CASE ses' = ses /\ registry' = registry  BY <1>1, <1>3, KReturn
<1>4. CASE /\ cl[g] # "none"
           /\ ses' = [ses EXCEPT ![cl[g]] = 0]
           /\ registry' = IF ses[cl[g]] = 0 THEN registry
                          ELSE registry \ {key[origin[ses[cl[g]]]]}
  <2>1. cl[g] \in Clients  BY <1>1, <1>4, Parts DEF TypeOK
  <2>2. \A d \in Clients : ses'[d] \in {ses[d], 0}  BY <1>1, <1>4
  <2>3. CASE ses[cl[g]] = 0  BY <1>1, <1>4, <2>2, <2>3, KReturn
  <2>4. CASE ses[cl[g]] # 0
    <3>1. \A y \in Tasks : y # g => Bystands(y)  BY <1>2 DEF Same, Bystands
    <3>2. pc'[g] \notin AttachPcs \cup CarryPcs  BY <1>2 DEF AttachPcs, CarryPcs
    <3>3. \A o \in Gens : Obliged(o) /\ Obliged(o)' /\ key[o] \in registry
            => key[o] \in registry'
      BY <1>1, <1>4, <2>1, <2>4, <3>1, <3>2, SlotForgets
    <3> QED BY <1>1, <2>2, <3>3, KReturn
  <2> QED BY <2>3, <2>4
<1> QED BY <1>3, <1>4 DEF UserReaps, slots

-----------------------------------------------------------------------------
\* Every step keeps rikeys apart and needed ones registered: one case per action.
LEMMA NextKInv == IInv /\ KInv /\ [Next]_vars => KInv'
<1> SUFFICES ASSUME IInv, KInv, [Next]_vars PROVE KInv'
  OBVIOUS
<1>1. CASE UNCHANGED <<slots, registry, nextKey, origin, key, pc, held, ref, rk>>
  BY <1>1 DEF KInv, KeysApart, Registered, Obliged, Registering, slots
<1>2. ASSUME NEW t \in Requests, Request(t) PROVE KInv'
  <2>1. ASSUME NEW c \in Clients, LaunchArrives(t, c) PROVE KInv'  BY <2>1, LaunchArrivesKeys
  <2>2. ASSUME NEW c \in Clients, CancelArrives(t, c) PROVE KInv'
    BY <2>2, CancelTakesKeys DEF CancelArrives
  <2>3. ASSUME NEW c \in Clients, PlayArrives(t, c) PROVE KInv'  BY <2>3, PlayKeys
  <2>4. ASSUME NEW u \in Users, LogoutArrives(t, u) PROVE KInv'  BY <2>4, LogoutKeys
  <2> QED BY <1>2, <2>1, <2>2, <2>3, <2>4 DEF Request
<1>3. ASSUME NEW t \in Requests, Serve(t) PROVE KInv'
  <2>1. CASE LaunchWakes(t)  BY <2>1, LaunchWakesKeys
  <2>2. CASE LaunchAdopt(t)  BY <2>2, LaunchAdoptKeys
  <2>3. CASE LaunchSpawn(t)  BY <2>3, LaunchSpawnKeys
  <2>4. CASE LaunchRegister(t)  BY <2>4, LaunchRegisterKeys
  <2>5. CASE LaunchTimesOut(t) \/ LaunchFails(t) \/ LaunchInsert(t) \/ LaunchReplace(t)
    BY <2>5, LaunchEndsKeys
  <2>6. CASE CancelReleases(t)  BY <2>6, CancelReleasesKeys
  <2>7. CASE PlayFresh(t) \/ PlayRetake(t)  BY <2>7, PlayKeys
  <2>8. CASE LogoutLooksForActive(t) \/ LogoutTerminates(t)  BY <2>8, LogoutKeys
  <2>9. CASE Panics(t)  BY <2>9, PanicsKeys
  <2> QED BY <1>3, <2>1, <2>2, <2>3, <2>4, <2>5, <2>6, <2>7, <2>8, <2>9 DEF Serve
<1>4. ASSUME NEW g \in Gens, Watch(g) PROVE KInv'
  <2>1. CASE WatchLoginExit(g) \/ HandoffTakes(g)  BY <2>1, WatchLoginKeys
  <2>2. CASE LoginReset(g)
    <3>1. cl[g] \in Clients  BY <2>2, Parts DEF LoginReset, Hands, HandsOf, ClientPcs
    <3> QED BY <2>2, <3>1, CancelTakesKeys DEF LoginReset
  <2>3. CASE CancelReleases(g)  BY <2>3, CancelReleasesKeys
  <2>4. CASE HandoffLooksInBackground(g) \/ HandoffLooksForActive(g) \/ HandoffDetaches(g)
    BY <2>4, HandoffLooksKeys
  <2>5. CASE HandoffResumes(g)  BY <2>5, HandoffResumesKeys
  <2>6. CASE HandoffSpawns(g)  BY <2>6, HandoffSpawnsKeys
  <2>7. CASE HandoffStreams(g)
    <3>1. UNCHANGED <<registry, key, nextKey, origin>> /\ pc[g] \in AttachPcs
      BY <2>7 DEF HandoffStreams, origins, manager, AttachPcs
    <3> QED BY <2>7, <3>1, KStarts DEF HandoffStreams
  <2>8. CASE UserTicks(g) \/ UserLooksInBackground(g) \/ UserAsks(g)  BY <2>8, UserWatchKeys
  <2>9. CASE UserReaps(g)  BY <2>9, UserReapsKeys
  <2>10. CASE Panics(g)  BY <2>10, PanicsKeys
  <2> QED BY <1>4, <2>1, <2>2, <2>3, <2>4, <2>5, <2>6, <2>7, <2>8, <2>9, <2>10 DEF Watch
<1>5. ASSUME NEW g \in Gens, Environment(g) PROVE KInv'
  BY <1>1, <1>5 DEF Environment, ProcessDies, LoginSucceeds, manager, origins, locals
<1>6. CASE UNCHANGED vars  BY <1>1, <1>6 DEF vars, slots
<1> QED BY <1>2, <1>3, <1>4, <1>5, <1>6 DEF Next

\* At start there is no rikey and nothing to register.
LEMMA InitKInv == Init => KInv
<1> SUFFICES ASSUME Init PROVE KInv
  OBVIOUS
<1>1. /\ \A c \in Clients : ses[c] = 0
      /\ \A x \in Tasks : pc[x] \in {"idle", "none"} /\ rk[x] = 0
      /\ \A g \in Gens : key[g] = 0
      /\ nextKey = 1
  BY DEF Init
<1>2. {"idle", "none"} \cap (FreshPcs \cup AttachPcs \cup CarryPcs) = {}
  BY DEF FreshPcs, AttachPcs, CarryPcs
<1>3. KeysApart  BY <1>1, <1>2 DEF KeysApart
<1>4. Registered  BY <1>1, <1>2 DEF Registered, Obliged
<1> QED BY <1>3, <1>4 DEF KInv

\* However launches, retries, cancels, takeovers, log-outs and reaps interleave, none of the
\* places that forget a rikey forgets that of a session some client is attached to.
THEOREM AttachedSessionsAreRegistered == Spec => []AttachedIsRegistered
<1>1. IInv /\ KInv => AttachedIsRegistered
  <2> SUFFICES ASSUME IInv, KInv, NEW c \in Clients, ses[c] # 0
               PROVE  \/ key[origin[ses[c]]] \in registry
                      \/ \E t \in Requests : pc[t] = "launch.adopt"
                                             /\ rk[t] = key[origin[ses[c]]]
    BY DEF AttachedIsRegistered
  <2>1. origin[ses[c]] \in Gens /\ Obliged(origin[ses[c]])  BY Owners DEF Obliged
  <2> QED BY <2>1 DEF KInv, Registered, Registering
<1> QED BY <1>1, InitKInv, NextKInv, Invariance, PTL DEF Spec
=============================================================================
