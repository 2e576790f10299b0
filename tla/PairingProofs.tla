---------------------------- MODULE PairingProofs ----------------------------
(***************************************************************************)
(* Proofs about Pairing for every set of devices and every number of       *)
(* attempts, calls of redfog-pair and starts of the server.                *)
(*                                                                         *)
(* The properties are about what survives: a list that is in memory while  *)
(* the server runs and in a file otherwise, an identity that is three      *)
(* files, and a hash that stays in the pairing entry while other devices'  *)
(* requests and PINs change the rest of it.  The invariant says, for each  *)
(* of them, what the part that survives still knows.                       *)
(***************************************************************************)
EXTENDS Pairing, TLAPS

FilesOK ==
    /\ boot \in {"down", "identity", "up"} /\ idFiles \in {"none", "cert", "key", "uuid", "whole"}
    /\ identity \in 0..MaxStarts /\ starts \in 0..MaxStarts
StoreOK == disk \in Files /\ persisting \in BOOLEAN /\ paired \in [Devices -> Entries]
PendingOK == pending \in {NoEntry} \cup PendingClients
WaitsOK == waits \in [Attempts -> {"none", "started", "waiting"}]
ToldOK == told \subseteq Attempts
ByOK == by \in [Attempts -> Givers]
DevicesOK == device \in [Devices -> Devs]
NetOK == net \subseteq Requests
ToolOK == relays \subseteq Submissions /\ calls \in 0..MaxRelays

\* An attempt that the server or the network knows of is some device's.
AttemptsAreDevices ==
    /\ \A r \in net : by[r.att] \in Devices
    /\ \A a \in Attempts : waits[a] # "none" => by[a] \in Devices
    /\ pending.is => by[pending.att] \in Devices

\* What can be read back is the list in memory, unless it is being written,
\* and a file that cannot be parsed has nobody in it.
FileAgrees ==
    /\ boot = "up" => persisting \/ disk = [shape |-> "current", paired |-> paired]
    /\ persisting => boot = "up"
    /\ disk.shape \notin {"legacy", "current"} => disk.paired = Nobody

\* A server that runs, or that a device has ever reached, has all its files.
IdentityIsWhole ==
    /\ boot = "up" => idFiles = "whole"
    /\ \A d \in Devices : device[d] # Idle => idFiles = "whole"

\* A key from an attempt's own PIN, and a hash made with it, mean that a human
\* relayed that PIN, whatever was submitted or restarted since.
PinWasTold ==
    pending.is => /\ pending.pin = pending.att => pending.att \in told
                  /\ pending.hash.is = "hash" => pending.hash.by \in told

Typed == /\ FilesOK /\ StoreOK /\ PendingOK /\ WaitsOK /\ ToldOK /\ ByOK
         /\ DevicesOK /\ NetOK /\ ToolOK
IInv == Typed /\ AttemptsAreDevices /\ FileAgrees /\ IdentityIsWhole /\ PinWasTold

-----------------------------------------------------------------------------
(***************************************************************************)
(* Facts about the bounds and the records.                                 *)
(***************************************************************************)
Steps == {"getservercert", "clientchallenge", "serverchallengeresp", "clientpairingsecret"}

\* No attempt is the missing one or the mistyped PIN.
LEMMA Bounds ==
  /\ MaxAttempts \in Nat /\ MaxRelays \in Nat /\ MaxStarts \in Nat /\ Veteran \in Devices
  /\ None \notin Attempts /\ Mistyped \notin Attempts /\ Attempts \subseteq Nat
BY PairingBounds DEF PairingBounds, None, Attempts, Mistyped

\* An entry, and what is in it.
LEMMA PendingRecord ==
  ASSUME PendingOK, pending.is
  PROVE  pending \in PendingClients /\ pending.att \in Attempts
<1>1. pending # NoEntry  BY DEF NoEntry
<1>2. pending \in PendingClients  BY <1>1 DEF PendingOK
<1> QED BY <1>2 DEF PendingClients

\* A device that is not idle is in an attempt.
LEMMA DeviceRecord ==
  ASSUME DevicesOK, NEW d \in Devices
  PROVE  /\ device[d].att \in Attempts \cup {None}
         /\ device[d] # Idle <=> device[d].phase # "idle"
         /\ device[d] # Idle => device[d].att \in Attempts
<1>1. device[d] \in Devs  BY DEF DevicesOK
<1>2. CASE device[d] = Idle  BY <1>2 DEF Idle
<1>3. CASE device[d] # Idle  BY <1>1, <1>3 DEF Devs, Idle
<1> QED BY <1>2, <1>3

\* The entry of a device that is listed.
LEMMA EntryRecord ==
  ASSUME NEW entry \in Entries, entry.is
  PROVE  entry \in [is : {TRUE}, settings : Givers]
<1>1. Unpaired.is = FALSE  BY DEF Unpaired
<1>2. entry # Unpaired  BY <1>1
<1> QED BY <1>2 DEF Entries

\* The list of nobody is a list, and so is what the server loads.
LEMMA Lists ==
  ASSUME StoreOK
  PROVE  Nobody \in [Devices -> Entries] /\ LoadState \in [Devices -> Entries]
<1>1. Nobody \in [Devices -> Entries]  BY DEF Nobody, Entries
<1>2. disk.paired \in [Devices -> Entries]  BY DEF StoreOK, Files
<1> QED BY <1>1, <1>2 DEF LoadState

\* persist() leaves a file that is being written.
LEMMA PersistEffect ==
  ASSUME StoreOK, NEW state \in [Devices -> Entries], Persist(state), boot' = "up"
  PROVE  StoreOK' /\ FileAgrees'
<1>1. [shape |-> "torn", paired |-> Nobody] \in Files  BY Lists DEF Files
<1>2. StoreOK'  BY <1>1 DEF StoreOK, Persist
<1>3. FileAgrees'  BY DEF FileAgrees, Persist
<1> QED BY <1>2, <1>3

\* What a device does with a response: it goes on in the same attempt, or stays as it is.
LEMMA ProceedsEffect ==
  ASSUME DevicesOK, NetOK, ByOK, \A x \in net : by[x.att] \in Devices,
         NEW r, r.att \in Attempts, r.step \in Steps, by[r.att] \in Devices,
         NEW step \in Steps, NEW sees \in BOOLEAN, Proceeds(r, step, sees)
  PROVE  /\ DevicesOK' /\ NetOK'
         /\ \A x \in net' : by[x.att] \in Devices
         /\ \A d \in Devices : device'[d] # Idle => device[d] # Idle
<1>1. Send(step, r.att, sees) \in Requests /\ Send(step, r.att, sees).att = r.att
  BY DEF Send, Requests, Steps
<1>2. NetOK' /\ \A x \in net' : by[x.att] \in Devices  BY <1>1 DEF NetOK, Proceeds
<1>3. CASE At(r)
  <2>1. device[by[r.att]].att = r.att /\ device[by[r.att]].phase = r.step  BY <1>3 DEF At
  <2>2. device[by[r.att]] = [phase |-> r.step, att |-> r.att]  BY <1>3 DEF At
  <2>8. device' = [device EXCEPT ![by[r.att]] = [device[by[r.att]] EXCEPT !.phase = step]]
    BY <1>3 DEF Proceeds
  <2>9. [device[by[r.att]] EXCEPT !.phase = step] = [phase |-> step, att |-> r.att]  BY <2>2
  <2>3. device' = [device EXCEPT ![by[r.att]] = [phase |-> step, att |-> r.att]]  BY <2>8, <2>9
  <2>4. [phase |-> step, att |-> r.att] \in Devs  BY DEF Devs, Steps
  <2>5. DevicesOK'  BY <2>3, <2>4 DEF DevicesOK
  <2>6. device[by[r.att]] # Idle  BY <2>1 DEF Idle, Steps
  <2>7. \A d \in Devices : d # by[r.att] => device'[d] = device[d]  BY <2>3 DEF DevicesOK
  <2> QED BY <1>2, <2>5, <2>6, <2>7
<1>4. CASE ~At(r)
  BY <1>2, <1>4 DEF Proceeds, DevicesOK
<1> QED BY <1>3, <1>4

\* ... or the attempt ends, with or without the device being paired.
LEMMA StopsEffect ==
  ASSUME DevicesOK, NetOK, ByOK, \A x \in net : by[x.att] \in Devices,
         NEW r, r.att \in Attempts, r.step \in Steps, by[r.att] \in Devices,
         NEW outcome \in {Idle, [phase |-> "paired", att |-> r.att]}, Stops(r, outcome)
  PROVE  /\ DevicesOK' /\ NetOK'
         /\ \A x \in net' : by[x.att] \in Devices
         /\ \A d \in Devices : device'[d] # Idle => device[d] # Idle
<1>1. NetOK' /\ \A x \in net' : by[x.att] \in Devices  BY DEF NetOK, Stops
<1>2. outcome \in Devs  BY DEF Devs
<1>3. CASE At(r)
  <2>1. device[by[r.att]] # Idle  BY <1>3 DEF At, Idle, Steps
  <2>2. device' = [device EXCEPT ![by[r.att]] = outcome]  BY <1>3 DEF Stops
  <2>3. DevicesOK'  BY <1>2, <2>2 DEF DevicesOK
  <2>4. \A d \in Devices : d # by[r.att] => device'[d] = device[d]  BY <2>2 DEF DevicesOK
  <2> QED BY <1>1, <2>1, <2>3, <2>4
<1>4. CASE ~At(r)
  BY <1>1, <1>4 DEF Stops, DevicesOK
<1> QED BY <1>3, <1>4

-----------------------------------------------------------------------------
(***************************************************************************)
(* The initial states, and what a step leaves alone.                       *)
(***************************************************************************)

\* The invariant holds initially.
LEMMA InitInv == ASSUME Init PROVE IInv
<1>1. FilesOK /\ ToolOK /\ ToldOK /\ NetOK  BY Bounds DEF Init, FilesOK, ToolOK, ToldOK, NetOK
<1>2. Nobody \in [Devices -> Entries] /\ [Nobody EXCEPT ![Veteran] = PairedEntry(NoOne)] \in [Devices -> Entries]
  BY DEF Nobody, Entries, PairedEntry, Givers
<1>9. disk \in Files
  <2>1. [shape |-> "none", paired |-> Nobody] \in Files  BY <1>2 DEF Files
  <2>2. [shape |-> "legacy", paired |-> [Nobody EXCEPT ![Veteran] = PairedEntry(NoOne)]] \in Files
    BY <1>2 DEF Files
  <2> QED BY <2>1, <2>2 DEF Init
<1>3. StoreOK  BY <1>2, <1>9 DEF Init, StoreOK
<1>4. PendingOK /\ WaitsOK /\ ByOK  BY DEF Init, PendingOK, WaitsOK, ByOK, Givers
<1>5. DevicesOK  BY DEF Init, DevicesOK, Devs
<1>6. AttemptsAreDevices /\ PinWasTold  BY DEF Init, AttemptsAreDevices, PinWasTold, NoEntry
<1>7. FileAgrees  BY DEF Init, FileAgrees
<1>8. IdentityIsWhole  BY DEF Init, IdentityIsWhole
<1> QED BY <1>1, <1>3, <1>4, <1>5, <1>6, <1>7, <1>8 DEF IInv, Typed

\* A step of the files only.
LEMMA OthersSame ==
  ASSUME IInv, UNCHANGED <<handshake, people, tool>>, FilesOK', StoreOK', FileAgrees', IdentityIsWhole'
  PROVE  IInv'
<1> USE DEF IInv, Typed, handshake, people, tool
<1>1. PendingOK' /\ WaitsOK' /\ ToldOK'  BY DEF PendingOK, WaitsOK, ToldOK
<1>2. ByOK' /\ DevicesOK' /\ NetOK' /\ ToolOK'  BY DEF ByOK, DevicesOK, NetOK, ToolOK
<1>3. AttemptsAreDevices' /\ PinWasTold'  BY DEF AttemptsAreDevices, PinWasTold
<1> QED BY <1>1, <1>2, <1>3

\* A step that leaves the files alone and wakes no device of a server that is not up.
LEMMA FilesSame ==
  ASSUME IInv, UNCHANGED <<files, store>>,
         \A d \in Devices : device'[d] # Idle => device[d] # Idle \/ boot = "up"
  PROVE  FilesOK' /\ StoreOK' /\ FileAgrees' /\ IdentityIsWhole'
<1> USE DEF IInv, Typed, files, store
<1>1. FilesOK' /\ StoreOK'  BY DEF FilesOK, StoreOK
<1>2. FileAgrees' /\ IdentityIsWhole'  BY DEF FileAgrees, IdentityIsWhole
<1> QED BY <1>1, <1>2

-----------------------------------------------------------------------------
(***************************************************************************)
(* Starts, crashes and writes of the server.                               *)
(***************************************************************************)

\* A start, the identity's files, the list, and the end of a write.
LEMMA StartupKeeps == ASSUME IInv, Startup PROVE IInv'
<1> USE DEF IInv, Typed
<1>1. CASE ServerStarts
  <2>1. starts' \in 0..MaxStarts  BY <1>1, Bounds DEF ServerStarts, FilesOK
  <2>2. UNCHANGED <<handshake, people, tool>> /\ UNCHANGED device  BY <1>1 DEF ServerStarts, people
  <2>3. CASE CanLoad
    <3>1. boot' = "up" /\ Persist(LoadState) /\ UNCHANGED <<idFiles, identity>>
      BY <1>1, <2>3 DEF ServerStarts
    <3>2. FilesOK'  BY <2>1, <3>1 DEF FilesOK
    <3>3. StoreOK' /\ FileAgrees'  BY <3>1, Lists, PersistEffect
    <3>4. IdentityIsWhole'  BY <2>3, <3>1 DEF IdentityIsWhole, CanLoad
    <3> QED BY <2>2, <3>2, <3>3, <3>4, OthersSame
  <2>4. CASE ~CanLoad
    <3>1. boot' = "identity" /\ idFiles' = "none" /\ UNCHANGED <<identity, store>> /\ boot = "down"
      BY <1>1, <2>4 DEF ServerStarts
    <3>2. FilesOK'  BY <2>1, <3>1 DEF FilesOK
    <3>3. StoreOK' /\ FileAgrees'  BY <3>1 DEF StoreOK, FileAgrees, store
    <3>4. IdentityIsWhole'  BY <2>2, <2>4, <3>1 DEF IdentityIsWhole, CanLoad
    <3> QED BY <2>2, <3>2, <3>3, <3>4, OthersSame
  <2> QED BY <2>3, <2>4
<1>2. CASE IdentityWrites
  <2>1. UNCHANGED <<boot, starts, store, handshake, people, tool>> /\ idFiles # "whole" /\ boot = "identity"
    BY <1>2 DEF IdentityWrites
  <2>2. idFiles' \in {"cert", "key", "uuid", "whole"}
    BY <1>2, <2>1 DEF IdentityWrites, NextFile, FilesOK
  <2>3. FilesOK'  BY <1>2, <2>1, <2>2 DEF IdentityWrites, FilesOK
  <2>4. StoreOK' /\ FileAgrees'  BY <2>1 DEF StoreOK, FileAgrees, store
  <2>5. IdentityIsWhole'  BY <2>1 DEF IdentityIsWhole, people
  <2> QED BY <2>1, <2>3, <2>4, <2>5, OthersSame
<1>3. CASE ClientsLoad
  <2>1. boot' = "up" /\ Persist(LoadState) /\ idFiles' = "whole"
        /\ UNCHANGED <<idFiles, identity, starts, handshake, people, tool>>
    BY <1>3 DEF ClientsLoad
  <2>2. FilesOK'  BY <2>1 DEF FilesOK
  <2>3. StoreOK' /\ FileAgrees'  BY <2>1, Lists, PersistEffect
  <2>4. IdentityIsWhole'  BY <2>1 DEF IdentityIsWhole
  <2> QED BY <2>1, <2>2, <2>3, <2>4, OthersSame
<1>4. CASE PersistEnds
  <2>1. disk' = [shape |-> "current", paired |-> paired] /\ persisting' = FALSE
        /\ UNCHANGED <<files, paired, handshake, people, tool>>
    BY <1>4 DEF PersistEnds
  <2>2. FilesOK'  BY <2>1 DEF FilesOK, files
  <2>3. StoreOK'  BY <2>1 DEF StoreOK, Files
  <2>4. FileAgrees'  BY <2>1 DEF FileAgrees
  <2>5. IdentityIsWhole'  BY <2>1 DEF IdentityIsWhole, files, people
  <2> QED BY <2>1, <2>2, <2>3, <2>4, <2>5, OthersSame
<1> QED BY <1>1, <1>2, <1>3, <1>4 DEF Startup

\* A crash, at any point of anything.
LEMMA CrashKeeps == ASSUME IInv, ServerCrashes PROVE IInv'
<1> USE DEF IInv, Typed
<1>1. /\ boot' = "down" /\ paired' = Nobody /\ persisting' = FALSE
      /\ pending' = NoEntry /\ waits' = [a \in Attempts |-> "none"]
      /\ net' = {} /\ relays' = {}
      /\ device' = [d \in Devices |-> IF MidHandshake(d) THEN Idle ELSE device[d]]
      /\ UNCHANGED <<idFiles, identity, starts, disk, told, by, calls>>
  BY DEF ServerCrashes
<1>2. FilesOK' /\ ToolOK' /\ ToldOK' /\ NetOK' /\ ByOK'
  BY <1>1 DEF FilesOK, ToolOK, ToldOK, NetOK, ByOK
<1>3. StoreOK'  BY <1>1, Lists DEF StoreOK
<1>4. PendingOK' /\ WaitsOK'  BY <1>1 DEF PendingOK, WaitsOK
<1>5. Idle \in Devs  BY DEF Devs
<1>6. DevicesOK'  BY <1>1, <1>5 DEF DevicesOK
<1>7. AttemptsAreDevices' /\ PinWasTold'  BY <1>1 DEF AttemptsAreDevices, PinWasTold, NoEntry
<1>8. FileAgrees'  BY <1>1 DEF FileAgrees
<1>9. IdentityIsWhole'  BY <1>1 DEF IdentityIsWhole
<1> QED BY <1>2, <1>3, <1>4, <1>6, <1>7, <1>8, <1>9

-----------------------------------------------------------------------------
(***************************************************************************)
(* The phases of /pair, its timer, and the devices and humans around it.   *)
(***************************************************************************)

\* Every phase that a request of an attempt asks for.
LEMMA PhasesKeep == ASSUME IInv, Phases PROVE IInv'
<1> USE DEF IInv, Typed
<1> SUFFICES ASSUME NEW r \in net,
                    \/ StartPairing(r) \/ ClientChallenge(r)
                    \/ ServerChallengeResponse(r) \/ CheckClientPairingSecret(r)
             PROVE  IInv'
  BY DEF Phases
<1>1. r \in Requests /\ r.att \in Attempts /\ r.step \in Steps /\ r.sees \in BOOLEAN
  BY DEF NetOK, Requests, Steps
<1>2. by[r.att] \in Devices /\ \A x \in net : by[x.att] \in Devices  BY DEF AttemptsAreDevices
<1>3. UNCHANGED <<files, by, tool>> /\ boot = "up"
  BY DEF StartPairing, ClientChallenge, ServerChallengeResponse, CheckClientPairingSecret, Same,
         Handles, Ready
<1>4. ByOK' /\ ToolOK'  BY <1>3 DEF ByOK, ToolOK, tool
<1>5. CASE StartPairing(r)
  <2>1. UNCHANGED <<store, told, device, net>> /\ waits' = [waits EXCEPT ![r.att] = "started"]
        /\ pending' = [is |-> TRUE, att |-> r.att, pin |-> None, challenge |-> None,
                       hash |-> NoHash, settings |-> NoOne]
    BY <1>5 DEF StartPairing
  <2>2. PendingOK'  BY <1>1, <2>1 DEF PendingOK, PendingClients, Hashes, Givers
  <2>3. WaitsOK' /\ ToldOK' /\ DevicesOK' /\ NetOK'
    BY <2>1 DEF WaitsOK, ToldOK, DevicesOK, NetOK
  <2>4. AttemptsAreDevices'  BY <1>2, <1>3, <2>1 DEF AttemptsAreDevices, WaitsOK
  <2>5. PinWasTold'  BY <1>1, <2>1, Bounds DEF PinWasTold, NoHash
  <2>6. FilesOK' /\ StoreOK' /\ FileAgrees' /\ IdentityIsWhole'  BY <1>3, <2>1, FilesSame
  <2> QED BY <1>4, <2>2, <2>3, <2>4, <2>5, <2>6
<1>6. CASE ClientChallenge(r)
  <2>1. UNCHANGED <<store, waits, told>>  BY <1>6 DEF ClientChallenge
  <2>2. \/ HasKey /\ pending' = [pending EXCEPT !.challenge = r.att]
           /\ Proceeds(r, "serverchallengeresp", KeyIsOf(r.att))
        \/ Stops(r, Idle) /\ UNCHANGED pending
    BY <1>6 DEF ClientChallenge
  <2>3. KeyIsOf(r.att) \in BOOLEAN  BY DEF KeyIsOf
  <2>4. /\ DevicesOK' /\ NetOK' /\ \A x \in net' : by[x.att] \in Devices
        /\ \A d \in Devices : device'[d] # Idle => device[d] # Idle
    <3>1. CASE Proceeds(r, "serverchallengeresp", KeyIsOf(r.att))
      BY <1>1, <1>2, <2>3, <3>1, ProceedsEffect DEF Steps
    <3>2. CASE Stops(r, Idle)
      BY <1>1, <1>2, <3>2, StopsEffect
    <3> QED BY <2>2, <3>1, <3>2
  <2>5. /\ PendingOK' /\ pending'.is = pending.is
        /\ pending.is => /\ pending'.att = pending.att /\ pending'.pin = pending.pin
                         /\ pending'.hash = pending.hash
    <3>1. CASE UNCHANGED pending  BY <3>1 DEF PendingOK
    <3>2. CASE HasKey /\ pending' = [pending EXCEPT !.challenge = r.att]
      <4>1. pending \in PendingClients  BY <3>2, PendingRecord DEF HasKey
      <4> QED BY <1>1, <3>2, <4>1 DEF PendingOK, PendingClients
    <3> QED BY <2>2, <3>1, <3>2
  <2>6. WaitsOK' /\ ToldOK'  BY <2>1 DEF WaitsOK, ToldOK
  <2>7. AttemptsAreDevices'  BY <1>3, <2>1, <2>4, <2>5 DEF AttemptsAreDevices
  <2>8. PinWasTold'  BY <2>1, <2>5 DEF PinWasTold
  <2>9. FilesOK' /\ StoreOK' /\ FileAgrees' /\ IdentityIsWhole'  BY <1>3, <2>1, <2>4, FilesSame
  <2> QED BY <1>4, <2>4, <2>5, <2>6, <2>7, <2>8, <2>9
<1>7. CASE ServerChallengeResponse(r)
  <2> DEFINE made == IF KeyIsOf(r.att) THEN HashOf(IF r.sees THEN r.att ELSE None, r.att) ELSE Junk
  <2>1. UNCHANGED <<store, waits, told>>  BY <1>7 DEF ServerChallengeResponse
  <2>2. \/ HasKey /\ pending' = [pending EXCEPT !.hash = made]
        \/ UNCHANGED pending
    BY <1>7 DEF ServerChallengeResponse
  <2>3. Proceeds(r, "clientpairingsecret", TRUE) \/ Stops(r, Idle)
    BY <1>7 DEF ServerChallengeResponse
  <2>4. /\ DevicesOK' /\ NetOK' /\ \A x \in net' : by[x.att] \in Devices
        /\ \A d \in Devices : device'[d] # Idle => device[d] # Idle
    <3>1. CASE Proceeds(r, "clientpairingsecret", TRUE)
      BY <1>1, <1>2, <3>1, ProceedsEffect DEF Steps
    <3>2. CASE Stops(r, Idle)
      BY <1>1, <1>2, <3>2, StopsEffect
    <3> QED BY <2>3, <3>1, <3>2
  <2>5. made \in Hashes  BY <1>1 DEF Hashes, HashOf
  <2>6. pending.is /\ made.is = "hash" => made.by \in told
    <3>1. CASE KeyIsOf(r.att)
      BY <3>1 DEF HashOf, KeyIsOf, PinWasTold
    <3>2. CASE ~KeyIsOf(r.att)
      BY <3>2 DEF Junk
    <3> QED BY <3>1, <3>2
  <2> HIDE DEF made
  <2>7. /\ PendingOK' /\ pending'.is = pending.is
        /\ pending.is => /\ pending'.att = pending.att /\ pending'.pin = pending.pin
                         /\ pending'.hash \in {pending.hash, made}
    <3>1. CASE UNCHANGED pending  BY <3>1 DEF PendingOK
    <3>2. CASE HasKey /\ pending' = [pending EXCEPT !.hash = made]
      <4>1. pending \in PendingClients  BY <3>2, PendingRecord DEF HasKey
      <4> QED BY <2>5, <3>2, <4>1 DEF PendingOK, PendingClients
    <3> QED BY <2>2, <3>1, <3>2
  <2>8. WaitsOK' /\ ToldOK'  BY <2>1 DEF WaitsOK, ToldOK
  <2>9. AttemptsAreDevices'  BY <1>3, <2>1, <2>4, <2>7 DEF AttemptsAreDevices
  <2>10. PinWasTold'  BY <2>1, <2>6, <2>7 DEF PinWasTold
  <2>11. FilesOK' /\ StoreOK' /\ FileAgrees' /\ IdentityIsWhole'  BY <1>3, <2>1, <2>4, FilesSame
  <2> QED BY <1>4, <2>4, <2>7, <2>8, <2>9, <2>10, <2>11
<1>8. CASE CheckClientPairingSecret(r)
  <2>1. UNCHANGED handshake  BY <1>8 DEF CheckClientPairingSecret
  <2>2. \/ SecretVerifies(r)
           /\ Persist([paired EXCEPT ![by[pending.att]] = PairedEntry(pending.settings)])
           /\ Stops(r, [phase |-> "paired", att |-> r.att])
        \/ Stops(r, Idle) /\ UNCHANGED store
    BY <1>8 DEF CheckClientPairingSecret
  <2>3. /\ DevicesOK' /\ NetOK' /\ \A x \in net' : by[x.att] \in Devices
        /\ \A d \in Devices : device'[d] # Idle => device[d] # Idle
    BY <1>1, <1>2, <2>2, StopsEffect
  <2>4. PendingOK' /\ WaitsOK' /\ ToldOK'  BY <2>1 DEF PendingOK, WaitsOK, ToldOK, handshake
  <2>5. AttemptsAreDevices' /\ PinWasTold'
    BY <1>3, <2>1, <2>3 DEF AttemptsAreDevices, PinWasTold, handshake
  <2>6. FilesOK' /\ IdentityIsWhole'
    BY <1>3, <2>3 DEF FilesOK, IdentityIsWhole, files
  <2>7. StoreOK' /\ FileAgrees'
    <3>1. CASE UNCHANGED store
      BY <1>3, <3>1 DEF StoreOK, FileAgrees, store, files
    <3>2. CASE SecretVerifies(r)
               /\ Persist([paired EXCEPT ![by[pending.att]] = PairedEntry(pending.settings)])
      <4>1. pending \in PendingClients  BY <3>2, PendingRecord DEF SecretVerifies
      <4>2. PairedEntry(pending.settings) \in Entries
        BY <4>1 DEF PendingClients, PairedEntry, Entries
      <4>3. [paired EXCEPT ![by[pending.att]] = PairedEntry(pending.settings)] \in [Devices -> Entries]
        BY <4>2 DEF StoreOK
      <4>4. boot' = "up"  BY <1>3 DEF files
      <4> QED BY <3>2, <4>3, <4>4, PersistEffect
    <3> QED BY <2>2, <3>1, <3>2
  <2> QED BY <1>4, <2>3, <2>4, <2>5, <2>6, <2>7
<1> QED BY <1>5, <1>6, <1>7, <1>8

\* The request that waits for the PIN starts to listen, and gives up.
LEMMA TimersKeep == ASSUME IInv, Timers PROVE IInv'
<1> USE DEF IInv, Typed
<1>1. ASSUME NEW a \in Attempts, PinListens(a) PROVE IInv'
  <2>1. waits[a] = "started" /\ waits' = [waits EXCEPT ![a] = "waiting"]
        /\ UNCHANGED <<files, store, pending, told, people, tool>>
    BY <1>1 DEF PinListens
  <2>2. WaitsOK' /\ ToldOK' /\ PendingOK' /\ ByOK' /\ DevicesOK' /\ NetOK' /\ ToolOK'
    BY <2>1 DEF WaitsOK, ToldOK, PendingOK, ByOK, DevicesOK, NetOK, ToolOK, people, tool
  <2>3. AttemptsAreDevices' /\ PinWasTold'
    BY <2>1 DEF AttemptsAreDevices, PinWasTold, WaitsOK, people
  <2>4. FilesOK' /\ StoreOK' /\ FileAgrees' /\ IdentityIsWhole'  BY <2>1, FilesSame DEF people
  <2> QED BY <2>2, <2>3, <2>4
<1>2. ASSUME NEW a \in Attempts, PinTimesOut(a) PROVE IInv'
  <2> DEFINE r == Send("getservercert", a, FALSE)
  <2>1. waits[a] = "waiting" /\ waits' = [waits EXCEPT ![a] = "none"] /\ Stops(r, Idle)
        /\ UNCHANGED <<files, store, pending, told, by, tool>>
    BY <1>2 DEF PinTimesOut
  <2>2. r.att = a /\ r.step \in Steps  BY DEF Send, Steps
  <2>3. by[a] \in Devices /\ \A x \in net : by[x.att] \in Devices  BY <2>1 DEF AttemptsAreDevices
  <2> HIDE DEF r
  <2>4. /\ DevicesOK' /\ NetOK' /\ \A x \in net' : by[x.att] \in Devices
        /\ \A d \in Devices : device'[d] # Idle => device[d] # Idle
    BY <2>1, <2>2, <2>3, StopsEffect
  <2>5. WaitsOK' /\ ToldOK' /\ PendingOK' /\ ByOK' /\ ToolOK'
    BY <2>1 DEF WaitsOK, ToldOK, PendingOK, ByOK, ToolOK, tool
  <2>6. AttemptsAreDevices' /\ PinWasTold'
    BY <2>1, <2>4 DEF AttemptsAreDevices, PinWasTold, WaitsOK
  <2>7. FilesOK' /\ StoreOK' /\ FileAgrees' /\ IdentityIsWhole'  BY <2>1, <2>4, FilesSame
  <2> QED BY <2>4, <2>5, <2>6, <2>7
<1> QED BY <1>1, <1>2 DEF Timers

\* A change of the list from redfog-pair or a launch: settings, or none.
LEMMA ListChangeKeeps ==
  ASSUME IInv, NEW state \in [Devices -> Entries], Persist(state), Ready,
         UNCHANGED <<files, handshake, people, relays>>, calls' \in 0..MaxRelays
  PROVE  IInv'
<1> USE DEF IInv, Typed
<1>1. boot' = "up"  BY DEF Ready, files
<1>2. StoreOK' /\ FileAgrees'  BY <1>1, PersistEffect
<1>3. FilesOK' /\ IdentityIsWhole'  BY DEF FilesOK, IdentityIsWhole, files, people
<1>4. WaitsOK' /\ ToldOK' /\ PendingOK' /\ ByOK' /\ DevicesOK' /\ NetOK' /\ ToolOK'
  BY DEF WaitsOK, ToldOK, PendingOK, ByOK, DevicesOK, NetOK, ToolOK, people, handshake
<1>5. AttemptsAreDevices' /\ PinWasTold'  BY DEF AttemptsAreDevices, PinWasTold, people, handshake
<1> QED BY <1>2, <1>3, <1>4, <1>5

\* A submission of redfog-pair reaches the entry that is there by then.
LEMMA SubmitKeeps == ASSUME IInv, NEW s \in relays, SubmitPin(s) PROVE IInv'
<1> USE DEF IInv, Typed
<1>1. UNCHANGED <<files, store, by, calls>> /\ relays' = relays \ {s} /\ boot = "up"
  BY DEF SubmitPin, Ready
<1>2. ByOK' /\ ToolOK'  BY <1>1 DEF ByOK, ToolOK
<1>3. s \in Submissions /\ s.pin \in Pins \cup {None} /\ s.settings \in Givers
  BY DEF ToolOK, Submissions
<1>4. CASE ~pending.is
  <2>1. UNCHANGED <<handshake, device, net>>  BY <1>4 DEF SubmitPin
  <2>2. WaitsOK' /\ ToldOK' /\ PendingOK' /\ DevicesOK' /\ NetOK'
    BY <2>1 DEF WaitsOK, ToldOK, PendingOK, DevicesOK, NetOK, handshake
  <2>3. AttemptsAreDevices' /\ PinWasTold'
    BY <1>1, <2>1 DEF AttemptsAreDevices, PinWasTold, handshake
  <2>4. FilesOK' /\ StoreOK' /\ FileAgrees' /\ IdentityIsWhole'  BY <1>1, <2>1, FilesSame
  <2> QED BY <1>2, <2>2, <2>3, <2>4
<1>5. CASE pending.is
  <2> DEFINE a == pending.att
             set == [pending EXCEPT !.settings = IF s.settings = NoOne THEN @ ELSE s.settings]
             given == s.valid /\ s.pin # None
             wakes == s.valid /\ s.pin # None /\ waits[a] = "waiting"
             r == Send("getservercert", a, FALSE)
  <2>1. /\ pending' = IF given THEN [set EXCEPT !.pin = s.pin] ELSE set
        /\ told' = IF s.valid /\ s.pin = a THEN told \cup {a} ELSE told
        /\ waits' = IF wakes THEN [waits EXCEPT ![a] = "none"] ELSE waits
        /\ IF wakes THEN Proceeds(r, "clientchallenge", FALSE) ELSE UNCHANGED <<device, net>>
    BY <1>5 DEF SubmitPin
  <2>2. pending \in PendingClients /\ a \in Attempts  BY <1>5, PendingRecord
  <2>3. set \in PendingClients /\ set.att = a /\ set.pin = pending.pin /\ set.hash = pending.hash
        /\ set.is = TRUE
    BY <1>3, <2>2 DEF PendingClients
  <2>4. r.att = a /\ r.step \in Steps  BY DEF Send, Steps
  <2>5. by[a] \in Devices /\ \A x \in net : by[x.att] \in Devices
    BY <1>5 DEF AttemptsAreDevices
  <2> HIDE DEF set, r
  <2>6. /\ pending' \in PendingClients /\ pending'.is /\ pending'.att = a
        /\ pending'.hash = pending.hash
        /\ pending'.pin = IF given THEN s.pin ELSE pending.pin
    BY <1>3, <2>1, <2>3 DEF PendingClients
  <2>7. PendingOK'  BY <2>6 DEF PendingOK
  <2>8. WaitsOK' /\ ToldOK' /\ told \subseteq told'  BY <2>1, <2>2 DEF WaitsOK, ToldOK
  <2>9. /\ DevicesOK' /\ NetOK' /\ \A x \in net' : by[x.att] \in Devices
        /\ \A d \in Devices : device'[d] # Idle => device[d] # Idle
    <3>1. CASE wakes
      <4>1. Proceeds(r, "clientchallenge", FALSE)  BY <2>1, <3>1
      <4> QED BY <2>2, <2>4, <2>5, <4>1, ProceedsEffect DEF Steps
    <3>2. CASE ~wakes
      <4>1. UNCHANGED <<device, net>>  BY <2>1, <3>2
      <4> QED BY <2>5, <4>1 DEF DevicesOK, NetOK
    <3> QED BY <3>1, <3>2
  <2>10. AttemptsAreDevices'
    <3>1. \A x \in Attempts : waits'[x] # "none" => waits[x] # "none"  BY <2>1 DEF WaitsOK
    <3> QED BY <1>1, <2>5, <2>6, <2>9, <3>1 DEF AttemptsAreDevices
  <2>11. PinWasTold'
    <3>1. pending'.pin = pending'.att => pending'.att \in told'
      <4>1. CASE given  BY <2>1, <2>6, <4>1
      <4>2. CASE ~given  BY <1>5, <2>6, <2>8, <4>2 DEF PinWasTold
      <4> QED BY <4>1, <4>2
    <3>2. pending'.hash.is = "hash" => pending'.hash.by \in told'
      BY <1>5, <2>6, <2>8 DEF PinWasTold
    <3> QED BY <3>1, <3>2 DEF PinWasTold
  <2>12. FilesOK' /\ StoreOK' /\ FileAgrees' /\ IdentityIsWhole'  BY <1>1, <2>9, FilesSame
  <2> QED BY <1>2, <2>7, <2>8, <2>9, <2>10, <2>11, <2>12
<1> QED BY <1>4, <1>5

\* Every other step of a device, of redfog-pair, or of a launch.
LEMMA HumansKeep == ASSUME IInv, Humans PROVE IInv'
<1> USE DEF IInv, Typed
<1>1. ASSUME NEW d \in Devices, DeviceStarts(d) PROVE IInv'
  <2>1. boot = "up" /\ UNCHANGED <<files, store, handshake, tool>>  BY <1>1 DEF DeviceStarts
  <2>2. PICK a \in Attempts :
          /\ by' = [by EXCEPT ![a] = d]
          /\ device' = [device EXCEPT ![d] = [phase |-> "getservercert", att |-> a]]
          /\ net' = net \cup {Send("getservercert", a, FALSE)}
    BY <1>1 DEF DeviceStarts
  <2>3. ByOK' /\ by'[a] = d /\ \A b \in Attempts : b # a => by'[b] = by[b]
    BY <2>2 DEF ByOK, Givers
  <2>4. Send("getservercert", a, FALSE) \in Requests /\ Send("getservercert", a, FALSE).att = a
    BY DEF Send, Requests
  <2>5. NetOK'  BY <2>2, <2>4 DEF NetOK
  <2>6. [phase |-> "getservercert", att |-> a] \in Devs  BY DEF Devs
  <2>7. DevicesOK'  BY <2>2, <2>6 DEF DevicesOK
  <2>8. WaitsOK' /\ ToldOK' /\ PendingOK' /\ ToolOK'
    BY <2>1 DEF WaitsOK, ToldOK, PendingOK, ToolOK, handshake, tool
  <2>9. \A b \in Attempts : by[b] \in Devices => by'[b] \in Devices  BY <2>3
  <2>10. \A x \in net' : by'[x.att] \in Devices
    <3>1. \A x \in net : x.att \in Attempts  BY DEF NetOK, Requests
    <3> QED BY <2>2, <2>3, <2>4, <2>9, <3>1 DEF AttemptsAreDevices
  <2>11. AttemptsAreDevices'
    <3>1. pending.is => pending.att \in Attempts  BY PendingRecord
    <3> QED BY <2>1, <2>9, <2>10, <3>1 DEF AttemptsAreDevices, handshake
  <2>12. PinWasTold'  BY <2>1 DEF PinWasTold, handshake
  <2>13. FilesOK' /\ StoreOK' /\ FileAgrees' /\ IdentityIsWhole'  BY <2>1, FilesSame
  <2> QED BY <2>3, <2>5, <2>7, <2>8, <2>11, <2>12, <2>13
<1>2. ASSUME NEW d \in Devices, DeviceGivesUp(d) PROVE IInv'
  <2>1. device' = [device EXCEPT ![d] = Idle] /\ UNCHANGED <<files, store, handshake, by, net, tool>>
    BY <1>2 DEF DeviceGivesUp
  <2>2. Idle \in Devs  BY DEF Devs
  <2>3. DevicesOK' /\ \A x \in Devices : device'[x] # Idle => device[x] # Idle
    BY <2>1, <2>2 DEF DevicesOK
  <2>4. WaitsOK' /\ ToldOK' /\ PendingOK' /\ ByOK' /\ NetOK' /\ ToolOK'
    BY <2>1 DEF WaitsOK, ToldOK, PendingOK, ByOK, NetOK, ToolOK, handshake, tool
  <2>5. AttemptsAreDevices' /\ PinWasTold'  BY <2>1 DEF AttemptsAreDevices, PinWasTold, handshake
  <2>6. FilesOK' /\ StoreOK' /\ FileAgrees' /\ IdentityIsWhole'  BY <2>1, <2>3, FilesSame
  <2> QED BY <2>3, <2>4, <2>5, <2>6
<1>3. ASSUME NEW d \in Devices, PairTool(d) PROVE IInv'
  <2>1. UNCHANGED <<files, store, handshake, people>> /\ calls < MaxRelays /\ calls' = calls + 1
    BY <1>3 DEF PairTool
  <2>2. PICK pin \in {None, Mistyped, device[d].att}, settings \in {d, NoOne}, valid \in BOOLEAN :
          relays' = relays \cup {[pin |-> pin, settings |-> settings, valid |-> valid]}
    BY <1>3 DEF PairTool
  <2>3. pin \in Pins \cup {None} /\ settings \in Givers  BY DeviceRecord DEF Pins, Givers
  <2>4. ToolOK'  BY <2>1, <2>2, <2>3, Bounds DEF ToolOK, Submissions
  <2>5. WaitsOK' /\ ToldOK' /\ PendingOK' /\ ByOK' /\ DevicesOK' /\ NetOK'
    BY <2>1 DEF WaitsOK, ToldOK, PendingOK, ByOK, DevicesOK, NetOK, handshake, people
  <2>6. AttemptsAreDevices' /\ PinWasTold'
    BY <2>1 DEF AttemptsAreDevices, PinWasTold, handshake, people
  <2>7. FilesOK' /\ StoreOK' /\ FileAgrees' /\ IdentityIsWhole'  BY <2>1, FilesSame DEF people
  <2> QED BY <2>4, <2>5, <2>6, <2>7
<1>4. ASSUME NEW d \in Devices, UpdatePaired(d) PROVE IInv'
  <2>1. Ready /\ Persist([paired EXCEPT ![d].settings = d]) /\ paired[d].is
        /\ UNCHANGED <<files, handshake, people, relays>> /\ calls < MaxRelays /\ calls' = calls + 1
    BY <1>4 DEF UpdatePaired
  <2>2. calls' \in 0..MaxRelays  BY <2>1, Bounds DEF ToolOK
  <2>3. [paired EXCEPT ![d].settings = d] \in [Devices -> Entries]
    <3>3. paired[d] \in Entries /\ paired[d].is  BY <2>1 DEF StoreOK
    <3>1. paired[d] \in [is : {TRUE}, settings : Givers]  BY <3>3, EntryRecord
    <3>2. [paired[d] EXCEPT !.settings = d] \in Entries  BY <3>1 DEF Entries, Givers
    <3> QED BY <3>2 DEF StoreOK
  <2> QED BY <2>1, <2>2, <2>3, ListChangeKeeps
<1>5. ASSUME NEW d \in Devices, NoteSeen(d) PROVE IInv'
  <2>1. Ready /\ Persist(paired) /\ UNCHANGED <<files, handshake, people, relays, calls>>
    BY <1>5 DEF NoteSeen, tool
  <2>2. paired \in [Devices -> Entries] /\ calls' \in 0..MaxRelays  BY <2>1 DEF StoreOK, ToolOK
  <2> QED BY <2>1, <2>2, ListChangeKeeps
<1> QED BY <1>1, <1>2, <1>3, <1>4, <1>5, SubmitKeeps DEF Humans

\* The invariant holds in every reachable state.
LEMMA Invariance == Spec => []IInv
<1>1. Init => IInv  BY InitInv
<1>2. IInv /\ [Next]_vars => IInv'
  <2> SUFFICES ASSUME IInv, [Next]_vars PROVE IInv'  OBVIOUS
  <2>1. CASE UNCHANGED vars
    <3>1. FilesOK' /\ StoreOK' /\ FileAgrees' /\ IdentityIsWhole'
      BY <2>1, FilesSame DEF vars, people
    <3> QED BY <2>1, <3>1, OthersSame DEF vars
  <2> QED BY <2>1, StartupKeeps, CrashKeeps, PhasesKeep, TimersKeep, HumansKeep DEF Next
<1> QED BY <1>1, <1>2, PTL DEF Spec

-----------------------------------------------------------------------------
(***************************************************************************)
(* The theorems.                                                           *)
(***************************************************************************)

\* The files, the list, the pairing entry, the requests and the devices have their types.
THEOREM TypesHold == Spec => []TypeOK
<1>1. IInv => TypeOK
  BY DEF IInv, Typed, FilesOK, StoreOK, PendingOK, WaitsOK, ToldOK, ByOK, DevicesOK, NetOK,
         ToolOK, TypeOK
<1> QED BY <1>1, Invariance, PTL

\* Outside a write paired-clients.json says what ClientManager has in memory.
THEOREM DiskFollows == Spec => []DiskAgrees
<1>1. IInv => DiskAgrees  BY DEF IInv, FileAgrees, DiskAgrees, Ready
<1> QED BY <1>1, Invariance, PTL

\* A device that clientpairingsecret adds has had a PIN of its own relayed, to the entry of
\* the attempt whose hash is compared, although devices share one entry and replace it.
THEOREM OwnPinPairs == Spec => PairedByOwnPin
<1> DEFINE Own == \A d \in Devices :
                    boot' = boot /\ paired'[d].is /\ ~paired[d].is =>
                       boot = "identity" \/ \E a \in told : by[a] = d
<1>1. IInv /\ [Next]_vars => [Own]_vars
  <2> SUFFICES ASSUME IInv, Next, NEW d \in Devices, boot' = boot, paired'[d].is, ~paired[d].is
               PROVE  \E a \in told : by[a] = d
    BY DEF vars
  <2>1. PICK r \in net : CheckClientPairingSecret(r) /\ paired' # paired
    <3>1. ~Startup
      <4>1. ~ServerStarts  BY DEF ServerStarts
      <4>2. ~IdentityWrites  BY DEF IdentityWrites, store
      <4>3. ~ClientsLoad  BY DEF ClientsLoad
      <4>4. ~PersistEnds  BY DEF PersistEnds
      <4> QED BY <4>1, <4>2, <4>3, <4>4 DEF Startup
    <3>2. ~ServerCrashes  BY DEF ServerCrashes
    <3>3. ~Timers  BY DEF Timers, PinListens, PinTimesOut, store
    <3>4. ~Humans
      <4>1. \A s \in relays : ~SubmitPin(s)  BY DEF SubmitPin, store
      <4>2. \A x \in Devices : ~DeviceStarts(x) /\ ~DeviceGivesUp(x) /\ ~PairTool(x)
        BY DEF DeviceStarts, DeviceGivesUp, PairTool, store
      <4>3. \A x \in Devices : ~NoteSeen(x)  BY DEF NoteSeen, Persist
      <4>4. ASSUME NEW x \in Devices, UpdatePaired(x) PROVE FALSE
        <5>1. paired' = [paired EXCEPT ![x] = [paired[x] EXCEPT !.settings = x]] /\ paired[x].is
          BY <4>4 DEF UpdatePaired, Persist
        <5>2. x # d  BY <5>1
        <5>3. paired'[d] = paired[d]  BY <5>1, <5>2 DEF IInv, Typed, StoreOK
        <5> QED BY <5>3
      <4> QED BY <4>1, <4>2, <4>3, <4>4 DEF Humans
    <3>5. \A r \in net : ~StartPairing(r) /\ ~ClientChallenge(r) /\ ~ServerChallengeResponse(r)
      BY DEF StartPairing, ClientChallenge, ServerChallengeResponse, store
    <3> QED BY <3>1, <3>2, <3>3, <3>4, <3>5 DEF Next, Phases
  <2>2. SecretVerifies(r)
        /\ Persist([paired EXCEPT ![by[pending.att]] = PairedEntry(pending.settings)])
    BY <2>1 DEF CheckClientPairingSecret, store
  <2>3. by[pending.att] = d
    <3>1. paired' = [paired EXCEPT ![by[pending.att]] = PairedEntry(pending.settings)]
      BY <2>2 DEF Persist
    <3> QED BY <3>1 DEF IInv, Typed, StoreOK
  <2>4. pending.is /\ pending.hash.is = "hash" /\ pending.hash.by = r.att /\ by[pending.att] = by[r.att]
    BY <2>2 DEF SecretVerifies, HashOf
  <2>5. r.att \in told  BY <2>4 DEF IInv, PinWasTold
  <2> QED BY <2>3, <2>4, <2>5
<1> QED BY <1>1, Invariance, PTL DEF Spec, PairedByOwnPin

\* A device leaves the list only in a crash while persist() has the file truncated: no
\* update, pairing, migration or restart loses one.
THEOREM ListsSurvive == Spec => PairingsAreKept
<1> DEFINE Kept == \A d \in Devices : Listed(d) /\ ~Listed(d)' => persisting /\ boot' = "down"
<1>1. IInv /\ [Next]_vars => [Kept]_vars
  <2> SUFFICES ASSUME IInv, Next, NEW d \in Devices, Listed(d), ~Listed(d)'
               PROVE  persisting /\ boot' = "down"
    BY DEF vars
  <2> USE DEF Listed
  <2>1. CASE Startup
    <3>1. CASE ServerStarts
      <4>1. boot = "down" /\ disk.paired[d].is  BY <3>1 DEF ServerStarts
      <4>2. CASE CanLoad
        <5>1. boot' = "up" /\ paired' = LoadState  BY <3>1, <4>2 DEF ServerStarts, Persist
        <5>2. disk.shape \in {"legacy", "current"}
          BY <4>1 DEF IInv, FileAgrees, Nobody, Unpaired
        <5> QED BY <4>1, <5>1, <5>2 DEF LoadState
      <4>3. CASE ~CanLoad
        <5>1. boot' = "identity" /\ UNCHANGED disk  BY <3>1, <4>3 DEF ServerStarts, store
        <5> QED BY <4>1, <5>1
      <4> QED BY <4>2, <4>3
    <3>2. CASE IdentityWrites
      BY <3>2 DEF IdentityWrites, store
    <3>3. CASE ClientsLoad
      <4>1. boot = "identity" /\ disk.paired[d].is /\ boot' = "up" /\ paired' = LoadState
        BY <3>3 DEF ClientsLoad, Persist
      <4>2. disk.shape \in {"legacy", "current"}
        BY <4>1 DEF IInv, FileAgrees, Nobody, Unpaired
      <4> QED BY <4>1, <4>2 DEF LoadState
    <3>4. CASE PersistEnds
      <4>1. boot = "up"  BY <3>4 DEF PersistEnds, IInv, FileAgrees
      <4> QED BY <3>4, <4>1 DEF PersistEnds, files
    <3> QED BY <2>1, <3>1, <3>2, <3>3, <3>4 DEF Startup
  <2>2. CASE ServerCrashes
    <3>1. boot' = "down" /\ UNCHANGED disk  BY <2>2 DEF ServerCrashes
    <3>2. CASE boot = "up"
      <4>1. persisting \/ disk.paired = paired  BY <3>2 DEF IInv, FileAgrees
      <4> QED BY <3>1, <3>2, <4>1
    <3>3. CASE boot # "up"
      BY <3>1, <3>3
    <3> QED BY <3>2, <3>3
  <2>3. CASE UNCHANGED <<files, store>>
    BY <2>3 DEF files, store
  <2>4. CASE Phases
    <3>1. PICK r \in net : CheckClientPairingSecret(r) \/ UNCHANGED <<files, store>>
      BY <2>4 DEF Phases, StartPairing, ClientChallenge, ServerChallengeResponse, Same
    <3>2. CASE CheckClientPairingSecret(r) /\ UNCHANGED store
      BY <3>2, <2>3 DEF CheckClientPairingSecret, Same
    <3>3. CASE CheckClientPairingSecret(r) /\ ~UNCHANGED store
      <4>1. boot = "up" /\ UNCHANGED boot
            /\ paired' = [paired EXCEPT ![by[pending.att]] = PairedEntry(pending.settings)]
        BY <3>3 DEF CheckClientPairingSecret, Persist, Same, files, Handles, Ready
      <4>2. paired[d].is /\ ~paired'[d].is  BY <4>1
      <4>3. PairedEntry(pending.settings).is  BY DEF PairedEntry
      <4> QED BY <4>1, <4>2, <4>3 DEF IInv, Typed, StoreOK
    <3> QED BY <2>3, <3>1, <3>2, <3>3
  <2>5. CASE Timers
    BY <2>3, <2>5 DEF Timers, PinListens, PinTimesOut
  <2>6. CASE Humans
    <3>1. ASSUME NEW x \in Devices, UpdatePaired(x) PROVE FALSE
      <4>1. boot = "up" /\ UNCHANGED boot
            /\ paired' = [paired EXCEPT ![x] = [paired[x] EXCEPT !.settings = x]]
        BY <3>1 DEF UpdatePaired, Ready, Persist, files
      <4>2. paired \in [Devices -> Entries] /\ paired[x].is  BY <3>1 DEF UpdatePaired, IInv, Typed, StoreOK
      <4>5. paired[x] \in Entries /\ paired[x].is  BY <4>2
      <4>3. paired[x] \in [is : {TRUE}, settings : Givers]  BY <4>5, EntryRecord
      <4>4. [paired[x] EXCEPT !.settings = x].is  BY <4>3
      <4> QED BY <4>1, <4>2, <4>4
    <3>2. ASSUME NEW x \in Devices, NoteSeen(x) PROVE FALSE
      BY <3>2 DEF NoteSeen, Ready, Persist, files
    <3>3. (\E s \in relays : SubmitPin(s)) => UNCHANGED <<files, store>>  BY DEF SubmitPin
    <3>4. (\E x \in Devices : DeviceStarts(x) \/ DeviceGivesUp(x) \/ PairTool(x)) =>
             UNCHANGED <<files, store>>
      BY DEF DeviceStarts, DeviceGivesUp, PairTool
    <3> QED BY <2>3, <2>6, <3>1, <3>2, <3>3, <3>4 DEF Humans
  <2> QED BY <2>1, <2>2, <2>4, <2>5, <2>6 DEF Next
<1> QED BY <1>1, Invariance, PTL DEF Spec, PairingsAreKept

\* The certificate that a device has seen, and pins, is the server's for good: no start
\* that finds some of the three files generates them anew once a device was there.
THEOREM IdentityIsKept == Spec => IdentityStays
<1> DEFINE Stays == (\E d \in Devices : device[d] # Idle) =>
                       idFiles = "whole" /\ UNCHANGED <<idFiles, identity>>
<1>1. IInv /\ [Next]_vars => [Stays]_vars
  <2> SUFFICES ASSUME IInv, Next, NEW d \in Devices, device[d] # Idle
               PROVE  idFiles = "whole" /\ UNCHANGED <<idFiles, identity>>
    BY DEF vars
  <2>1. idFiles = "whole"  BY DEF IInv, IdentityIsWhole
  <2>2. CASE Startup
    BY <2>1, <2>2 DEF Startup, ServerStarts, CanLoad, IdentityWrites, ClientsLoad, PersistEnds, files
  <2>3. CASE ServerCrashes
    BY <2>1, <2>3 DEF ServerCrashes
  <2>4. CASE Phases
    BY <2>1, <2>4 DEF Phases, StartPairing, ClientChallenge, ServerChallengeResponse,
                      CheckClientPairingSecret, Same, files
  <2>5. CASE Timers
    BY <2>1, <2>5 DEF Timers, PinListens, PinTimesOut, files
  <2>6. CASE Humans
    BY <2>1, <2>6 DEF Humans, SubmitPin, DeviceStarts, DeviceGivesUp, PairTool, UpdatePaired,
                      NoteSeen, files
  <2> QED BY <2>1, <2>2, <2>3, <2>4, <2>5, <2>6 DEF Next
<1> QED BY <1>1, Invariance, PTL DEF Spec, IdentityStays

=============================================================================
