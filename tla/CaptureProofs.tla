---------------------------- MODULE CaptureProofs ----------------------------
(***************************************************************************)
(* Proofs about Capture for every finite pool of buffers, every number of  *)
(* handoffs and every length of the channel.                               *)
(*                                                                         *)
(* Descriptors are counted, not named, so the invariant says of each       *)
(* encoder what its consumer still owns at the stage of its end that it    *)
(* has reached: that nothing is imported once it unwinds, and nothing is   *)
(* queued once it has gone.  That encoders follow one another is about     *)
(* which of them the desktop has: one that the desktop has not come to     *)
(* does not exist, and one that it has left behind was in other hands.     *)
(***************************************************************************)
EXTENDS Capture, FiniteSetTheorems, TLAPS

Sizes == Origins \cup {None}
Frames == [buffer : Buffers, size : Sizes]
EncoderStates ==
    [phase : {"none", "setup", "loop", "calling", "unwinding", "gone"},
     force : BOOLEAN, first : BOOLEAN, key : BOOLEAN, size : Sizes,
     registered : SUBSET Buffers, lent : BOOLEAN, lost : {0, 1}]
CaptureStates == [running : BOOLEAN, size : Sizes, queue : Seq(Frames)]
Places == {"building", "built", "attached", "parked", "taken", "joining", "ended"}

\* The types of the variables.
SessionOK ==
    /\ direct \in BOOLEAN
    /\ desk \in [place : Places, encoder : Sizes, origin : Origins]
    /\ output \in Origins /\ connected \in [Origins -> BOOLEAN]
    /\ lock \in Sizes /\ picture \in Sizes
RefsOK == refs \in [Encoders -> SUBSET {"session", "keyframe", "report"}]
EncOK  == enc \in [Encoders -> EncoderStates]
CapOK  == cap \in [Encoders -> CaptureStates]
OpenOK == open \in [Encoders -> Int]
TypeOK == SessionOK /\ RefsOK /\ EncOK /\ CapOK /\ OpenOK

\* The desktop has an encoder except before the first is built, and the next
\* one is for a later origin.
DeskIsAhead ==
    /\ desk.encoder <= desk.origin
    /\ desk.place # "building" => desk.encoder # None
    /\ desk.place \in {"building", "taken", "joining"} => desk.encoder < desk.origin

\* What a consumer owns at each stage of its end.
Owns(encoder, capture, fds) ==
    /\ fds = Len(capture.queue) + Cardinality(encoder.registered) + encoder.lost
    /\ encoder.phase \in {"none", "gone"} => ~capture.running /\ capture.queue = <<>>
    /\ encoder.phase \in {"none", "unwinding", "gone"} => encoder.registered = {}
    /\ encoder.phase \notin {"unwinding", "gone"} => encoder.lost = 0

\* Encoders to come are not there yet, and one that still runs after the desktop
\* has left it was somebody else's to drop.
TurnOf(e) ==
    /\ e > desk.encoder => enc[e].phase = "none"
    /\ Running(e) /\ (e < desk.encoder \/ desk.place = "building") => enc[e].lent

Ownership == \A e \in Encoders : Owns(enc[e], cap[e], open[e])
Turns == \A e \in Encoders : TurnOf(e)
IInv == TypeOK /\ DeskIsAhead /\ Ownership /\ Turns

-----------------------------------------------------------------------------
(***************************************************************************)
(* Counting descriptors and frames.                                        *)
(***************************************************************************)

\* The numbers that bound the model, and the one that is no origin.
LEMMA Bounds ==
  /\ MaxOrigins \in Nat \ {0} /\ 1 \in Origins /\ None \notin Origins
  /\ Encoders = Origins /\ Origins \subseteq Nat
  /\ Sizes \subseteq Nat /\ Origins \subseteq Sizes /\ None \in Sizes
BY CaptureConstants DEF CaptureConstants, Origins, Encoders, None, Sizes

\* The buffers that a consumer has imported can be counted.
LEMMA Counts ==
  ASSUME NEW r \in SUBSET Buffers
  PROVE  /\ Cardinality(r) \in Nat /\ Cardinality({}) = 0
         /\ \A b \in Buffers \ r : Cardinality(r \cup {b}) = Cardinality(r) + 1
<1>1. IsFiniteSet(r) /\ IsFiniteSet({})
  BY CaptureConstants, FS_Subset, FS_EmptySet DEF CaptureConstants
<1> QED BY <1>1, FS_CardinalityType, FS_EmptySet, FS_AddElement

\* A frame is taken from the channel, or put into it.
LEMMA Queues ==
  ASSUME NEW q \in Seq(Frames)
  PROVE  /\ Len(q) \in Nat
         /\ q # <<>> => /\ Head(q) \in Frames /\ Tail(q) \in Seq(Frames)
                        /\ Len(Tail(q)) = Len(q) - 1
         /\ \A f \in Frames : Append(q, f) \in Seq(Frames) /\ Len(Append(q, f)) = Len(q) + 1
OBVIOUS

\* An encoder and a capture that have nothing.
LEMMA Empty ==
  /\ NoEncoder \in EncoderStates /\ NoCapture \in CaptureStates
  /\ ~NoCapture.running /\ NoCapture.queue = <<>> /\ Len(<<>>) = 0
  /\ Cardinality({}) = 0
<1>1. <<>> \in Seq(Frames) /\ Len(<<>>) = 0  OBVIOUS
<1>2. NoCapture \in CaptureStates  BY <1>1 DEF NoCapture, CaptureStates, Sizes
<1>3. NoEncoder \in EncoderStates  BY DEF NoEncoder, EncoderStates, Sizes
<1> QED BY <1>1, <1>2, <1>3, FS_EmptySet DEF NoCapture

\* The invariant about one encoder, in the form the steps below use.
LEMMA Parts ==
  ASSUME IInv, NEW e \in Encoders
  PROVE  /\ SessionOK /\ RefsOK /\ EncOK /\ CapOK /\ OpenOK /\ DeskIsAhead
         /\ enc[e] \in EncoderStates /\ cap[e] \in CaptureStates /\ open[e] \in Int
         /\ enc[e].registered \in SUBSET Buffers /\ cap[e].queue \in Seq(Frames)
         /\ Owns(enc[e], cap[e], open[e]) /\ TurnOf(e)
<1>1. SessionOK /\ RefsOK /\ EncOK /\ CapOK /\ OpenOK /\ DeskIsAhead  BY DEF IInv, TypeOK
<1>2. enc[e] \in EncoderStates /\ cap[e] \in CaptureStates /\ open[e] \in Int
  BY <1>1 DEF EncOK, CapOK, OpenOK
<1>3. enc[e].registered \in SUBSET Buffers /\ cap[e].queue \in Seq(Frames)
  BY <1>2 DEF EncoderStates, CaptureStates
<1>4. Owns(enc[e], cap[e], open[e]) /\ TurnOf(e)  BY DEF IInv, Ownership, Turns
<1> QED BY <1>1, <1>2, <1>3, <1>4

-----------------------------------------------------------------------------
(***************************************************************************)
(* The steps of one encoder's threads.                                     *)
(***************************************************************************)

\* A thread goes on: it does not come to life, and it stays lent while it runs.
Follows(old, new) ==
    /\ old.phase = "none" <=> new.phase = "none"
    /\ new.phase \notin {"none", "gone"} =>
          old.phase \notin {"none", "gone"} /\ (old.lent => new.lent)

\* A step of encoder e that leaves the desktop to which it belongs.
LEMMA OneEncoder ==
  ASSUME IInv, NEW e \in Encoders, UNCHANGED <<session>>, RefsOK', picture' \in Sizes,
         NEW r \in EncoderStates, NEW c \in CaptureStates, NEW n \in Int,
         enc' = [enc EXCEPT ![e] = r], cap' = [cap EXCEPT ![e] = c],
         open' = [open EXCEPT ![e] = n],
         Owns(r, c, n), Follows(enc[e], r)
  PROVE  IInv'
<1>1. SessionOK /\ EncOK /\ CapOK /\ OpenOK /\ DeskIsAhead  BY DEF IInv, TypeOK
<1>2. EncOK' /\ CapOK' /\ OpenOK'  BY <1>1 DEF EncOK, CapOK, OpenOK
<1>3. SessionOK' /\ DeskIsAhead'  BY <1>1 DEF SessionOK, DeskIsAhead, session
<1>4. enc'[e] = r /\ cap'[e] = c /\ open'[e] = n  BY <1>1 DEF EncOK, CapOK, OpenOK
<1>5. \A d \in Encoders : d # e => enc'[d] = enc[d] /\ cap'[d] = cap[d] /\ open'[d] = open[d]
  BY <1>1 DEF EncOK, CapOK, OpenOK
<1>6. ASSUME NEW d \in Encoders PROVE Owns(enc'[d], cap'[d], open'[d])
  <2>1. CASE d = e  BY <1>4, <2>1
  <2>2. CASE d # e  BY <1>5, <2>2 DEF IInv, Ownership
  <2> QED BY <2>1, <2>2
<1>7. ASSUME NEW d \in Encoders PROVE TurnOf(d)'
  <2>1. TurnOf(d) /\ desk' = desk  BY DEF IInv, Turns, session
  <2>2. CASE d = e
    BY <1>4, <2>1, <2>2 DEF TurnOf, Follows, Running
  <2>3. CASE d # e  BY <1>5, <2>1, <2>3 DEF TurnOf, Running
  <2> QED BY <2>2, <2>3
<1> QED BY <1>2, <1>3, <1>6, <1>7 DEF IInv, TypeOK, Ownership, Turns

\* ... when who holds the encoder and what the client sees stay as they are.
LEMMA OneThread ==
  ASSUME IInv, NEW e \in Encoders, UNCHANGED <<session, refs, picture>>,
         NEW r \in EncoderStates, NEW c \in CaptureStates, NEW n \in Int,
         enc' = [enc EXCEPT ![e] = r], cap' = [cap EXCEPT ![e] = c],
         open' = [open EXCEPT ![e] = n],
         Owns(r, c, n), Follows(enc[e], r)
  PROVE  IInv'
<1>1. RefsOK' /\ picture' \in Sizes  BY DEF IInv, TypeOK, RefsOK, SessionOK
<1> QED BY <1>1, OneEncoder

\* What such a step does not touch, it puts back.
LEMMA Unmoved ==
  ASSUME IInv, NEW e \in Encoders
  PROVE  /\ enc = [enc EXCEPT ![e] = enc[e]] /\ cap = [cap EXCEPT ![e] = cap[e]]
         /\ open = [open EXCEPT ![e] = open[e]]
         /\ Follows(enc[e], enc[e])
BY Parts DEF EncOK, CapOK, OpenOK, Follows

\* The capture thread and the end of a consumer.
LEMMA CaptureKeeps ==
  ASSUME IInv, NEW e \in Encoders, CaptureStep(e)
  PROVE  IInv'
<1>p. /\ SessionOK /\ RefsOK /\ EncOK /\ CapOK /\ OpenOK
      /\ enc[e] \in EncoderStates /\ cap[e] \in CaptureStates /\ open[e] \in Int
      /\ enc[e].registered \in SUBSET Buffers /\ cap[e].queue \in Seq(Frames)
      /\ Owns(enc[e], cap[e], open[e]) /\ cap[e].size \in Sizes
  BY Parts DEF CaptureStates
<1>1. CASE Negotiates(e)
  <2> DEFINE c == [cap[e] EXCEPT !.size = output]
  <2>1. cap' = [cap EXCEPT ![e] = c] /\ UNCHANGED <<session, refs, enc, open, picture>>
    BY <1>1 DEF Negotiates
  <2>2. c \in CaptureStates  BY <1>p DEF CaptureStates, SessionOK, Sizes
  <2>3. Owns(enc[e], c, open[e])  BY <1>1, <1>p DEF Owns, CaptureStates, Negotiates
  <2> HIDE DEF c
  <2> QED BY <1>p, <2>1, <2>2, <2>3, Unmoved, OneThread
<1>2. CASE Captures(e)
  <2>1. PICK b \in Buffers : cap' = [cap EXCEPT ![e].queue = Append(@, [buffer |-> b, size |-> cap[e].size])]
    BY <1>2 DEF Captures
  <2> DEFINE f == [buffer |-> b, size |-> cap[e].size]
             c == [cap[e] EXCEPT !.queue = Append(cap[e].queue, f)]
  <2>2. cap' = [cap EXCEPT ![e] = c]  BY <2>1
  <2>3. f \in Frames  BY <1>p DEF Frames
  <2>4. Append(cap[e].queue, f) \in Seq(Frames)
        /\ Len(Append(cap[e].queue, f)) = Len(cap[e].queue) + 1  BY <1>p, <2>3, Queues
  <2>5. c \in CaptureStates  BY <1>p, <2>4 DEF CaptureStates
  <2>6. c.queue = Append(cap[e].queue, f) /\ c.running = cap[e].running  BY <1>p DEF CaptureStates
  <2>7. open' = [open EXCEPT ![e] = open[e] + 1] /\ UNCHANGED <<session, refs, enc, picture>>
        /\ cap[e].running
    BY <1>2 DEF Captures
  <2>8. Owns(enc[e], c, open[e] + 1)
    <3>1. Cardinality(enc[e].registered) \in Nat /\ Len(cap[e].queue) \in Nat /\ enc[e].lost \in Int
      BY <1>p, Counts, Queues DEF EncoderStates
    <3>2. enc[e].phase \notin {"none", "gone"}  BY <1>p, <2>7 DEF Owns
    <3> QED BY <1>p, <2>4, <2>6, <3>1, <3>2 DEF Owns
  <2>9. open[e] + 1 \in Int  BY <1>p
  <2> HIDE DEF c
  <2> QED BY <1>p, <2>2, <2>5, <2>7, <2>8, <2>9, Unmoved, OneThread
<1>3. CASE CaptureEnds(e)
  <2> DEFINE c == [cap[e] EXCEPT !.running = FALSE]
  <2>1. cap' = [cap EXCEPT ![e] = c] /\ UNCHANGED <<session, refs, enc, open, picture>>
    BY <1>3 DEF CaptureEnds
  <2>2. c \in CaptureStates  BY <1>p DEF CaptureStates
  <2>3. Owns(enc[e], c, open[e])  BY <1>p DEF Owns, CaptureStates
  <2> HIDE DEF c
  <2> QED BY <1>p, <2>1, <2>2, <2>3, Unmoved, OneThread
<1>4. CASE CaptureDrops(e)
  <2> DEFINE r == [NoEncoder EXCEPT !.phase = "gone", !.lost = enc[e].lost]
             n == open[e] - Len(cap[e].queue)
  <2>1. /\ enc' = [enc EXCEPT ![e] = r] /\ cap' = [cap EXCEPT ![e] = NoCapture]
        /\ open' = [open EXCEPT ![e] = n] /\ UNCHANGED <<session, refs, picture>>
        /\ enc[e].phase = "unwinding"
    BY <1>4 DEF CaptureDrops
  <2>2. r \in EncoderStates /\ NoCapture \in CaptureStates
    BY <1>p, Empty DEF EncoderStates
  <2>3. r.phase = "gone" /\ r.registered = {} /\ r.lost = enc[e].lost /\ r.lost \in Int
    BY <1>p DEF NoEncoder, EncoderStates
  <2>4. n \in Int /\ Len(cap[e].queue) \in Nat  BY <1>p, Queues
  <2>5. Owns(r, NoCapture, n)
    <3>1. open[e] = Len(cap[e].queue) + 0 + enc[e].lost  BY <1>p, <2>1, Empty DEF Owns
    <3>2. n = 0 + 0 + enc[e].lost  BY <2>3, <2>4, <3>1
    <3> QED BY <2>3, <3>2, Empty DEF Owns
  <2>6. Follows(enc[e], r)  BY <2>1, <2>3 DEF Follows
  <2> HIDE DEF r, n
  <2> QED BY <2>1, <2>2, <2>4, <2>5, <2>6, OneThread
<1> QED BY <1>1, <1>2, <1>3, <1>4 DEF CaptureStep

\* The end of a consumer closes what it has imported.
LEMMA UnwindsKeeps ==
  ASSUME IInv, NEW e \in Encoders, Unwinds(e), enc[e].phase \in {"setup", "loop"},
         UNCHANGED <<session, refs, cap, picture>>
  PROVE  IInv'
<1> DEFINE r == [enc[e] EXCEPT !.phase = "unwinding", !.registered = {}]
           n == open[e] - Cardinality(enc[e].registered)
<1>1. enc[e] \in EncoderStates /\ open[e] \in Int /\ cap[e] \in CaptureStates
      /\ Owns(enc[e], cap[e], open[e])
  BY Parts
<1>2. Cardinality(enc[e].registered) \in Nat /\ Len(cap[e].queue) \in Nat  BY Parts, Counts, Queues
<1>3. enc' = [enc EXCEPT ![e] = r] /\ open' = [open EXCEPT ![e] = n]  BY DEF Unwinds
<1>4. r \in EncoderStates  BY <1>1 DEF EncoderStates
<1>8. n \in Int  BY <1>1, <1>2
<1>5. r.phase = "unwinding" /\ r.registered = {} /\ r.lost = enc[e].lost /\ r.lent = enc[e].lent
      /\ enc[e].lost \in Int
  BY <1>1 DEF EncoderStates
<1>6. Owns(r, cap[e], n)
  <2>1. open[e] = Len(cap[e].queue) + Cardinality(enc[e].registered) + enc[e].lost  BY <1>1 DEF Owns
  <2>2. n = Len(cap[e].queue) + 0 + enc[e].lost  BY <1>1, <1>2, <1>5, <2>1
  <2> QED BY <1>5, <2>2, Empty DEF Owns
<1>7. Follows(enc[e], r)  BY <1>5 DEF Follows
<1> HIDE DEF r, n
<1> QED BY <1>1, <1>3, <1>4, <1>6, <1>7, <1>8, Unmoved, OneThread

\* The channel without its first frame.
Rest(e) == [cap[e] EXCEPT !.queue = Tail(cap[e].queue)]

\* A consumer that takes a frame owns one descriptor more than it has counted.
LEMMA TakesEffect ==
  ASSUME IInv, NEW e \in Encoders, TakesNext(e)
  PROVE  /\ cap' = [cap EXCEPT ![e] = Rest(e)] /\ UNCHANGED <<session, refs, picture>>
         /\ Rest(e) \in CaptureStates /\ Len(Rest(e).queue) \in Nat
         /\ Head(cap[e].queue) \in Frames
         /\ enc[e] \in EncoderStates /\ enc[e].phase = "loop" /\ enc[e].lost = 0
         /\ enc[e].registered \in SUBSET Buffers /\ Cardinality(enc[e].registered) \in Nat
         /\ open[e] = Len(Rest(e).queue) + 1 + Cardinality(enc[e].registered)
<1>1. /\ enc[e] \in EncoderStates /\ cap[e] \in CaptureStates /\ open[e] \in Int
      /\ enc[e].registered \in SUBSET Buffers /\ cap[e].queue \in Seq(Frames)
      /\ Owns(enc[e], cap[e], open[e])
  BY Parts
<1>2. cap' = [cap EXCEPT ![e] = Rest(e)] /\ UNCHANGED <<session, refs, picture>>
      /\ enc[e].phase = "loop" /\ cap[e].queue # <<>>
  BY DEF TakesNext, Rest
<1>3. /\ Head(cap[e].queue) \in Frames /\ Tail(cap[e].queue) \in Seq(Frames)
      /\ Len(cap[e].queue) \in Nat /\ Len(Tail(cap[e].queue)) = Len(cap[e].queue) - 1
      /\ Len(Tail(cap[e].queue)) \in Nat
  BY <1>1, <1>2, Queues
<1>4. Rest(e) \in CaptureStates /\ Rest(e).queue = Tail(cap[e].queue)
  BY <1>1, <1>3 DEF Rest, CaptureStates
<1>5. Cardinality(enc[e].registered) \in Nat  BY <1>1, Counts
<1>6. open[e] = Len(cap[e].queue) + Cardinality(enc[e].registered) + 0 /\ enc[e].lost = 0
  BY <1>1, <1>2 DEF Owns
<1>7. open[e] = Len(Rest(e).queue) + 1 + Cardinality(enc[e].registered)
  BY <1>3, <1>4, <1>5, <1>6
<1> QED BY <1>1, <1>2, <1>3, <1>4, <1>5, <1>6, <1>7

\* What such a consumer must show of its new state and of its count.
LEMMA OneFrame ==
  ASSUME IInv, NEW e \in Encoders, TakesNext(e),
         NEW r \in EncoderStates, NEW n \in Int,
         enc' = [enc EXCEPT ![e] = r], open' = [open EXCEPT ![e] = n],
         r.phase \in {"loop", "calling", "unwinding"},
         IF r.phase = "unwinding" THEN r.registered = {} ELSE r.lost = 0,
         r.lent = enc[e].lent,
         n = Len(Rest(e).queue) + Cardinality(r.registered) + r.lost
  PROVE  IInv'
<1>1. /\ cap' = [cap EXCEPT ![e] = Rest(e)] /\ UNCHANGED <<session, refs, picture>>
      /\ Rest(e) \in CaptureStates /\ enc[e].phase = "loop"
  BY TakesEffect
<1>2. Owns(r, Rest(e), n)  BY DEF Owns
<1>3. Follows(enc[e], r)  BY <1>1 DEF Follows
<1> QED BY <1>1, <1>2, <1>3, OneThread

\* The direct encoder's thread.
LEMMA DirectKeeps ==
  ASSUME IInv, NEW e \in Encoders,
         SetUp(e) \/ Stops(e) \/ ClosesFrame(e) \/ Encodes(e) \/ EncodingFails(e) \/ Delivers(e)
  PROVE  IInv'
<1> DEFINE count == Cardinality(enc[e].registered)
           rest == Len(Rest(e).queue)
<1>p. SessionOK /\ RefsOK /\ EncOK /\ OpenOK /\ enc[e] \in EncoderStates /\ cap[e] \in CaptureStates
      /\ open[e] \in Int /\ Owns(enc[e], cap[e], open[e])
  BY Parts
<1>1. CASE SetUp(e)
  <2>1. CASE Unwinds(e)
    BY <1>1, <2>1, UnwindsKeeps DEF SetUp
  <2>2. CASE enc' = [enc EXCEPT ![e].phase = "loop"] /\ UNCHANGED open
    <3> DEFINE r == [enc[e] EXCEPT !.phase = "loop"]
    <3>1. enc' = [enc EXCEPT ![e] = r] /\ UNCHANGED <<session, refs, cap, picture>>
          /\ enc[e].phase = "setup"
      BY <1>1, <2>2 DEF SetUp
    <3>2. r \in EncoderStates /\ r.phase = "loop" /\ r.registered = enc[e].registered
          /\ r.lost = enc[e].lost /\ r.lent = enc[e].lent
      BY <1>p DEF EncoderStates
    <3>3. Owns(r, cap[e], open[e])  BY <1>p, <3>1, <3>2 DEF Owns
    <3>4. Follows(enc[e], r)  BY <3>1, <3>2 DEF Follows
    <3> HIDE DEF r
    <3> QED BY <1>p, <2>2, <3>1, <3>2, <3>3, <3>4, Unmoved, OneThread
  <2> QED BY <1>1, <2>1, <2>2 DEF SetUp
<1>2. CASE Stops(e)
  BY <1>2, UnwindsKeeps DEF Stops
<1>3. CASE ClosesFrame(e)
  <2>1. TakesNext(e) /\ open' = [open EXCEPT ![e] = open[e] - 1] /\ UNCHANGED enc
    BY <1>3 DEF ClosesFrame
  <2>2. enc[e].phase = "loop" /\ enc[e].lost = 0 /\ rest \in Nat /\ count \in Nat
        /\ open[e] = rest + 1 + count
    BY <2>1, TakesEffect
  <2>3. open[e] - 1 = rest + count + enc[e].lost /\ open[e] - 1 \in Int  BY <2>2
  <2> HIDE DEF rest, count
  <2>4. open[e] - 1 = Len(Rest(e).queue) + Cardinality(enc[e].registered) + enc[e].lost
    BY <2>3 DEF rest, count
  <2> QED BY <1>p, <2>1, <2>2, <2>3, <2>4, Unmoved, OneFrame
<1>4. CASE Encodes(e)
  <2> DEFINE b == Head(cap[e].queue).buffer
             n == IF b \in enc[e].registered THEN open[e] - 1 ELSE open[e]
  <2>1. TakesNext(e) /\ open' = [open EXCEPT ![e] = n]  BY <1>4 DEF Encodes
  <2>2. PICK boundary \in {TRUE, enc[e].first} :
          enc' = [enc EXCEPT ![e].phase = "calling", ![e].registered = @ \cup {b},
                             ![e].first = FALSE, ![e].key = boundary \/ enc[e].force,
                             ![e].force = boundary /\ @]
    BY <1>4 DEF Encodes
  <2> DEFINE r == [enc[e] EXCEPT !.phase = "calling", !.registered = @ \cup {b}, !.first = FALSE,
                                 !.key = boundary \/ enc[e].force, !.force = boundary /\ @]
  <2>3. enc' = [enc EXCEPT ![e] = r]  BY <2>2
  <2>4. /\ enc[e].lost = 0 /\ rest \in Nat /\ count \in Nat /\ open[e] = rest + 1 + count
        /\ enc[e].registered \in SUBSET Buffers /\ b \in Buffers
    BY <2>1, TakesEffect DEF Frames
  <2>5. boundary \in BOOLEAN  BY <1>p DEF EncoderStates
  <2>6. r \in EncoderStates /\ r.phase = "calling" /\ r.lost = 0 /\ r.lent = enc[e].lent
        /\ r.registered = enc[e].registered \cup {b}
    <3>1. (boundary \/ enc[e].force) \in BOOLEAN /\ (boundary /\ enc[e].force) \in BOOLEAN
      OBVIOUS
    <3>2. enc[e].registered \cup {b} \in SUBSET Buffers  BY <2>4
    <3> QED BY <1>p, <2>4, <3>1, <3>2 DEF EncoderStates
  <2>7. n = rest + Cardinality(enc[e].registered \cup {b}) /\ n \in Int
    <3>1. CASE b \in enc[e].registered
      <4>1. Cardinality(enc[e].registered \cup {b}) = count  BY <3>1
      <4>2. n = open[e] - 1  BY <3>1
      <4> QED BY <2>4, <4>1, <4>2
    <3>2. CASE b \notin enc[e].registered
      <4>1. Cardinality(enc[e].registered \cup {b}) = count + 1  BY <2>4, <3>2, Counts
      <4>2. n = open[e]  BY <3>2
      <4> QED BY <2>4, <4>1, <4>2
    <3> QED BY <3>1, <3>2
  <2>8. n = rest + Cardinality(r.registered) + r.lost
    <3> HIDE DEF r, n, b
    <3> QED BY <2>4, <2>6, <2>7
  <2> HIDE DEF r, n, b
  <2> QED BY <2>1, <2>3, <2>6, <2>7, <2>8, OneFrame
<1>5. CASE EncodingFails(e)
  <2>1. PICK lost \in FailureLoses(e) :
          /\ enc' = [enc EXCEPT ![e].phase = "unwinding", ![e].registered = {}, ![e].lost = lost]
          /\ open' = [open EXCEPT ![e] = @ - 1 - Cardinality(enc[e].registered) + lost]
    BY <1>5 DEF EncodingFails
  <2> DEFINE r == [enc[e] EXCEPT !.phase = "unwinding", !.registered = {}, !.lost = lost]
             n == open[e] - 1 - count + lost
  <2>2. enc' = [enc EXCEPT ![e] = r] /\ open' = [open EXCEPT ![e] = n]  BY <2>1
  <2>3. TakesNext(e) /\ lost \in {0, 1}  BY <1>5 DEF EncodingFails, FailureLoses
  <2>4. rest \in Nat /\ count \in Nat /\ open[e] = rest + 1 + count  BY <2>3, TakesEffect
  <2>5. r \in EncoderStates /\ r.phase = "unwinding" /\ r.registered = {} /\ r.lost = lost
        /\ r.lent = enc[e].lent
    BY <1>p, <2>3 DEF EncoderStates
  <2>6. n = rest + 0 + lost /\ n \in Int  BY <2>3, <2>4
  <2> HIDE DEF r, n
  <2> QED BY <2>2, <2>3, <2>5, <2>6, Empty, OneFrame
<1>6. CASE Delivers(e)
  <2> DEFINE r == [enc[e] EXCEPT !.phase = "loop", !.key = FALSE]
  <2>1. /\ enc' = [enc EXCEPT ![e] = r] /\ UNCHANGED <<session, refs, cap, open>>
        /\ enc[e].phase = "calling" /\ picture' \in {e, picture}
    BY <1>6 DEF Delivers
  <2>2. r \in EncoderStates /\ r.phase = "loop" /\ r.registered = enc[e].registered
        /\ r.lost = enc[e].lost /\ r.lent = enc[e].lent
    BY <1>p DEF EncoderStates
  <2>3. Owns(r, cap[e], open[e])  BY <1>p, <2>1, <2>2 DEF Owns
  <2>4. Follows(enc[e], r)  BY <2>1, <2>2 DEF Follows
  <2>5. RefsOK' /\ picture' \in Sizes
    BY <1>p, <2>1, Bounds DEF RefsOK, SessionOK, Sizes
  <2> HIDE DEF r
  <2> QED BY <1>p, <2>1, <2>2, <2>3, <2>4, <2>5, Unmoved, OneEncoder
<1> QED BY <1>1, <1>2, <1>3, <1>4, <1>5, <1>6

\* The pusher thread of a GStreamer pipeline.
LEMMA PusherKeeps ==
  ASSUME IInv, NEW e \in Encoders, PushesFrame(e) \/ PusherEnds(e)
  PROVE  IInv'
<1>1. CASE PusherEnds(e)
  BY <1>1, UnwindsKeeps DEF PusherEnds
<1>2. CASE PushesFrame(e)
  <2> DEFINE frame == Head(cap[e].queue)
             cache == IF frame.size = enc[e].size THEN enc[e].registered ELSE {}
             cleared == Cardinality(enc[e].registered \ cache)
             count == Cardinality(enc[e].registered)
             rest == Len(Rest(e).queue)
  <2>1. TakesNext(e)  BY <1>2 DEF PushesFrame
  <2>2. /\ enc[e] \in EncoderStates /\ enc[e].phase = "loop" /\ enc[e].lost = 0
        /\ rest \in Nat /\ count \in Nat /\ open[e] = rest + 1 + count
        /\ enc[e].registered \in SUBSET Buffers /\ frame.buffer \in Buffers /\ frame.size \in Sizes
    BY <2>1, TakesEffect DEF Frames
  <2>3. cache \in SUBSET Buffers /\ cleared \in Nat /\ Cardinality(cache) = count - cleared
    <3>1. CASE frame.size = enc[e].size
      <4>1. cache = enc[e].registered /\ enc[e].registered \ cache = {}  BY <3>1
      <4>2. cleared = 0  BY <4>1, Empty
      <4>3. Cardinality(cache) = count  BY <4>1
      <4> HIDE DEF cleared, cache, count
      <4> QED BY <2>2, <4>1, <4>2, <4>3
    <3>2. CASE frame.size # enc[e].size
      <4>1. cache = {} /\ enc[e].registered \ cache = enc[e].registered  BY <3>2
      <4>2. cleared = count  BY <4>1
      <4>3. Cardinality(cache) = 0  BY <4>1, Empty
      <4> HIDE DEF cleared, cache, count
      <4> QED BY <2>2, <4>1, <4>2, <4>3
    <3> QED BY <3>1, <3>2
  <2>4. ASSUME NEW set \in SUBSET Buffers, NEW n \in Int,
               enc' = [enc EXCEPT ![e].size = frame.size, ![e].registered = set],
               open' = [open EXCEPT ![e] = n], n = rest + Cardinality(set)
        PROVE  IInv'
    <3> DEFINE r == [enc[e] EXCEPT !.size = frame.size, !.registered = set]
    <3>1. enc' = [enc EXCEPT ![e] = r]  BY <2>4
    <3>2. r \in EncoderStates /\ r.phase = "loop" /\ r.registered = set /\ r.lost = 0
          /\ r.lent = enc[e].lent
      BY <2>2 DEF EncoderStates
    <3>3. Cardinality(set) \in Nat  BY Counts
    <3>4. n = rest + Cardinality(r.registered) + r.lost  BY <2>2, <2>4, <3>2, <3>3
    <3> HIDE DEF r
    <3> QED BY <2>1, <2>4, <3>1, <3>2, <3>4, OneFrame
  <2>5. CASE /\ open' = [open EXCEPT ![e] = @ - 1 - cleared]
             /\ enc' = [enc EXCEPT ![e].size = frame.size, ![e].registered = cache]
    <3>1. open' = [open EXCEPT ![e] = open[e] - 1 - cleared]  BY <2>5
    <3>2. open[e] - 1 - cleared = rest + Cardinality(cache) /\ open[e] - 1 - cleared \in Int
      BY <2>2, <2>3
    <3> HIDE DEF cache, cleared, frame, rest
    <3> QED BY <2>3, <2>4, <2>5, <3>1, <3>2
  <2>6. CASE /\ frame.buffer \notin cache
             /\ open' = [open EXCEPT ![e] = @ - cleared]
             /\ enc' = [enc EXCEPT ![e].size = frame.size,
                                   ![e].registered = cache \cup {frame.buffer}]
    <3>1. open' = [open EXCEPT ![e] = open[e] - cleared]  BY <2>6
    <3>2. Cardinality(cache \cup {frame.buffer}) = Cardinality(cache) + 1
          /\ cache \cup {frame.buffer} \in SUBSET Buffers
      BY <2>2, <2>3, <2>6, Counts
    <3>3. open[e] - cleared = rest + Cardinality(cache \cup {frame.buffer})
          /\ open[e] - cleared \in Int
      BY <2>2, <2>3, <3>2
    <3> HIDE DEF cache, cleared, frame, rest
    <3> QED BY <2>4, <2>6, <3>1, <3>2, <3>3
  <2> QED BY <1>2, <2>5, <2>6 DEF PushesFrame
<1> QED BY <1>1, <1>2

-----------------------------------------------------------------------------
(***************************************************************************)
(* The steps of the session manager.                                       *)
(***************************************************************************)

\* Who holds the encoders of a desktop, how far they are, and whether one was
\* lent when the desktop let go of it, are all that a step of its manager changes.
SamePhases ==
    \A d \in Encoders : enc'[d].phase = enc[d].phase /\ (enc[d].lent => enc'[d].lent)

LEMMA DeskMoves ==
  ASSUME IInv, SessionOK', RefsOK', EncOK', CapOK', OpenOK', DeskIsAhead', Ownership',
         SamePhases, desk'.encoder = desk.encoder,
         desk'.place = "building" /\ desk.place # "building" =>
            \A d \in Encoders : d = desk.encoder /\ Running(d) => enc'[d].lent
  PROVE  IInv'
<1>1. ASSUME NEW d \in Encoders PROVE TurnOf(d)'
  <2>1. TurnOf(d) /\ desk \in [place : Places, encoder : Sizes, origin : Origins]
        /\ d \in Nat /\ desk.encoder \in Nat
    BY Bounds DEF IInv, TypeOK, SessionOK, Turns
  <2>2. enc'[d].phase = enc[d].phase /\ (enc[d].lent => enc'[d].lent)  BY DEF SamePhases
  <2>3. d > desk.encoder => enc'[d].phase = "none"  BY <2>1, <2>2 DEF TurnOf
  <2>4. ASSUME Running(d)', d < desk.encoder \/ desk'.place = "building" PROVE enc'[d].lent
    <3>1. Running(d)  BY <2>2, <2>4 DEF Running
    <3>2. CASE d < desk.encoder \/ desk.place = "building"  BY <2>1, <2>2, <3>1, <3>2 DEF TurnOf
    <3>3. CASE d = desk.encoder /\ desk.place # "building"  BY <2>1, <2>4, <3>1, <3>3
    <3>4. CASE d > desk.encoder  BY <2>1, <3>1, <3>4 DEF TurnOf, Running
    <3> QED BY <2>1, <3>2, <3>3, <3>4
  <2> QED BY <2>3, <2>4 DEF TurnOf
<1> QED BY <1>1 DEF IInv, TypeOK, Turns

\* ... and if it does not touch the encoders, their part of the invariant stays.
LEMMA Still ==
  ASSUME IInv, UNCHANGED <<enc, cap, open>>
  PROVE  EncOK' /\ CapOK' /\ OpenOK' /\ Ownership' /\ SamePhases
BY DEF IInv, TypeOK, EncOK, CapOK, OpenOK, Ownership, SamePhases

\* A holder that lets go of an encoder marks it as lent if it was the desktop
\* and somebody else still has it.
LEMMA LetsGoEffect ==
  ASSUME IInv, NEW e \in Encoders, NEW holder, LetsGo(e, holder), UNCHANGED <<cap, open>>
  PROVE  /\ RefsOK' /\ EncOK' /\ CapOK' /\ OpenOK' /\ Ownership' /\ SamePhases
         /\ holder = "session" /\ Running(e) /\ refs[e] # {"session"} => enc'[e].lent
<1> DEFINE lent == enc[e].lent \/ (Running(e) /\ holder = "session" /\ refs[e] # {"session"})
           r == [enc[e] EXCEPT !.lent = lent]
<1>1. RefsOK /\ EncOK /\ CapOK /\ OpenOK /\ Ownership /\ enc[e] \in EncoderStates
  BY Parts DEF IInv
<1>2. enc' = [enc EXCEPT ![e] = r] /\ refs' = [refs EXCEPT ![e] = refs[e] \ {holder}]
  BY DEF LetsGo
<1>3. lent \in BOOLEAN  BY <1>1 DEF EncoderStates, Running
<1>4. r \in EncoderStates /\ r.lent = lent /\ r.phase = enc[e].phase
      /\ r.registered = enc[e].registered /\ r.lost = enc[e].lost
  <2> HIDE DEF lent
  <2> QED BY <1>1, <1>3 DEF EncoderStates
<1>5. enc[e].lent => lent  OBVIOUS
<1>6. holder = "session" /\ Running(e) /\ refs[e] # {"session"} => lent  OBVIOUS
<1> HIDE DEF lent, r
<1>7. EncOK' /\ enc'[e] = r /\ \A d \in Encoders : d # e => enc'[d] = enc[d]
  BY <1>1, <1>2, <1>4 DEF EncOK
<1>8. RefsOK'  BY <1>1, <1>2 DEF RefsOK
<1>9. SamePhases
  <2> SUFFICES ASSUME NEW d \in Encoders
               PROVE  enc'[d].phase = enc[d].phase /\ (enc[d].lent => enc'[d].lent)
    BY DEF SamePhases
  <2> QED BY <1>4, <1>5, <1>7
<1>10. Ownership'
  <2> SUFFICES ASSUME NEW d \in Encoders PROVE Owns(enc'[d], cap'[d], open'[d])
    BY DEF Ownership
  <2>1. Owns(enc[d], cap[d], open[d])  BY <1>1 DEF Ownership
  <2>2. /\ enc'[d].phase = enc[d].phase /\ enc'[d].registered = enc[d].registered
        /\ enc'[d].lost = enc[d].lost
    BY <1>4, <1>7
  <2> QED BY <2>1, <2>2 DEF Owns
<1>11. CapOK' /\ OpenOK'  BY <1>1 DEF CapOK, OpenOK
<1> QED BY <1>4, <1>6, <1>7, <1>8, <1>9, <1>10, <1>11

\* The tasks that hold an encoder, and the requests for a keyframe.
LEMMA TaskKeeps ==
  ASSUME IInv, NEW e \in Encoders,
         \/ TaskStep(e)
         \/ e = desk.encoder /\ RequestsKeyframe
  PROVE  IInv'
<1>p. SessionOK /\ RefsOK /\ EncOK /\ enc[e] \in EncoderStates /\ cap[e] \in CaptureStates
      /\ open[e] \in Int /\ Owns(enc[e], cap[e], open[e]) /\ DeskIsAhead
  BY Parts
<1>1. ASSUME enc' = [enc EXCEPT ![e].force = Running(e)], RefsOK',
             UNCHANGED <<session, cap, open, picture>>
      PROVE  IInv'
  <2> DEFINE r == [enc[e] EXCEPT !.force = Running(e)]
  <2>1. enc' = [enc EXCEPT ![e] = r]  BY <1>1
  <2>2. Running(e) \in BOOLEAN  BY DEF Running
  <2>3. r \in EncoderStates /\ r.phase = enc[e].phase /\ r.registered = enc[e].registered
        /\ r.lost = enc[e].lost /\ r.lent = enc[e].lent
    BY <1>p, <2>2 DEF EncoderStates
  <2>4. Owns(r, cap[e], open[e]) /\ Follows(enc[e], r)  BY <1>p, <2>3 DEF Owns, Follows
  <2>5. picture' \in Sizes  BY <1>1, <1>p DEF SessionOK
  <2> HIDE DEF r
  <2> QED BY <1>p, <1>1, <2>1, <2>3, <2>4, <2>5, Unmoved, OneEncoder
<1>2. CASE KeyframeTask(e)
  <2>1. RefsOK'  BY <1>2, <1>p DEF KeyframeTask, RefsOK
  <2> QED BY <1>1, <1>2, <2>1 DEF KeyframeTask
<1>3. CASE e = desk.encoder /\ RequestsKeyframe
  <2>1. RefsOK'  BY <1>3, <1>p DEF RequestsKeyframe, RefsOK
  <2> QED BY <1>1, <1>3, <2>1 DEF RequestsKeyframe
<1>4. CASE ReportReturns(e)
  <2>1. /\ RefsOK' /\ EncOK' /\ CapOK' /\ OpenOK' /\ Ownership' /\ SamePhases
        /\ UNCHANGED <<session, picture>>
    BY <1>4, LetsGoEffect DEF ReportReturns
  <2>2. SessionOK' /\ DeskIsAhead' /\ desk' = desk
    BY <1>p, <2>1 DEF SessionOK, DeskIsAhead, session
  <2> QED BY <2>1, <2>2, DeskMoves
<1> QED BY <1>2, <1>3, <1>4 DEF TaskStep

\* The desktop moves between client, park and handoff.
LEMMA MovesKeep ==
  ASSUME IInv, \/ Streams \/ ReconcileJoins \/ ReconcileSkips \/ InsertJoins
               \/ ReportBorrows \/ PeerChanges \/ Parks \/ Taken
  PROVE  IInv'
<1>p. SessionOK /\ RefsOK /\ DeskIsAhead /\ desk.encoder \in Nat /\ desk.origin \in Nat
      /\ None \in Sizes
  BY Bounds DEF IInv, TypeOK, SessionOK, Sizes
<1>d. desk = [place |-> desk.place, encoder |-> desk.encoder, origin |-> desk.origin]
      /\ desk.place \in Places /\ desk.encoder \in Sizes /\ desk.origin \in Origins
  BY <1>p DEF SessionOK
<1>1. ASSUME NEW place \in Places \ {"building"}, Moves(place),
             place \in {"taken", "joining"} => desk.encoder < desk.origin,
             desk.place # "building", SessionOK', RefsOK', UNCHANGED <<enc, cap, open>>
      PROVE  IInv'
  <2>1. desk' = [place |-> place, encoder |-> desk.encoder, origin |-> desk.origin]
    BY <1>1, <1>d DEF Moves
  <2>2. DeskIsAhead'  BY <1>1, <1>p, <2>1 DEF DeskIsAhead
  <2>3. desk'.place # "building" /\ desk'.encoder = desk.encoder  BY <1>1, <2>1
  <2> QED BY <1>1, <2>2, <2>3, Still, DeskMoves
<1>2. CASE Streams
  <2>1. SessionOK' /\ RefsOK'
    <3>1. desk' \in [place : Places, encoder : Sizes, origin : Origins]
      BY <1>2, <1>p, <1>d DEF Streams, Moves, Places
    <3>2. RefsOK'  BY <1>2, <1>p DEF Streams, RefsOK
    <3> QED BY <1>2, <1>p, <3>1, <3>2 DEF Streams, SessionOK
  <2> QED BY <1>1, <1>2, <2>1 DEF Streams, Places
<1>3. CASE Parks
  <2>1. SessionOK' /\ RefsOK'
    <3>1. desk' \in [place : Places, encoder : Sizes, origin : Origins]
      BY <1>3, <1>p, <1>d DEF Parks, Moves, Places
    <3> QED BY <1>3, <1>p, <3>1 DEF Parks, SessionOK, RefsOK
  <2> QED BY <1>1, <1>3, <2>1 DEF Parks, Places
<1>4. CASE ReconcileSkips
  <2>1. SessionOK' /\ RefsOK'
    <3>1. desk' \in [place : Places, encoder : Sizes, origin : Origins]
      BY <1>4, <1>p, <1>d DEF ReconcileSkips, Moves, Places
    <3> QED BY <1>4, <1>p, <3>1 DEF ReconcileSkips, SessionOK, RefsOK
  <2> QED BY <1>1, <1>4, <2>1 DEF ReconcileSkips, Places
<1>5. CASE ReconcileJoins
  <2>1. desk' = [place |-> "building", encoder |-> desk.encoder, origin |-> desk.origin]
        /\ desk.place = "joining"
    BY <1>5, <1>d DEF ReconcileJoins, Moves
  <2>2. SessionOK' /\ RefsOK' /\ UNCHANGED <<enc, cap, open>>
    BY <1>5, <1>p, <1>d, <2>1 DEF ReconcileJoins, SessionOK, RefsOK, Places
  <2>3. DeskIsAhead' /\ desk'.encoder = desk.encoder  BY <1>p, <2>1 DEF DeskIsAhead
  <2>4. \A d \in Encoders : d = desk.encoder => ~Running(d)
    BY <1>5 DEF ReconcileJoins, Running
  <2> QED BY <2>2, <2>3, <2>4, Still, DeskMoves
<1>6. CASE InsertJoins \/ PeerChanges \/ ReportBorrows
  <2>1. desk' = desk /\ UNCHANGED <<enc, cap, open>>
    BY <1>6 DEF InsertJoins, PeerChanges, ReportBorrows, session
  <2>2. RefsOK'  BY <1>6, <1>p DEF InsertJoins, PeerChanges, ReportBorrows, RefsOK
  <2>3. SessionOK'
    BY <1>6, <1>p DEF InsertJoins, PeerChanges, ReportBorrows, SessionOK, session
  <2>4. DeskIsAhead'  BY <1>p, <2>1 DEF DeskIsAhead
  <2> QED BY <2>1, <2>2, <2>3, <2>4, Still, DeskMoves
<1>7. CASE Taken
  <2>1. desk' = [place |-> "taken", encoder |-> desk.encoder, origin |-> desk.origin + 1]
        /\ desk.origin < MaxOrigins /\ desk.place \in {"attached", "parked"}
    BY <1>7, <1>d DEF Taken
  <2>2. desk.origin + 1 \in Origins
    BY <1>d, <2>1, Bounds DEF Origins
  <2>3. connected' \in [Origins -> BOOLEAN]  BY <1>7, <1>p DEF Taken, SessionOK
  <2>4. SessionOK' /\ RefsOK' /\ UNCHANGED <<enc, cap, open>>
    BY <1>7, <1>p, <1>d, <2>1, <2>2, <2>3 DEF Taken, SessionOK, RefsOK, Places
  <2>5. desk.encoder =< desk.origin  BY <1>p DEF DeskIsAhead
  <2>6. DeskIsAhead' /\ desk'.encoder = desk.encoder /\ desk'.place = "taken"
    BY <1>p, <2>1, <2>5 DEF DeskIsAhead
  <2> QED BY <2>4, <2>6, Still, DeskMoves
<1> QED BY <1>2, <1>3, <1>4, <1>5, <1>6, <1>7

\* The desktop lets go of its encoder.
LEMMA DropsKeep ==
  ASSUME IInv, ReconcileDrops \/ Discards \/ InsertDrops
  PROVE  IInv'
<1>p. SessionOK /\ RefsOK /\ DeskIsAhead /\ desk.encoder \in Nat /\ desk.origin \in Nat
      /\ None \in Sizes
  BY Bounds DEF IInv, TypeOK, SessionOK, Sizes
<1>d. desk = [place |-> desk.place, encoder |-> desk.encoder, origin |-> desk.origin]
      /\ desk.place \in Places /\ desk.encoder \in Sizes /\ desk.origin \in Origins
  BY <1>p DEF SessionOK
<1>e. desk.place # "building" /\ desk.encoder \in Encoders
  <2>1. desk.place # "building"  BY DEF ReconcileDrops, Discards, InsertDrops
  <2> QED BY <1>p, <1>d, <2>1 DEF DeskIsAhead, Sizes, Encoders
<1>l. LetsGo(desk.encoder, "session") /\ UNCHANGED <<cap, open>>
  BY DEF ReconcileDrops, Discards, InsertDrops
<1>m. /\ RefsOK' /\ EncOK' /\ CapOK' /\ OpenOK' /\ Ownership' /\ SamePhases
      /\ Running(desk.encoder) /\ refs[desk.encoder] # {"session"} => enc'[desk.encoder].lent
  BY <1>e, <1>l, LetsGoEffect
<1>1. CASE ReconcileDrops
  <2> DEFINE place == IF refs[desk.encoder] = {"session"} THEN "joining" ELSE "building"
  <2>1. desk' = [place |-> place, encoder |-> desk.encoder, origin |-> desk.origin]
        /\ desk.place = "taken"
    BY <1>1, <1>d DEF ReconcileDrops, Moves
  <2>2. SessionOK'
    BY <1>1, <1>p, <1>d, <2>1 DEF ReconcileDrops, SessionOK, Places
  <2>3. DeskIsAhead' /\ desk'.encoder = desk.encoder  BY <1>e, <1>p, <2>1 DEF DeskIsAhead
  <2>4. desk'.place = "building" => refs[desk.encoder] # {"session"}  BY <2>1
  <2> QED BY <1>m, <2>2, <2>3, <2>4, DeskMoves
<1>2. CASE Discards \/ InsertDrops
  <2>1. desk' = [place |-> "ended", encoder |-> desk.encoder, origin |-> desk.origin]
    BY <1>2, <1>d DEF Discards, InsertDrops, Moves
  <2>2. lock' \in Sizes /\ picture' \in Sizes /\ UNCHANGED <<direct, output, connected>>
    BY <1>2, <1>p, <1>d DEF Discards, InsertDrops, SessionOK
  <2>3. SessionOK'  BY <1>p, <1>d, <2>1, <2>2 DEF SessionOK, Places
  <2>4. DeskIsAhead' /\ desk'.encoder = desk.encoder /\ desk'.place # "building"
    BY <1>e, <1>p, <2>1 DEF DeskIsAhead
  <2> QED BY <1>m, <2>3, <2>4, DeskMoves
<1> QED BY <1>1, <1>2

\* A new encoder is built where there was none, after every other that runs
\* has been lent.
LEMMA BuildsKeeps ==
  ASSUME IInv, Builds
  PROVE  IInv'
<1> DEFINE e == desk.origin
           r == NewEncoder(output')
           c == [NoCapture EXCEPT !.running = TRUE]
<1>p. SessionOK /\ RefsOK /\ EncOK /\ CapOK /\ OpenOK /\ DeskIsAhead
  BY DEF IInv, TypeOK
<1>d. desk = [place |-> desk.place, encoder |-> desk.encoder, origin |-> e]
      /\ desk.encoder \in Sizes /\ e \in Origins /\ e \in Encoders
      /\ desk.encoder \in Nat /\ e \in Nat
  BY <1>p, Bounds DEF SessionOK
<1>b. /\ desk.place = "building" /\ output' \in {output, e}
      /\ desk' = [desk EXCEPT !.place = "built", !.encoder = e]
      /\ refs' = [refs EXCEPT ![e] = {"session"}] /\ enc' = [enc EXCEPT ![e] = r]
      /\ cap' = [cap EXCEPT ![e] = c]
      /\ UNCHANGED <<direct, connected, lock, open, picture>>
  BY DEF Builds, Granted
<1>1. desk.encoder < e /\ enc[e].phase = "none"
  <2>1. desk.encoder < e  BY <1>b, <1>p DEF DeskIsAhead
  <2>2. TurnOf(e)  BY <1>d DEF IInv, Turns
  <2> QED BY <1>d, <2>1, <2>2 DEF TurnOf
<1>2. open[e] = 0
  <2>1. Owns(enc[e], cap[e], open[e])  BY <1>d DEF IInv, Ownership
  <2>2. open[e] = 0 + 0 + 0  BY <1>1, <2>1, Empty DEF Owns
  <2> QED BY <2>2
<1>3. desk' = [place |-> "built", encoder |-> e, origin |-> e]  BY <1>b, <1>d
<1>4. output' \in Origins  BY <1>b, <1>d, <1>p DEF SessionOK
<1>5. r \in EncoderStates /\ r.phase \notin {"none", "unwinding", "gone"}
      /\ r.registered = {} /\ r.lost = 0
  <2>1. output' \in Sizes /\ None \in Sizes  BY <1>4 DEF Sizes
  <2> QED BY <2>1, Empty DEF NewEncoder, NoEncoder, EncoderStates
<1>6. c \in CaptureStates /\ c.queue = <<>>  BY Empty DEF CaptureStates
<1>7. Owns(r, c, 0)
  BY <1>5, <1>6, Empty DEF Owns
<1>8. SessionOK' /\ DeskIsAhead'
  BY <1>b, <1>d, <1>p, <1>3, <1>4, Bounds DEF SessionOK, DeskIsAhead, Places, Sizes
<1> HIDE DEF r, c, e
<1>9. RefsOK' /\ EncOK' /\ CapOK' /\ OpenOK'
  BY <1>b, <1>d, <1>p, <1>5, <1>6 DEF RefsOK, EncOK, CapOK, OpenOK
<1>10. /\ enc'[e] = r /\ cap'[e] = c /\ open'[e] = 0
       /\ \A d \in Encoders : d # e => enc'[d] = enc[d] /\ cap'[d] = cap[d] /\ open'[d] = open[d]
  BY <1>b, <1>d, <1>p, <1>2 DEF EncOK, CapOK, OpenOK
<1>11. Ownership'
  <2> SUFFICES ASSUME NEW d \in Encoders PROVE Owns(enc'[d], cap'[d], open'[d])
    BY DEF Ownership
  <2> QED BY <1>7, <1>10 DEF IInv, Ownership
<1>12. ASSUME NEW d \in Encoders PROVE TurnOf(d)'
  <2>1. desk'.encoder = e /\ desk'.place = "built" /\ d \in Nat  BY <1>3, Bounds
  <2>2. CASE d = e  BY <1>d, <2>1, <2>2 DEF TurnOf
  <2>3. CASE d # e
    <3>1. TurnOf(d) /\ enc'[d] = enc[d]  BY <1>10, <2>3 DEF IInv, Turns
    <3>2. d > e => enc[d].phase = "none"  BY <1>d, <1>1, <2>1, <3>1 DEF TurnOf
    <3>3. Running(d) => enc[d].lent  BY <1>b, <3>1 DEF TurnOf
    <3> QED BY <2>1, <3>1, <3>2, <3>3 DEF TurnOf, Running
  <2> QED BY <2>2, <2>3
<1> QED BY <1>8, <1>9, <1>11, <1>12 DEF IInv, TypeOK, Turns

-----------------------------------------------------------------------------
(***************************************************************************)
(* The theorems.                                                           *)
(***************************************************************************)

LEMMA InitHolds == Init => IInv
<1> SUFFICES ASSUME Init PROVE IInv
  OBVIOUS
<1>1. SessionOK
  <2>1. connected \in [Origins -> BOOLEAN]  BY DEF Init
  <2>2. desk \in [place : Places, encoder : Sizes, origin : Origins]
    BY Bounds DEF Init, Places
  <2> QED BY <2>1, <2>2, Bounds DEF Init, SessionOK
<1>2. RefsOK /\ EncOK /\ CapOK /\ OpenOK
  BY Empty DEF Init, RefsOK, EncOK, CapOK, OpenOK
<1>3. DeskIsAhead  BY DEF Init, DeskIsAhead, None
<1>4. Ownership
  <2>1. NoEncoder.phase = "none" /\ NoEncoder.registered = {} /\ NoEncoder.lost = 0
    BY DEF NoEncoder
  <2>2. Owns(NoEncoder, NoCapture, 0)  BY <2>1, Empty DEF Owns
  <2> QED BY <2>2 DEF Init, Ownership
<1>5. Turns  BY DEF Init, Turns, TurnOf, Running, NoEncoder
<1> QED BY <1>1, <1>2, <1>3, <1>4, <1>5 DEF IInv, TypeOK

LEMMA StepKeeps == IInv /\ [Next]_vars => IInv'
<1> SUFFICES ASSUME IInv, [Next]_vars PROVE IInv'
  OBVIOUS
<1>1. CASE \E e \in Encoders : CaptureStep(e) \/ EncoderStep(e) \/ TaskStep(e)
  BY <1>1, CaptureKeeps, DirectKeeps, PusherKeeps, TaskKeeps DEF EncoderStep
<1>2. CASE HandoffStep
  BY <1>2, BuildsKeeps, MovesKeep, DropsKeep DEF HandoffStep
<1>3. CASE RequestStep
  <2>1. CASE RequestsKeyframe
    <3>1. desk.encoder \in Encoders
      BY <2>1 DEF RequestsKeyframe, IInv, TypeOK, SessionOK, DeskIsAhead, Sizes, Encoders
    <3> QED BY <2>1, <3>1, TaskKeeps
  <2> QED BY <1>3, <2>1, MovesKeep, DropsKeep DEF RequestStep
<1>4. CASE InsertJoins  BY <1>4, MovesKeep
<1>5. CASE UNCHANGED vars
  <2>1. TypeOK' /\ DeskIsAhead'
    BY <1>5 DEF IInv, TypeOK, SessionOK, RefsOK, EncOK, CapOK, OpenOK, DeskIsAhead, vars, session
  <2>2. Ownership' /\ Turns'
    BY <1>5 DEF IInv, Ownership, Turns, TurnOf, Running, vars, session
  <2> QED BY <2>1, <2>2 DEF IInv
<1> QED BY <1>1, <1>2, <1>3, <1>4, <1>5 DEF Next

LEMMA InvariantHolds == Spec => []IInv
BY InitHolds, StepKeeps, PTL DEF Spec

\* Every variable of capture, encoders and session manager keeps its type; no
\* count of descriptors is below zero.
THEOREM TypesHold == Spec => [](TypeOK /\ \A e \in Encoders : open[e] \in Nat)
<1>1. IInv => TypeOK /\ \A e \in Encoders : open[e] \in Nat
  <2> SUFFICES ASSUME IInv, NEW e \in Encoders PROVE open[e] \in Nat
    BY DEF IInv
  <2>1. Len(cap[e].queue) \in Nat /\ Cardinality(enc[e].registered) \in Nat /\ enc[e].lost \in Nat
    BY Parts, Counts, Queues DEF EncoderStates
  <2> QED BY <2>1, Parts DEF Owns
<1> QED BY <1>1, InvariantHolds, PTL

\* A descriptor is open exactly as long as its frame is queued or its buffer
\* imported, through resizes, failures and every way in which a consumer ends;
\* at most one is left behind.
THEOREM DescriptorsAreOwned == Spec => []FdsAreOwned
<1>1. IInv => FdsAreOwned
  <2> SUFFICES ASSUME IInv, NEW e \in Encoders
               PROVE  /\ open[e] = Len(cap[e].queue) + Cardinality(enc[e].registered) + enc[e].lost
                      /\ enc[e].phase = "gone" => open[e] <= 1 /\ ~cap[e].running
                      /\ Running(e) /\ enc[e].phase # "unwinding" => enc[e].lost = 0
    BY DEF FdsAreOwned
  <2>1. Owns(enc[e], cap[e], open[e]) /\ enc[e].lost \in {0, 1}
    BY Parts DEF EncoderStates
  <2>2. enc[e].phase = "gone" => open[e] = 0 + 0 + enc[e].lost
    BY <2>1, Empty DEF Owns
  <2> QED BY <2>1, <2>2 DEF Owns, Running
<1> QED BY <1>1, InvariantHolds, PTL

\* reconcile_video_pipeline never has two encoders of a desktop at work, unless
\* a task held the old one when the desktop let go of it.
THEOREM OldOneIsGoneOrLent == Spec => []OldEncoderGoesFirst
<1>1. IInv => OldEncoderGoesFirst
  <2> SUFFICES ASSUME IInv, NEW d \in Encoders, NEW e \in Encoders,
                      d < e, Running(d), Running(e)
               PROVE  enc[d].lent
    BY DEF OldEncoderGoesFirst
  <2>1. TurnOf(d) /\ TurnOf(e) /\ d \in Nat /\ e \in Nat /\ desk.encoder \in Nat
    BY Bounds DEF IInv, TypeOK, SessionOK, Turns
  <2>2. ~(e > desk.encoder)  BY <2>1 DEF TurnOf, Running
  <2>3. d < desk.encoder  BY <2>1, <2>2
  <2> QED BY <2>1, <2>3 DEF TurnOf
<1> QED BY <1>1, InvariantHolds, PTL

===============================================================================
