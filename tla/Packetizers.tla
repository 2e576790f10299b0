----------------------------- MODULE Packetizers -----------------------------
(***************************************************************************)
(* What the wire carries, as functions: the shards of a video frame        *)
(* (video.rs), the data and FEC packets of audio (audio.rs) and the next   *)
(* bitrate after a loss report (session.rs).  A payload is its length; the *)
(* Reed-Solomon code itself is the library's.                              *)
(***************************************************************************)
EXTENDS Naturals, Sequences, FiniteSets

---------------------------------------------------------------------------
\* Video.

RequestedShardPayloadSize == 1024 - 16
VideoFrameHeaderSize == 8
MinRequiredFecPackets == 2
MaxShardsPerFecBlock == 255

CeilDiv(a, b) == (a + b - 1) \div b
Least(a, b) == IF a <= b THEN a ELSE b
Most(a, b) == IF a >= b THEN a ELSE b

\* `configured` percent of the data shards.  The floor raises the percentage
\* that is advertised with it; the cap of a block does not lower it, although
\* the code's comment has it say what was actually generated.
FecPolicy(n, configured) ==
    LET asked == CeilDiv(n * configured, 100)
        floored == asked > 0 /\ asked < MinRequiredFecPackets
        parity == IF floored THEN MinRequiredFecPackets ELSE asked
        room == IF n > MaxShardsPerFecBlock THEN 0 ELSE MaxShardsPerFecBlock - n
    IN [parity |-> Least(parity, room),
        percentage |-> IF floored THEN (100 * parity) \div n ELSE configured]

\* fec_info as its bits 12..31 and 0..11.
EncodeFecInfo(total, index, percentage) ==
    [high |-> (total * 1024 + index) % 2^20, low |-> (percentage * 16) % 2^12]

LastShardSizeIsRemainder(len) == len % RequestedShardPayloadSize

LastShardSize(len) ==
    LET last == len % RequestedShardPayloadSize
    IN IF last = 0 THEN RequestedShardPayloadSize ELSE last

\* An access unit of `size` bytes becomes its shards, from sequence number seq.
Packetize(size, seq, frame, configured) ==
    LET len == VideoFrameHeaderSize + size
        n == Most(CeilDiv(len, RequestedShardPayloadSize), 1)
        fec == FecPolicy(n, configured)
    IN [i \in 1..(n + fec.parity) |->
          [rtp    |-> (seq + i - 1) % 2^16,
           stream |-> (seq + i - 1) % 2^24,
           frame  |-> frame,
           start  |-> i = 1,
           end    |-> i = n,
           info   |-> EncodeFecInfo(n, i - 1, fec.percentage),
           last   |-> LastShardSize(len)]]  \* in the frame header, which shard 1 carries

---------------------------------------------------------------------------
\* Audio.

AudioDataShards == 4

BaseBeforeAdvance(next) == (next + 2^16 - AudioDataShards - 1) % 2^16

\* sequence_number - 4, for the group that has just been completed.
BaseSequenceNumber(next) == (next + 2^16 - AudioDataShards) % 2^16

\* The state is the next sequence number, the base timestamp and the lengths
\* in the group; frames of one length make a group that gets FEC packets.
PacketizeAudio(state, len, time) ==
    LET index == state.seq % AudioDataShards
        base == IF index = 0 THEN time ELSE state.base
        group == [state.group EXCEPT ![index] = len]
        next == (state.seq + 1) % 2^16
        data == [type |-> "data", seq |-> state.seq, time |-> time]
        fec(i) == [type |-> "fec", seq |-> (next + i) % 2^16,
                   shard |-> i, of |-> BaseSequenceNumber(next), base |-> base]
        full == index = AudioDataShards - 1 /\ \A i \in DOMAIN group : group[i] = group[0]
    IN [state |-> [seq |-> next, base |-> base, group |-> group],
        packets |-> IF full THEN <<data, fec(0), fec(1)>> ELSE <<data>>]

FreshAudio == [seq |-> 0, base |-> 0, group |-> [i \in 0..(AudioDataShards - 1) |-> 0]]

---------------------------------------------------------------------------
\* Bitrate.

FloorKbps(target) == Most(target \div 4, 1000)

AdaptWithoutCeiling(current, target, behind) ==
    IF behind > 3 THEN Most((current * 85) \div 100, FloorKbps(target))
    ELSE IF behind <= 1 THEN (current * 105) \div 100
    ELSE current

AdaptBitrate(current, target, behind) ==
    IF behind > 3 THEN Most((current * 85) \div 100, FloorKbps(target))
    ELSE IF behind <= 1 THEN Least((current * 105) \div 100, target)
    ELSE current

\* on_loss_stats: how far the client is behind the next frame to be sent.
AdaptAfterReport(current, target, nextFrame, lastGood) ==
    AdaptBitrate(current, target, IF nextFrame > lastGood THEN nextFrame - lastGood ELSE 0)

---------------------------------------------------------------------------
(***************************************************************************)
(* What Streams' invariants say of every frame and every loss report, over *)
(* inputs at the boundaries: frames that fill their last shard exactly or  *)
(* by one byte more or less, that reach the limits of an FEC block (or     *)
(* 1023 shards, the most that the 10-bit fields can say), and numbers      *)
(* about to wrap.                                                          *)
(***************************************************************************)

Counts == {1, 2, 5, 6, 212, 213, 254, 255, 256, 1023}
Fits(n) == n * RequestedShardPayloadSize - VideoFrameHeaderSize
Sizes == {size \in UNION {(Fits(n) - 1)..(Fits(n) + 1) : n \in Counts} : size <= Fits(1023)}
Starts == {0, 2^16 - 3, 2^24 - 3}

\* What a client computes from the headers of a frame's data shards.
Total(shard) == shard.info.high \div 1024
Index(shard) == shard.info.high % 1024
Percentage(shard) == shard.info.low \div 16

\* Every shard says where it belongs among the n data shards of its frame.
TellsItsPlace(shards, n) ==
    \A i \in 1..Len(shards) :
       /\ Total(shards[i]) = n /\ Index(shards[i]) = i - 1
       /\ shards[i].start <=> i = 1
       /\ shards[i].end <=> i = n

TellsItsSize(shards, n, size) ==
    /\ (n - 1) * RequestedShardPayloadSize + shards[1].last = VideoFrameHeaderSize + size
    /\ shards[1].last \in 1..RequestedShardPayloadSize

\* As many shards as the header's percentage asks for, cut off where the block is
\* full: there the percentage says more than was generated.
TellsItsParity(shards, n) ==
    Len(shards) = Least(n + CeilDiv(n * Percentage(shards[1]), 100), Most(n, MaxShardsPerFecBlock))

HasNoGap(wire) ==
    \A i \in 1..(Len(wire) - 1) :
       /\ wire[i + 1].rtp = (wire[i].rtp + 1) % 2^16
       /\ wire[i + 1].stream = (wire[i].stream + 1) % 2^24

\* From the shards alone a client finds the frame: its first and last shard,
\* every shard's place, its exact length, and no gap to the next frame.  The
\* parity shards to wait for it finds for every size, from one to 1023 data
\* shards, but above 212 (at 20 percent) not from the header alone: it must cut
\* the advertised percentage at 255 shards itself.
EverySizeReassembles ==
    \A size \in Sizes, seq \in Starts, configured \in {0, 20} :
       LET shards == Packetize(size, seq, 7, configured)
           following == Packetize(0, seq + Len(shards), 8, configured)
           n == Total(shards[1])
       IN /\ TellsItsPlace(shards, n) /\ TellsItsSize(shards, n, size) /\ TellsItsParity(shards, n)
          /\ HasNoGap(shards \o following)

OpusFrames == 12
AudioNumbers == {0, 2^16 - 8, 2^16 - 4}

\* The i-th of the Opus frames of 10 ms, the odd one of another length.
OpusLength(i, odd) == IF i = odd THEN 9 ELSE 8

\* What the packetizer keeps after each of the frames, the first of them numbered seq.
AudioRun(seq, odd) ==
    LET run[i \in 0..OpusFrames] == IF i = 0 THEN [FreshAudio EXCEPT !.seq = seq]
                            ELSE PacketizeAudio(run[i - 1], OpusLength(i, odd), 10 * i).state
    IN run

SentAudio(seq, odd) ==
    LET kept == AudioRun(seq, odd)
    IN [i \in 1..OpusFrames |-> PacketizeAudio(kept[i - 1], OpusLength(i, odd), 10 * i).packets]

\* The i-th frame has a data packet with the next number, also where the 16-bit
\* numbers wrap and after FEC packets.  Two FEC packets follow the last of four
\* frames of one length; they stand for those four and say when the first was
\* taken.  A group with the odd frame has none.
Recoverable(sent, seq, odd, i) ==
    /\ sent[i][1] = [type |-> "data", seq |-> (seq + (i - 1)) % 2^16, time |-> 10 * i]
    /\ sent[i][1].seq % AudioDataShards = (i - 1) % AudioDataShards
    /\ Len(sent[i]) = IF i % 4 = 0 /\ odd \notin (i - 3)..i THEN 3 ELSE 1
    /\ \A p \in 2..Len(sent[i]) :
          /\ sent[i][p].type = "fec"
          /\ sent[i][p].of = sent[i - 3][1].seq
          /\ sent[i][p].base = sent[i - 3][1].time

EveryAudioGroupRecovers ==
    \A seq \in AudioNumbers, odd \in 0..8 :
       LET sent == SentAudio(seq, odd)
       IN \A i \in 1..OpusFrames : Recoverable(sent, seq, odd, i)

Targets == {1000, 1001, 3999, 4001, 20000}
Stretch == 21

\* The bitrates after each report of a stretch that is equally far behind.
Settled(target, start, behind) ==
    LET rate[i \in 0..Stretch] == IF i = 0 THEN start ELSE AdaptAfterReport(rate[i - 1], target, 10, 10 - behind)
    IN rate

StaysWithin(rate, target) == \A i \in 0..Stretch : rate[i] \in FloorKbps(target)..target

\* At most one stretch of a client that lags takes it down to the floor, at most
\* two of one that keeps up take it to exactly the target, and never past it.
FallsToTheFloor(target) == Settled(target, target, 4)[Stretch] = FloorKbps(target)

RisesToTheTarget(target, start) ==
    LET rising == Settled(target, start, 1)
    IN /\ StaysWithin(rising, target)
       /\ \A half \in {rising[Stretch]} :
             LET risen == Settled(target, half, 1)
             IN StaysWithin(risen, target) /\ risen[Stretch] = target

\* Whatever the client reported before, it climbs back once it keeps up, and
\* never starves while it does not.
EveryRateSettles ==
    \A target \in Targets :
       /\ FallsToTheFloor(target)
       /\ \A start \in {Settled(target, target, 4)[drop] : drop \in {0, 1, 7, Stretch}} :
             RisesToTheTarget(target, start)

=============================================================================
