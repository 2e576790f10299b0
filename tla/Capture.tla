-------------------------------- MODULE Capture --------------------------------
(***************************************************************************)
(* One desktop's capture and encoder threads: PipewireCapture, which dups  *)
(* the file descriptor of every frame (pipewire_capture.rs), its consumers *)
(* CudaDirectEncoderSession (nvenc_session.rs) and the frame pusher of the *)
(* GStreamer pipelines (redfog-core), and the session manager that shares, *)
(* replaces and drops the encoder (session.rs).                            *)
(*                                                                         *)
(* Simplifications.  KWin exports DMA-BUFs to the direct encoder; it would *)
(* close any other frame like one of the wrong size.  reconfigure and      *)
(* rebuild_for_resume have no caller or no effect.  What GStreamer does    *)
(* behind the appsrc is not modelled.                                      *)
(***************************************************************************)
EXTENDS Naturals, Sequences, FiniteSets

CONSTANTS
    Buffers,      \* buffer_identity: the stream's pool, whose numbers are used again
    MaxOrigins,   \* bound: handoffs of the desktop, and so encoders
    MaxQueue      \* bound: frames in the channel from the capture thread

ASSUME CaptureConstants == MaxOrigins \in Nat \ {0} /\ MaxQueue \in Nat /\ IsFiniteSet(Buffers)

Origins == 1..MaxOrigins
Encoders == Origins
None == 0

VARIABLES
    direct,     \* config.video_encoder = NvencDirect
    desk,       \* where the desktop's RunningSession is, its encoder and its origin
    output,     \* the compositor's resolution, named after the origin that asked for it
    connected,  \* SessionOrigin::connected
    refs,       \* who holds the Arc of an encoder
    enc,        \* CudaDirectEncoderSession, or a pusher thread
    cap,        \* its PipewireCapture
    open,       \* how many dup'd descriptors are open
    lock,       \* the encoder that is joined under the lock of `shared`, or None
    picture     \* the encoder whose keyframe the attached client has received

session == <<direct, desk, output, connected, lock>>
vars == <<session, refs, enc, cap, open, picture>>

NoEncoder == [phase |-> "none", force |-> FALSE, first |-> TRUE, key |-> FALSE,
              size |-> None, registered |-> {}, lent |-> FALSE, lost |-> 0]
NoCapture == [running |-> FALSE, size |-> None, queue |-> <<>>]

Init ==
    /\ direct \in BOOLEAN
    /\ desk = [place |-> "building", encoder |-> None, origin |-> 1]
    /\ output = 1
    /\ connected \in {[o \in Origins |-> o = 1 /\ here] : here \in BOOLEAN}
    /\ refs = [e \in Encoders |-> {}] /\ enc = [e \in Encoders |-> NoEncoder]
    /\ cap = [e \in Encoders |-> NoCapture] /\ open = [e \in Encoders |-> 0]
    /\ lock = None /\ picture = None

Moves(place) == desk' = [desk EXCEPT !.place = place]
Running(e) == enc[e].phase \notin {"none", "gone"}

\* What the thread finds of the request to stop, which the last Arc's Drop makes.
Stopped(e) == refs[e] = {}

---------------------------------------------------------------------------
\* Capture thread.

\* param_changed: from now on frames are said to have this size.
Negotiates(e) ==
    /\ cap[e].running /\ cap[e].size # output
    /\ cap' = [cap EXCEPT ![e].size = output]
    /\ UNCHANGED <<session, refs, enc, open, picture>>

\* process, which goes on until the loop has ended.
Captures(e) ==
    /\ cap[e].running /\ cap[e].size # None /\ Len(cap[e].queue) < MaxQueue
    /\ \E b \in Buffers : cap' = [cap EXCEPT ![e].queue = Append(@, [buffer |-> b, size |-> cap[e].size])]
    /\ open' = [open EXCEPT ![e] = @ + 1]
    /\ UNCHANGED <<session, refs, enc, picture>>

\* The timer has seen the flag and the last iterations are over, or run_loop failed.
CaptureEnds(e) ==
    /\ cap[e].running /\ cap' = [cap EXCEPT ![e].running = FALSE]
    /\ enc[e].phase = "unwinding" \/ cap[e].size = None
    /\ UNCHANGED <<session, refs, enc, open, picture>>

---------------------------------------------------------------------------
\* Drop of PipewireCapture, at the end of either consumer.

\* Everything imported goes with the encoder, then the capture is dropped.
Unwinds(e) ==
    /\ enc' = [enc EXCEPT ![e].phase = "unwinding", ![e].registered = {}]
    /\ open' = [open EXCEPT ![e] = @ - Cardinality(enc[e].registered)]

CaptureDropsUndrained(e) ==
    /\ enc[e].phase = "unwinding" /\ ~cap[e].running
    /\ enc' = [enc EXCEPT ![e] = [NoEncoder EXCEPT !.phase = "gone", !.lost = enc[e].lost]]
    /\ cap' = [cap EXCEPT ![e] = NoCapture]
    /\ UNCHANGED <<session, refs, open, picture>>

\* join, then the frames that nobody has taken.
CaptureDrops(e) ==
    /\ enc[e].phase = "unwinding" /\ ~cap[e].running
    /\ enc' = [enc EXCEPT ![e] = [NoEncoder EXCEPT !.phase = "gone", !.lost = enc[e].lost]]
    /\ cap' = [cap EXCEPT ![e] = NoCapture]
    /\ open' = [open EXCEPT ![e] = @ - Len(cap[e].queue)]
    /\ UNCHANGED <<session, refs, picture>>

---------------------------------------------------------------------------
\* Direct encoder thread.

\* CUDA, NVENC or the codec may be unavailable: no video, but no panic.
SetUp(e) ==
    /\ enc[e].phase = "setup"
    /\ \/ enc' = [enc EXCEPT ![e].phase = "loop"] /\ UNCHANGED open
       \/ Unwinds(e)
    /\ UNCHANGED <<session, refs, cap, picture>>

\* The head of the loop, reached within the 200 ms of next_frame if no frame comes.
Stops(e) ==
    /\ direct /\ enc[e].phase = "loop" /\ Stopped(e)
    /\ Unwinds(e)
    /\ UNCHANGED <<session, refs, cap, picture>>

\* The flag that a thread watches for life is that of the origin it was built
\* for, the incoming one.
OldFlag(e) == connected[IF e = 1 THEN 1 ELSE e - 1]
Flag(e) == connected[e]

TakesNext(e) ==
    /\ enc[e].phase = "loop" /\ cap[e].queue # <<>>
    /\ cap' = [cap EXCEPT ![e].queue = Tail(@)]
    /\ UNCHANGED <<session, refs, picture>>

\* Nobody is connected, or the frame has the size from before a resize.
ClosesFrame(e) ==
    /\ direct /\ TakesNext(e)
    /\ ~Flag(e) \/ Head(cap[e].queue).size # enc[e].size
    /\ open' = [open EXCEPT ![e] = @ - 1]
    /\ UNCHANGED enc

\* A buffer not seen before is imported, with its descriptor; any other's is
\* closed.  A request for a keyframe waits for the next frame if this one is
\* a keyframe anyway: the first one, or every 300th.
Encodes(e) ==
    LET b == Head(cap[e].queue).buffer
        known == b \in enc[e].registered
    IN /\ direct /\ TakesNext(e)
       /\ Flag(e) /\ Head(cap[e].queue).size = enc[e].size
       /\ open' = [open EXCEPT ![e] = IF known THEN @ - 1 ELSE @]
       /\ \E boundary \in {TRUE, enc[e].first} :
             enc' = [enc EXCEPT ![e].phase = "calling", ![e].registered = @ \cup {b}, ![e].first = FALSE,
                                ![e].key = boundary \/ enc[e].force,
                                ![e].force = boundary /\ @]

\* An import that fails closes the descriptor itself, but not when vkCreateImage
\* or bind_to_thread is what failed.
FailureLoses(e) == IF Head(cap[e].queue).buffer \in enc[e].registered THEN {0} ELSE {0, 1}

\* fstat, import, registration or NVENC fails.
EncodingFails(e) ==
    /\ direct /\ TakesNext(e)
    /\ \E lost \in FailureLoses(e) :
          /\ enc' = [enc EXCEPT ![e].phase = "unwinding", ![e].registered = {}, ![e].lost = lost]
          /\ open' = [open EXCEPT ![e] = @ - 1 - Cardinality(enc[e].registered) + lost]

\* on_video_access_unit takes the lock and looks for the attached session.
Delivers(e) ==
    /\ enc[e].phase = "calling" /\ lock = None
    /\ picture' = IF desk.place = "attached" /\ connected[desk.origin] /\ enc[e].key THEN e ELSE picture
    /\ enc' = [enc EXCEPT ![e].phase = "loop", ![e].key = FALSE]
    /\ UNCHANGED <<session, refs, cap, open>>

---------------------------------------------------------------------------
\* Pusher thread of a GStreamer pipeline.

\* set_caps empties the cache of the buffers that appsrc was given.
PushesFrame(e) ==
    LET frame == Head(cap[e].queue)
        cache == IF frame.size = enc[e].size THEN enc[e].registered ELSE {}
        cleared == Cardinality(enc[e].registered \ cache)
    IN /\ ~direct /\ TakesNext(e)
       /\ \/ frame.buffer \in cache  \* the cached memory; this descriptor is closed
             /\ open' = [open EXCEPT ![e] = @ - 1 - cleared]
             /\ enc' = [enc EXCEPT ![e].size = frame.size, ![e].registered = cache]
          \/ frame.buffer \notin cache  \* the allocator owns it
             /\ open' = [open EXCEPT ![e] = @ - cleared]
             /\ enc' = [enc EXCEPT ![e].size = frame.size, ![e].registered = cache \cup {frame.buffer}]
          \/ \* allocation failed, or memory to be copied
             /\ open' = [open EXCEPT ![e] = @ - 1 - cleared]
             /\ enc' = [enc EXCEPT ![e].size = frame.size, ![e].registered = cache]

\* 200 ms without a frame, or a pipeline that is gone: the thread ends for good.
PusherEnds(e) ==
    /\ ~direct /\ enc[e].phase = "loop"
    /\ cap[e].queue = <<>> \/ Stopped(e)
    /\ Unwinds(e)
    /\ UNCHANGED <<session, refs, cap, picture>>

---------------------------------------------------------------------------
\* The session manager.

\* One holder lets go; the last one drops the encoder, which asks the thread
\* to stop and joins it.
LetsGo(e, holder) ==
    /\ refs' = [refs EXCEPT ![e] = @ \ {holder}]
    /\ enc' = [enc EXCEPT ![e].lent = @ \/ (Running(e) /\ holder = "session" /\ refs[e] # {"session"})]

NewEncoder(size) ==
    [NoEncoder EXCEPT !.phase = IF direct THEN "setup" ELSE "loop", !.size = IF direct THEN size ELSE None]

\* What the compositor makes of the resize: the wanted size, or it stays.
Granted == {output, desk.origin}

\* build_video_pipeline, of the size that the compositor then has.
Builds ==
    LET e == desk.origin
    IN /\ desk.place = "building" /\ output' \in Granted
       /\ desk' = [desk EXCEPT !.place = "built", !.encoder = e]
       /\ refs' = [refs EXCEPT ![e] = {"session"}]
       /\ enc' = [enc EXCEPT ![e] = NewEncoder(output')]
       /\ cap' = [cap EXCEPT ![e] = [NoCapture EXCEPT !.running = TRUE]]
       /\ UNCHANGED <<direct, connected, lock, open, picture>>

\* start_streaming; its task for a keyframe after 700 ms has a reference.
Streams ==
    /\ desk.place = "built" /\ Moves("attached")
    /\ refs' = [refs EXCEPT ![desk.encoder] = @ \cup (IF direct THEN {"keyframe"} ELSE {})]
    /\ UNCHANGED <<direct, output, connected, lock, enc, cap, open, picture>>

KeyframeTask(e) ==
    /\ "keyframe" \in refs[e] /\ refs' = [refs EXCEPT ![e] = @ \ {"keyframe"}]
    /\ enc' = [enc EXCEPT ![e].force = Running(e)]
    /\ UNCHANGED <<session, cap, open, picture>>

\* on_request_idr_frame
RequestsKeyframe ==
    /\ desk.place = "attached" /\ lock = None /\ connected[desk.origin]
    /\ enc' = [enc EXCEPT ![desk.encoder].force = Running(desk.encoder)]
    /\ UNCHANGED <<session, refs, cap, open, picture>>

\* on_loss_stats clones the Arc under the lock and uses the clone after it.
ReportBorrows ==
    /\ direct /\ desk.place = "attached" /\ lock = None /\ connected[desk.origin]
    /\ refs[desk.encoder] = {"session"}  \* bound: one borrower
    /\ refs' = [refs EXCEPT ![desk.encoder] = @ \cup {"report"}]
    /\ UNCHANGED <<session, enc, cap, open, picture>>

ReportReturns(e) ==
    /\ "report" \in refs[e] /\ LetsGo(e, "report")
    /\ UNCHANGED <<session, cap, open, picture>>

\* on_peer_connected, on_peer_disconnected
PeerChanges ==
    /\ desk.place = "attached" /\ lock = None
    /\ connected' = [connected EXCEPT ![desk.origin] = ~@]
    /\ UNCHANGED <<direct, desk, output, lock, refs, enc, cap, open, picture>>

\* The encoder of a parked desktop goes on.
Parks ==
    /\ desk.place = "attached" /\ lock = None /\ Moves("parked")
    /\ picture' = None
    /\ UNCHANGED <<direct, output, connected, lock, refs, enc, cap, open>>

\* handoff_to_user takes the desktop for the origin of another launch.
Taken ==
    /\ desk.place \in {"attached", "parked"} /\ lock = None /\ desk.origin < MaxOrigins
    /\ desk' = [desk EXCEPT !.place = "taken", !.origin = @ + 1]
    /\ \E here \in BOOLEAN : connected' = [connected EXCEPT ![desk.origin + 1] = here]
    /\ picture' = None
    /\ UNCHANGED <<direct, output, lock, refs, enc, cap, open>>

ReconcileKeepsGoing ==
    /\ desk.place = "taken" /\ direct
    /\ LetsGo(desk.encoder, "session") /\ Moves("building")
    /\ UNCHANGED <<direct, output, connected, lock, cap, open, picture>>

\* reconcile_video_pipeline drops the old encoder, and waits if nobody else has it.
ReconcileDrops ==
    /\ desk.place = "taken" /\ direct
    /\ LetsGo(desk.encoder, "session")
    /\ Moves(IF refs[desk.encoder] = {"session"} THEN "joining" ELSE "building")
    /\ UNCHANGED <<direct, output, connected, lock, cap, open, picture>>

ReconcileJoins ==
    /\ desk.place = "joining" /\ enc[desk.encoder].phase = "gone" /\ Moves("building")
    /\ UNCHANGED <<direct, output, connected, lock, refs, enc, cap, open, picture>>

ReconcileSkips ==
    /\ desk.place = "taken" /\ ~direct /\ Moves("built")
    /\ UNCHANGED <<direct, output, connected, lock, refs, enc, cap, open, picture>>

\* discard_running_session, on a thread of its own.
Discards ==
    /\ desk.place \in {"attached", "parked"} /\ lock = None /\ Moves("ended")
    /\ LetsGo(desk.encoder, "session") /\ picture' = None
    /\ UNCHANGED <<direct, output, connected, lock, cap, open>>

\* clients.insert of an overlapping launch or handoff drops the session that is
\* in the slot, while it holds the lock.
InsertDrops ==
    /\ desk.place = "attached" /\ lock = None /\ Moves("ended")
    /\ LetsGo(desk.encoder, "session") /\ picture' = None
    /\ lock' = IF direct /\ refs[desk.encoder] = {"session"} THEN desk.encoder ELSE None
    /\ UNCHANGED <<direct, output, connected, cap, open>>

InsertJoins ==
    /\ lock # None /\ enc[lock].phase = "gone" /\ lock' = None
    /\ UNCHANGED <<direct, desk, output, connected, refs, enc, cap, open, picture>>

---------------------------------------------------------------------------
CaptureStep(e) == Negotiates(e) \/ Captures(e) \/ CaptureEnds(e) \/ CaptureDrops(e)
EncoderStep(e) ==
    \/ SetUp(e) \/ Stops(e) \/ ClosesFrame(e) \/ Encodes(e) \/ EncodingFails(e) \/ Delivers(e)
    \/ PushesFrame(e) \/ PusherEnds(e)
TaskStep(e) == KeyframeTask(e) \/ ReportReturns(e)
HandoffStep == Builds \/ Streams \/ ReconcileDrops \/ ReconcileJoins \/ ReconcileSkips
RequestStep == RequestsKeyframe \/ ReportBorrows \/ PeerChanges \/ Parks \/ Taken \/ Discards \/ InsertDrops

Next ==
    \/ \E e \in Encoders : CaptureStep(e) \/ EncoderStep(e) \/ TaskStep(e)
    \/ HandoffStep \/ RequestStep \/ InsertJoins

\* Threads and tasks run, and the desktop that is shown goes on drawing; any
\* other may be idle.  Encoding need not fail.
Fairness ==
    /\ \A e \in Encoders :
          /\ WF_vars(Negotiates(e)) /\ WF_vars(enc[e].phase = "unwinding" /\ CaptureEnds(e)) /\ WF_vars(CaptureDrops(e))
          /\ WF_vars(SetUp(e)) /\ SF_vars(Stops(e)) /\ WF_vars(Delivers(e)) /\ WF_vars(TaskStep(e))
          /\ WF_vars(ClosesFrame(e) \/ Encodes(e) \/ PushesFrame(e))
          /\ WF_vars(PusherEnds(e)) /\ WF_vars(desk.place = "attached" /\ desk.encoder = e /\ Captures(e))
    /\ WF_vars(HandoffStep) /\ WF_vars(InsertJoins)

Spec == Init /\ [][Next]_vars /\ Fairness

(***************************************************************************)
(* Properties.                                                             *)
(***************************************************************************)

\* Every descriptor that was dup'd for a frame is open as long as the frame is
\* in the channel or its buffer imported, and no longer: at most one is left
\* when a consumer has gone, whenever and however it ends.
FdsAreOwned ==
    \A e \in Encoders :
       /\ open[e] = Len(cap[e].queue) + Cardinality(enc[e].registered) + enc[e].lost
       /\ enc[e].phase = "gone" => open[e] <= 1 /\ ~cap[e].running
       /\ Running(e) /\ enc[e].phase # "unwinding" => enc[e].lost = 0

\* The old encoder and its capture are gone before a new one is built, as
\* reconcile_video_pipeline means to ensure, except when the task for a
\* keyframe or a loss report had the old one in its hands just then.
OldEncoderGoesFirst ==
    \A d, e \in Encoders : d < e /\ Running(d) /\ Running(e) => enc[d].lent

\* A connected client gets the keyframe that it or the 700 ms task has asked the
\* encoder of its desktop for, even if the first one came before the session
\* was attached; and an encoder that nobody holds any more ends.  Neither, if a
\* desktop was dropped under the lock that its encoder waits for.
Progress ==
    LET e == desk.encoder
        Shown == desk.place = "attached" /\ connected[desk.origin] /\ direct
        Asked == enc[e].force \/ enc[e].key \/ "keyframe" \in refs[e]
        Failed == enc[e].phase = "unwinding" \/ ~cap[e].running
        Unheld(d) == Running(d) /\ refs[d] = {}
    IN []<>~(\/ Shown /\ Asked /\ picture # e /\ ~Failed
             \/ lock = None /\ \E d \in Encoders : Unheld(d))

=============================================================================
