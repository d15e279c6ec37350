---------------------------- MODULE TerminalFlow ----------------------------
(***************************************************************************)
(* One terminal session of crates/gt-terminal/src/lib.rs, from the PTY to  *)
(* the events and pages a renderer gets: the thread of create_session, the *)
(* reader thread it spawns, kill_session, the callers of the visibility    *)
(* request, the bounded command channel they share with every other        *)
(* session, and the mux task with its SessionFlowState.                    *)
(*                                                                         *)
(* Bytes are named by their place in the stream the reader reads, so the   *)
(* model tells which byte is where.  Other sessions appear only as the     *)
(* room they take in the channel (OtherCommand).                           *)
(***************************************************************************)
EXTENDS ByteRing

CONSTANTS
  MaxBytes,   \* bound of the model: bytes the child ever writes
  ReadMax,    \* the reader's buffer, 4096
  QueueCap,   \* capacity of the command channel, 1024
  RingCap,    \* OUTPUT_RING_CAPACITY_BYTES, of the ring and of the frames
  EventMax,   \* VISIBLE_OUTPUT_EVENT_MAX_BYTES
  TailCap     \* HIDDEN_TAIL_PREVIEW_BYTES

ASSUME BoundsAssumption ==
  /\ MaxBytes \in Nat /\ ReadMax \in Nat \ {0} /\ QueueCap \in Nat \ {0}
  /\ RingCap \in Nat \ {0} /\ EventMax \in Nat \ {0} /\ TailCap \in Nat

\* A single frame always fits the recovery history.
ASSUME FrameFitsAssumption == ReadMax <= RingCap /\ EventMax <= RingCap

VARIABLES
  creator,        \* create_session: "idle" "registered" "done" "failed"
  child,          \* the shell: "none" "alive" "dead"
  reader,         \* the reader thread: "none" "reading" "unregistered" "exited"
  killer,         \* kill_session: "idle" "unregistered" "done"
  listed,         \* the session is in the provider's sessions map
  produced,       \* bytes the reader has read so far
  queue,          \* the command channel, oldest first
  registered,     \* the mux task has a SessionFlowState for the session
  subscribers,    \* its fields
  ring,
  frames,
  pending,        \* pending_visible, its chunks joined
  unreadBytes,
  unreadChunks,
  tail,
  seq,
  absorbed,       \* history: bytes absorbed by the SessionFlowState
  log,            \* history: log[n] is the chunk of frame n, evicted or not
  outputs         \* history: the Output events, oldest first

provider == <<creator, child, reader, killer, listed>>
hiddenVars == <<unreadBytes, unreadChunks, tail>>
flow == <<registered, subscribers, ring, frames, pending, hiddenVars, seq>>
history == <<absorbed, log, outputs>>
vars == <<provider, produced, queue, flow, history>>

Byte == 1..MaxBytes
Chunk == Seq(Byte)
Frame == [seq : Nat, chunk : Chunk]

Register        == [op |-> "register"]
Unregister      == [op |-> "unregister"]
OutputChunk(c)  == [op |-> "output", chunk |-> c]
SetVisibility(n) == [op |-> "visibility", subscribers |-> n]
OtherSession    == [op |-> "other"]

Command == {Register, Unregister, OtherSession}
             \cup [op : {"output"}, chunk : Chunk]
             \cup [op : {"visibility"}, subscribers : {0, 1}]

TypeOK ==
  /\ creator \in {"idle", "registered", "done", "failed"}
  /\ child \in {"none", "alive", "dead"}
  /\ reader \in {"none", "reading", "unregistered", "exited"}
  /\ killer \in {"idle", "unregistered", "done"}
  /\ listed \in BOOLEAN
  /\ produced \in 0..MaxBytes
  /\ queue \in Seq(Command) /\ Len(queue) <= QueueCap
  /\ registered \in BOOLEAN
  /\ subscribers \in {0, 1}
  /\ ring \in Seq(Chunk)
  /\ frames \in Seq(Frame)
  /\ pending \in Chunk
  /\ unreadBytes \in Nat /\ unreadChunks \in Nat /\ tail \in Chunk
  /\ seq \in Nat
  /\ absorbed \in Nat
  /\ log \in Seq(Chunk)
  /\ outputs \in Seq(Frame)

-----------------------------------------------------------------------------
\* SessionFlowState::default().
FlowDefault ==
  /\ subscribers = 0
  /\ ring = <<>>
  /\ frames = <<>>
  /\ pending = <<>>
  /\ unreadBytes = 0 /\ unreadChunks = 0 /\ tail = <<>>
  /\ seq = 0

Init ==
  /\ creator = "idle" /\ child = "none" /\ reader = "none" /\ killer = "idle"
  /\ listed = FALSE
  /\ produced = 0
  /\ queue = <<>>
  /\ registered = FALSE
  /\ FlowDefault
  /\ absorbed = 0 /\ log = <<>> /\ outputs = <<>>

\* Mutant: one command too many.
HasRoomBug == Len(queue) <= QueueCap
HasRoom == Len(queue) < QueueCap
Send(command) == queue' = Append(queue, command)

-----------------------------------------------------------------------------
(* create_session: the shell is running when RegisterSession is sent with  *)
(* try_send; the reader thread starts before the session is listed.        *)

CreateRegister ==
  /\ creator = "idle"
  /\ HasRoom
  /\ Send(Register)
  /\ creator' = "registered" /\ child' = "alive" /\ reader' = "reading"
  /\ UNCHANGED <<killer, listed, produced, flow, history>>

\* The channel is full: the shell is killed and the call fails.
CreateFail ==
  /\ creator = "idle"
  /\ ~HasRoom
  /\ creator' = "failed" /\ child' = "dead"
  /\ UNCHANGED <<reader, killer, listed, produced, queue, flow, history>>

CreateInsert ==
  /\ creator = "registered"
  /\ creator' = "done" /\ listed' = TRUE
  /\ UNCHANGED <<child, reader, killer, produced, queue, flow, history>>

-----------------------------------------------------------------------------
(* The reader thread.  blocking_send waits for room in the channel.        *)

Read(n) ==
  /\ reader = "reading"
  /\ produced + n <= MaxBytes
  /\ HasRoom
  /\ Send(OutputChunk([i \in 1..n |-> produced + i]))
  /\ produced' = produced + n
  /\ UNCHANGED <<provider, flow, history>>

EofUnregister ==
  /\ reader = "reading" /\ child = "dead"
  /\ HasRoom
  /\ Send(Unregister)
  /\ reader' = "unregistered"
  /\ UNCHANGED <<creator, child, killer, listed, produced, flow, history>>

\* Mutant: a reader whose session was already unlisted never ends.
ReaderRemoveBug ==
  /\ reader = "unregistered" /\ listed
  /\ reader' = "exited" /\ listed' = FALSE
  /\ UNCHANGED <<creator, child, killer, produced, queue, flow, history>>

ReaderRemove ==
  /\ reader = "unregistered"
  /\ reader' = "exited" /\ listed' = FALSE
  /\ UNCHANGED <<creator, child, killer, produced, queue, flow, history>>

\* The shell ends by itself.
ChildExit ==
  /\ child = "alive"
  /\ child' = "dead"
  /\ UNCHANGED <<creator, reader, killer, listed, produced, queue, flow,
                 history>>

-----------------------------------------------------------------------------
(* kill_session: unlist, then an Unregister whose failure is ignored, then *)
(* the process tree is terminated.                                         *)

KillUnregister ==
  /\ killer = "idle" /\ listed
  /\ listed' = FALSE
  /\ IF HasRoom THEN Send(Unregister) ELSE UNCHANGED queue
  /\ killer' = "unregistered"
  /\ UNCHANGED <<creator, child, reader, produced, flow, history>>

KillChild ==
  /\ killer = "unregistered"
  /\ killer' = "done" /\ child' = "dead"
  /\ UNCHANGED <<creator, reader, listed, produced, queue, flow, history>>

-----------------------------------------------------------------------------
(* set_session_visibility.  has_session was true at some earlier time: the *)
(* session may have left the map since.                                    *)

RequestVisibility(n) ==
  /\ creator = "done"
  /\ HasRoom
  /\ Send(SetVisibility(n))
  /\ UNCHANGED <<provider, produced, flow, history>>

OtherCommand ==
  /\ HasRoom
  /\ Send(OtherSession)
  /\ UNCHANGED <<provider, produced, flow, history>>

-----------------------------------------------------------------------------
(* SessionFlowState.                                                       *)

(* Mutant: the frame is pushed under the number before it. *)
PushFrameBug(chunk) ==
  frames' = Append(frames, [seq |-> seq, chunk |-> chunk])

(* push_frame: append, then pop from the front while over capacity.        *)
PushFrame(chunk) ==
  LET pushed == Append(frames, [seq |-> seq + 1, chunk |-> chunk])
      bytes(k) == Size([i \in 1..(Len(pushed) - k) |-> pushed[i + k].chunk])
  IN  \E k \in 0..Len(pushed) :
        /\ bytes(k) <= RingCap
        /\ \A j \in 0..(k - 1) : bytes(j) > RingCap
        /\ frames' = SubSeq(pushed, k + 1, Len(pushed))

NextFrame(chunk) ==
  /\ seq' = seq + 1
  /\ PushFrame(chunk)
  /\ log' = Append(log, chunk)

AbsorbVisible(chunk) ==
  /\ subscribers > 0
  /\ pending' = pending \o chunk
  /\ UNCHANGED <<hiddenVars, seq, frames, log>>

AbsorbHidden(chunk) ==
  /\ subscribers = 0
  /\ unreadBytes' = unreadBytes + Len(chunk)
  /\ unreadChunks' = unreadChunks + 1
  /\ tail' = AppendTail(tail, chunk, TailCap)
  /\ NextFrame(chunk)
  /\ UNCHANGED pending

AbsorbOutput(chunk) ==
  /\ ring' \in PushChunk(ring, chunk, RingCap)
  /\ AbsorbVisible(chunk) \/ AbsorbHidden(chunk)
  /\ absorbed' = absorbed + Len(chunk)
  /\ UNCHANGED <<registered, subscribers, outputs>>

\* Mutants: hiding drops what waits; hiding drops the recovery history.
SetVisibleDropsPending(n) ==
  /\ subscribers' = n
  /\ pending' = IF n = 0 THEN <<>> ELSE pending
  /\ IF n > 0 THEN unreadBytes' = 0 /\ unreadChunks' = 0 /\ tail' = <<>>
              ELSE UNCHANGED hiddenVars
  /\ UNCHANGED <<registered, ring, frames, seq, history>>

SetVisibleDropsFrames(n) ==
  /\ subscribers' = n
  /\ frames' = IF n = 0 THEN <<>> ELSE frames
  /\ IF n > 0 THEN unreadBytes' = 0 /\ unreadChunks' = 0 /\ tail' = <<>>
              ELSE UNCHANGED hiddenVars
  /\ UNCHANGED <<registered, ring, pending, seq, history>>

SetVisible(n) ==
  /\ subscribers' = n
  /\ IF n > 0 THEN unreadBytes' = 0 /\ unreadChunks' = 0 /\ tail' = <<>>
              ELSE UNCHANGED hiddenVars
  /\ UNCHANGED <<registered, ring, frames, pending, seq, history>>

-----------------------------------------------------------------------------
(* run_mux_loop: one command, or one tick, at a time.                      *)

Receive(op) ==
  /\ queue # <<>> /\ Head(queue).op = op
  /\ queue' = Tail(queue)
  /\ UNCHANGED <<provider, produced>>

\* entry().or_default(): a no-op on the state of a registered session.
MuxRegister ==
  /\ Receive("register")
  /\ registered' = TRUE
  /\ UNCHANGED <<subscribers, ring, frames, pending, hiddenVars, seq, history>>

MuxUnregister ==
  /\ Receive("unregister")
  /\ registered' = FALSE /\ subscribers' = 0 /\ seq' = 0
  /\ ring' = <<>> /\ frames' = <<>> /\ pending' = <<>>
  /\ unreadBytes' = 0 /\ unreadChunks' = 0 /\ tail' = <<>>
  /\ absorbed' = 0 /\ log' = <<>> /\ outputs' = <<>>

MuxOutput ==
  /\ Receive("output")
  /\ registered
  /\ AbsorbOutput(Head(queue).chunk)

MuxVisibility ==
  /\ Receive("visibility")
  /\ registered
  /\ SetVisible(Head(queue).subscribers)

\* A command for a session without a state, or for another session.
MuxIgnore ==
  /\ \/ Receive("other")
     \/ ~registered /\ (Receive("output") \/ Receive("visibility"))
  /\ UNCHANGED <<flow, history>>

TakeVisibleBatch == FirstBytes(pending, EventMax)

\* Mutant: the tick waits for a full batch.
OutputTickBug ==
  /\ registered /\ subscribers > 0 /\ Len(pending) >= EventMax
  /\ pending' = DropBytes(pending, Len(TakeVisibleBatch))
  /\ NextFrame(TakeVisibleBatch)
  /\ outputs' = Append(outputs, [seq |-> seq + 1, chunk |-> TakeVisibleBatch])
  /\ UNCHANGED <<provider, produced, queue, registered, subscribers, ring,
                 hiddenVars, absorbed>>

OutputTick ==
  /\ registered /\ subscribers > 0 /\ pending # <<>>
  /\ pending' = DropBytes(pending, Len(TakeVisibleBatch))
  /\ NextFrame(TakeVisibleBatch)
  /\ outputs' = Append(outputs, [seq |-> seq + 1, chunk |-> TakeVisibleBatch])
  /\ UNCHANGED <<provider, produced, queue, registered, subscribers, ring,
                 hiddenVars, absorbed>>

\* The Meta event carries unreadBytes, unreadChunks and tail.
HiddenMetaTick ==
  /\ registered /\ subscribers = 0 /\ unreadBytes > 0
  /\ unreadBytes' = 0 /\ unreadChunks' = 0 /\ tail' = <<>>
  /\ UNCHANGED <<provider, produced, queue, registered, subscribers, ring,
                 frames, pending, seq, history>>

Mux == MuxRegister \/ MuxUnregister \/ MuxOutput \/ MuxVisibility \/ MuxIgnore

Next ==
  \/ CreateRegister \/ CreateFail \/ CreateInsert
  \/ \E n \in 1..ReadMax : Read(n)
  \/ EofUnregister \/ ReaderRemove \/ ChildExit
  \/ KillUnregister \/ KillChild
  \/ \E n \in {0, 1} : RequestVisibility(n)
  \/ OtherCommand
  \/ Mux \/ OutputTick \/ HiddenMetaTick

Spec == Init /\ [][Next]_vars

(* The threads run and the mux task polls its channel and its intervals.   *)
(* A blocked blocking_send is first in line for the room a receive makes,  *)
(* ahead of any try_send: strong fairness for EofUnregister.               *)
(* Nothing is assumed of the shell, of kill requests, of visibility        *)
(* requests or of the other sessions.                                      *)
Fairness ==
  /\ WF_vars(CreateInsert)
  /\ SF_vars(EofUnregister) /\ WF_vars(ReaderRemove)
  /\ WF_vars(KillChild)
  /\ WF_vars(Mux) /\ WF_vars(OutputTick) /\ WF_vars(HiddenMetaTick)

FairSpec == Spec /\ Fairness
-----------------------------------------------------------------------------
(* read_session_snapshot and read_session_delta: what the mux task answers *)
(* in the current state.  max is at least 1 (max_bytes.max(1)).            *)

Snapshot(max) == [chunk |-> RingSnapshot(ring, max), seq |-> seq]

(* The loop of read_delta over the frames: it skips those up to after,     *)
(* takes the first of the rest whatever its size, and goes on while the    *)
(* next one fits.  The pair is the first and last frame taken.             *)
PageBounds(after, max) ==
  LET n == Len(frames)
      bytes(lo, hi) == Size([i \in 1..(hi - lo + 1) |-> frames[lo + i - 1].chunk])
      fits(lo, hi)  == lo = hi \/ bytes(lo, hi) <= max
  IN  {b \in (1..(n + 1)) \X (0..n) :
        /\ b[2] + 1 >= b[1]
        /\ \A i \in 1..n : (frames[i].seq > after) <=> (i >= b[1])
        /\ b[1] <= n => b[2] >= b[1] /\ fits(b[1], b[2])
        /\ b[2] < n  => ~fits(b[1], b[2] + 1)}

\* Mutant: the gap test is off by one.
PageBug(after, lo, hi) ==
  LET to == IF hi >= lo THEN frames[hi].seq ELSE after
  IN  [chunks    |-> [i \in 1..(hi - lo + 1) |-> frames[lo + i - 1].chunk],
       to        |-> to,
       gap       |-> seq > after /\ after + 2 < Head(frames).seq,
       truncated |-> hi < Len(frames) \/ to < seq]

Page(after, lo, hi) ==
  LET to == IF hi >= lo THEN frames[hi].seq ELSE after
  IN  [chunks    |-> [i \in 1..(hi - lo + 1) |-> frames[lo + i - 1].chunk],
       to        |-> to,
       gap       |-> seq > after /\ after + 1 < Head(frames).seq,
       truncated |-> hi < Len(frames) \/ to < seq]

\* The set holds exactly one answer.
ReadDelta(after, max) ==
  IF frames = <<>>
  THEN {[chunks |-> <<>>, to |-> seq, gap |-> FALSE, truncated |-> FALSE]}
  ELSE {Page(after, b[1], b[2]) : b \in PageBounds(after, max)}

-----------------------------------------------------------------------------
(* Safety.                                                                 *)

Stream(lo, hi) == [i \in 1..(hi - lo + 1) |-> lo + i - 1]

Increasing(s) == \A i \in 1..(Len(s) - 1) : s[i] < s[i + 1]

\* Recovery history (push_frame) is the newest frames, numbered without a
\* hole up to seq, whatever the mix of visible batches and hidden chunks.
HistoryIsNewest ==
  /\ Len(log) = seq
  /\ Len(frames) <= seq
  /\ seq > 0 => frames # <<>>
  /\ \A i \in 1..Len(frames) :
       /\ frames[i].seq = seq - Len(frames) + i
       /\ frames[i].chunk = log[frames[i].seq]

\* A page of read_delta that reports no gap is complete: it holds every frame
\* after the requested one through toSeq, and it moves on while there are any.
DeltaIsComplete ==
  \A after \in 0..seq, max \in 1..(RingCap + 1) :
    /\ ReadDelta(after, max) # {}
    /\ \A d \in ReadDelta(after, max) :
         /\ ~d.gap => d.chunks = SubSeq(log, after + 1, d.to)
         /\ after < seq => d.to > after
         /\ ~d.truncated => d.to = seq

\* Every absorbed byte is in one frame or waits in pending_visible, never both
\* and never twice, however often the session is shown and hidden.  Hiding loses
\* bytes to the recovery history, but what a renderer that only listens to Output
\* events sees is in stream order.
EachByteOnceInOrder ==
  LET kept == FlattenSeq(log) \o pending
  IN  /\ Len(kept) = absorbed /\ ToSet(kept) = 1..absorbed
      /\ Increasing(FlattenSeq([i \in DOMAIN outputs |-> outputs[i].chunk]))

UnreadIsNewest ==
  LET newest == Stream(absorbed - unreadBytes + 1, absorbed)
  IN  /\ unreadChunks <= seq
      /\ FlattenSeq(SubSeq(log, seq - unreadChunks + 1, seq)) = newest
      /\ tail = LastBytes(newest, TailCap)

SnapshotIsNewest ==
  \A max \in 1..(RingCap + 1) :
    LET bytes == Snapshot(max).chunk
    IN  /\ bytes = LastBytes(Stream(1, absorbed), Len(bytes))
        /\ Len(bytes) <= max
        /\ absorbed > 0 => bytes # <<>>
        /\ max >= RingCap => Len(bytes) = MinOf(RingCap, absorbed)

\* While hidden, the unread counters and the preview tail of the next Meta
\* event describe the last frames of the recovery history, and those are the
\* last bytes absorbed.  A snapshot of any size is the end of the stream, without
\* a hole and never empty once there is output; asked for as much as the ring
\* holds, it is the last RingCap bytes, however they were cut into chunks.
LatestIsKept == UnreadIsNewest /\ SnapshotIsNewest

\* The frames of a session are a recovery log: entries are added only at its
\* end, forgotten only from its front, and the newest is always recoverable.
Recovery == INSTANCE RecoveryLog WITH
  Entry   <- Seq(Byte) \ {<<>>},
  entries <- log,
  first   <- seq - Len(frames) + 1

ImplementsRecoveryLog == Recovery!Spec

-----------------------------------------------------------------------------
(* Liveness.                                                               *)

\* Bytes waiting for a visible session are emitted, unless it is hidden or
\* unregistered first: the tick drains pending_visible batch by batch.  Hidden
\* output is reported by a Meta event, or shown, or gone.
NothingWaitsForEver ==
  []<>(pending = <<>> \/ subscribers = 0) /\ []<>(unreadBytes = 0)

\* A shell that has ended leads its reader thread through Unregister to its
\* end, however full the shared channel is kept by other sessions.
ReaderEnds == (child = "dead" /\ reader = "reading") ~> (reader = "exited")

=============================================================================
