------------------------- MODULE TerminalProjection -------------------------
(***************************************************************************)
(* How the renderer keeps up with one terminal session it presents         *)
(* (useShellTerminalController.ts): Output events are appended when they   *)
(* follow the last sequence shown and otherwise start a recovery with      *)
(* terminal_read_delta, one event after the other; besides, every write,   *)
(* and every presentation of the workspace, starts a recovery of its own,  *)
(* which waits for nobody.                                                 *)
(*                                                                         *)
(* The host is the recovery log of RecoveryLog with a fixed window; frame  *)
(* n stands for its bytes, and `waiting` for the bytes already in the ring *)
(* that will be frame seq + 1.  JavaScript runs one callback at a time:    *)
(* an action is a callback up to its next await.                           *)
(***************************************************************************)
EXTENDS Integers, Sequences

CONSTANTS
  MaxSeq,     \* bound of the model: frames the session ever has
  Held,       \* frames the recovery history and the ring hold
  PageMax,    \* frames in a page of terminal_read_delta
  PageLimit,  \* TERMINAL_DELTA_RECOVERY_PAGE_LIMIT
  Recovery    \* bound of the model: recoveries at once, besides the queue's

ASSUME BoundsAssumption ==
  /\ MaxSeq \in Nat /\ Held \in Nat \ {0}
  /\ PageMax \in Nat \ {0} /\ PageLimit \in Nat \ {0}

CONSTANT Queue  \* the promise chain of terminalOutputQueueRef

ASSUME QueueAssumption == Queue \notin Recovery

VARIABLES
  seq,      \* host: the last frame
  waiting,  \* host: bytes for the next frame
  visible,  \* host: the session has a subscriber
  events,   \* Output events on their way, in order
  cursor,   \* terminalSessionSeqRef of the session
  shown,    \* shown[n]: how many times frame n is on the screen
  chain,    \* events of the promise chain, the one it handles first
  task,     \* recoverTerminalOutputDeltaPages and its callers
  base,     \* history: the first frame of the last snapshot, or 1
  arrived,  \* history: the last event that arrived
  previews, \* history: frames a snapshot showed before they had a number
  failed    \* history: a read failed

host == <<seq, waiting, visible>>
screen == <<cursor, shown, base, previews>>
vars == <<host, events, screen, chain, task, arrived, failed>>

Frame == 1..MaxSeq
Tasks == Recovery \cup {Queue}

Page == [to : Nat, seq : Nat, gap : BOOLEAN, truncated : BOOLEAN]
NoPage == [to |-> 0, seq |-> 0, gap |-> FALSE, truncated |-> FALSE]

\* A task awaits a page ("delta", then "page"), a snapshot ("snapshot",
\* "content"), or the answer to terminalSetVisibility ("show", "shown").  `thenShow`
\* is recoverWorkspaceTerminalSessions, which goes on after its recovery.
TaskState ==
  [pc : {"idle", "delta", "page", "snapshot", "content", "show", "shown"},
   thenShow : BOOLEAN, cursor : Nat, target : Nat, page : Nat, reply : Page,
   frames : SUBSET Frame]

Idle == [pc |-> "idle", thenShow |-> FALSE, cursor |-> 0, target |-> 0,
         page |-> 0, reply |-> NoPage, frames |-> {}]

TypeOK ==
  /\ seq \in 0..MaxSeq /\ waiting \in BOOLEAN /\ visible \in BOOLEAN
  /\ events \in Seq(Frame) /\ chain \in Seq(Frame)
  /\ cursor \in 0..MaxSeq /\ base \in 1..(MaxSeq + 1) /\ arrived \in 0..MaxSeq
  /\ shown \in [Frame -> Nat] /\ previews \subseteq Frame
  /\ task \in [Tasks -> TaskState]
  /\ failed \in BOOLEAN

Init ==
  /\ seq = 0 /\ waiting = FALSE
  /\ visible \in BOOLEAN
  /\ events = <<>> /\ chain = <<>>
  /\ cursor = 0 /\ base = 1 /\ arrived = 0
  /\ shown = [n \in Frame |-> 0] /\ previews = {}
  /\ task = [t \in Tasks |-> Idle]
  /\ failed = FALSE

-----------------------------------------------------------------------------
(* The host.                                                               *)

renderer == <<screen, chain, task, arrived, failed>>

Oldest == IF seq > Held THEN seq - Held + 1 ELSE 1

\* Output of a visible session waits for the next tick; the tick emits it.
HostAbsorb ==
  /\ visible /\ ~waiting /\ seq < MaxSeq
  /\ waiting' = TRUE
  /\ UNCHANGED <<seq, visible, events, renderer>>

HostTick ==
  /\ visible /\ waiting
  /\ seq' = seq + 1 /\ waiting' = FALSE
  /\ events' = Append(events, seq')
  /\ UNCHANGED <<visible, renderer>>

\* Hidden output is a frame without an event.
HostHidden ==
  /\ ~visible /\ seq < MaxSeq
  /\ seq' = seq + 1
  /\ UNCHANGED <<waiting, visible, events, renderer>>

\* ensureTerminalSessionVisible, at the host.
HostShow ==
  /\ ~visible
  /\ visible' = TRUE
  /\ UNCHANGED <<seq, waiting, events, renderer>>

\* terminal_read_delta.
DeltaPage(after) ==
  LET to == IF seq <= after THEN after
            ELSE IF after + 1 < Oldest THEN seq
            ELSE IF after + PageMax < seq THEN after + PageMax ELSE seq
  IN  [to |-> to, seq |-> seq, gap |-> seq > after /\ after + 1 < Oldest,
       truncated |-> to < seq]

\* terminal_read_snapshot: the ring is ahead of seq by what waits.
SnapshotFrames == Oldest..(IF waiting THEN seq + 1 ELSE seq)

Answer(t) ==
  /\ \/ /\ task[t].pc = "delta"
        /\ task' = [task EXCEPT ![t].pc = "page",
                                ![t].reply = DeltaPage(task[t].cursor)]
        /\ UNCHANGED visible
     \/ /\ task[t].pc = "snapshot"
        /\ task' = [task EXCEPT ![t].pc = "content", ![t].frames = SnapshotFrames,
                                ![t].reply.seq = seq]
        /\ UNCHANGED visible
     \/ /\ task[t].pc = "show"
        /\ visible' = TRUE
        /\ task' = [task EXCEPT ![t].pc = "shown"]
  /\ UNCHANGED <<seq, waiting, events, screen, chain, arrived, failed>>

-----------------------------------------------------------------------------
(* The screen.                                                             *)

AppendFrames(from, to) ==
  shown' = [n \in Frame |-> IF n \in from..to THEN shown[n] + 1 ELSE shown[n]]

AppendFrame(n) ==
  /\ AppendFrames(n, n)
  /\ cursor' = n
  /\ UNCHANGED <<base, previews>>

\* resetStationTerminalOutput and the cursor.  A snapshot is only read after a gap,
\* so it is never empty.
ShowOnly(frames, at) ==
  /\ shown' = [n \in Frame |-> IF n \in frames THEN 1 ELSE 0]
  /\ base' = CHOOSE n \in frames : \A m \in frames : n <= m
  /\ previews' = {n \in frames : n > at}

ApplySnapshot(frames, at) == ShowOnly(frames, at) /\ cursor' = at

\* Recovering from what follows after, with event n as the least target.
Start(t, after, n, thenShow) ==
  task' = [task EXCEPT ![t] = [Idle EXCEPT !.pc = "delta", !.thenShow = thenShow,
                                 !.cursor = after, !.page = 1,
                                 !.target = IF n > after THEN n ELSE after]]

-----------------------------------------------------------------------------
(* Output events.  resolveTerminalOutputSequenceAction:                    *)

IsStale(n) == n <= cursor
IsNext(n)  == n = cursor + 1

\* The chain's next event is handled before any other callback.
ChainReady == chain # <<>> /\ task[Queue].pc = "idle"

\* Mutant: the append path does not look whether a recovery is queued.
OutputBug ==
  /\ events # <<>> /\ ~ChainReady
  /\ LET n == Head(events) IN
       \/ IsStale(n) /\ UNCHANGED <<screen, chain>>
       \/ IsNext(n)  /\ AppendFrame(n) /\ UNCHANGED chain
       \/ ~IsStale(n) /\ ~IsNext(n) /\ chain' = Append(chain, n) /\ UNCHANGED screen
  /\ events' = Tail(events)
  /\ arrived' = Head(events)
  /\ UNCHANGED <<host, task, failed>>

Output ==
  /\ events # <<>> /\ ~ChainReady
  /\ LET n == Head(events) IN
       \/ chain = <<>> /\ IsStale(n) /\ UNCHANGED <<screen, chain>>
       \/ chain = <<>> /\ IsNext(n)  /\ AppendFrame(n) /\ UNCHANGED chain
       \/ /\ chain # <<>> \/ (~IsStale(n) /\ ~IsNext(n))
          /\ chain' = Append(chain, n) /\ UNCHANGED screen
  /\ events' = Tail(events)
  /\ arrived' = Head(events)
  /\ UNCHANGED <<host, task, failed>>

\* The chain takes its next event.
ChainStep ==
  /\ ChainReady
  /\ LET n == Head(chain) IN
       \/ IsStale(n) /\ chain' = Tail(chain) /\ UNCHANGED <<screen, task>>
       \/ IsNext(n) /\ chain' = Tail(chain) /\ AppendFrame(n) /\ UNCHANGED task
       \/ /\ ~IsStale(n) /\ ~IsNext(n)
          /\ Start(Queue, cursor, n, FALSE)
          /\ UNCHANGED <<screen, chain>>
  /\ UNCHANGED <<host, events, arrived, failed>>

\* recoverStationTerminalOutput, or recoverWorkspaceTerminalSessions.
Recover(t, thenShow) ==
  /\ t \in Recovery /\ task[t].pc = "idle" /\ ~ChainReady
  /\ Start(t, cursor, cursor, thenShow)
  /\ UNCHANGED <<host, events, screen, chain, arrived, failed>>

-----------------------------------------------------------------------------
(* recoverTerminalOutputDeltaPages and what its callers do with the        *)
(* outcome.                                                                *)

\* The chain's event is done with; a workspace recovery shows the session.
Finish(t) ==
  /\ task' = [task EXCEPT ![t] = IF task[t].thenShow
                                 THEN [Idle EXCEPT !.pc = "show", !.thenShow = TRUE]
                                 ELSE Idle]
  /\ chain' = IF t = Queue THEN Tail(chain) ELSE chain

\* Mutant: a gap is answered by reading the same page again.
ReadSnapshotBug(t) ==
  /\ task' = [task EXCEPT ![t].pc = "delta"]
  /\ UNCHANGED chain

\* An outcome of "gap".
ReadSnapshot(t) ==
  /\ task' = [task EXCEPT ![t].pc = "snapshot"]
  /\ UNCHANGED chain

IsGap(t) ==
  LET page == task[t].reply
  IN  page.gap \/ (page.to <= task[t].cursor /\ page.seq > task[t].cursor)

TargetOf(t) ==
  IF task[t].reply.seq > task[t].target THEN task[t].reply.seq ELSE task[t].target

PageGap(t) ==
  /\ task[t].pc = "page" /\ ~ChainReady
  /\ IsGap(t) \/ (task[t].reply.to <= task[t].cursor /\ TargetOf(t) > task[t].cursor)
  /\ ReadSnapshot(t)
  /\ UNCHANGED <<host, events, screen, arrived, failed>>

\* Nothing new, and nothing was to be expected.
PageEmpty(t) ==
  /\ task[t].pc = "page" /\ ~ChainReady
  /\ ~IsGap(t) /\ task[t].reply.to <= task[t].cursor /\ TargetOf(t) <= task[t].cursor
  /\ Finish(t)
  /\ UNCHANGED <<host, events, screen, arrived, failed>>

\* Mutant: a truncated page is taken for the last one, up to the target.
PageAppendBug(t) ==
  /\ task[t].pc = "page" /\ ~ChainReady
  /\ ~IsGap(t) /\ task[t].reply.to > task[t].cursor
  /\ AppendFrames(task[t].cursor + 1, task[t].reply.to)
  /\ cursor' = TargetOf(t)
  /\ Finish(t)
  /\ UNCHANGED <<host, events, base, previews, arrived, failed>>

\* The page is appended; the recovery is complete, goes on, or gives up.
PageAppend(t) ==
  /\ task[t].pc = "page" /\ ~ChainReady
  /\ ~IsGap(t) /\ task[t].reply.to > task[t].cursor
  /\ AppendFrames(task[t].cursor + 1, task[t].reply.to)
  /\ cursor' = task[t].reply.to
  /\ IF cursor' >= TargetOf(t) THEN Finish(t)
     ELSE IF ~task[t].reply.truncated \/ task[t].page = PageLimit
          THEN ReadSnapshot(t)
          ELSE /\ task' = [task EXCEPT ![t].pc = "delta", ![t].cursor = cursor',
                                       ![t].target = TargetOf(t), ![t].page = @ + 1]
               /\ UNCHANGED chain
  /\ UNCHANGED <<host, events, base, previews, arrived, failed>>

Content(t) ==
  /\ task[t].pc = "content" /\ ~ChainReady
  /\ ApplySnapshot(task[t].frames, task[t].reply.seq)
  /\ Finish(t)
  /\ UNCHANGED <<host, events, arrived, failed>>

\* terminalSetVisibility was answered: recover once more.
Shown(t) ==
  /\ task[t].pc = "shown" /\ ~ChainReady
  /\ Start(t, cursor, cursor, FALSE)
  /\ UNCHANGED <<host, events, screen, chain, arrived, failed>>

\* A request failed.  A snapshot's failure lets a workspace recovery go on; any
\* other ends the task.
RequestFails(t) ==
  /\ task[t].pc \in {"delta", "snapshot", "show"} /\ ~ChainReady
  /\ IF task[t].pc = "snapshot" THEN Finish(t)
     ELSE /\ task' = [task EXCEPT ![t] = Idle]
          /\ chain' = IF t = Queue THEN Tail(chain) ELSE chain
  /\ failed' = TRUE
  /\ UNCHANGED <<host, events, screen, arrived>>

Resume(t) == PageGap(t) \/ PageEmpty(t) \/ PageAppend(t) \/ Content(t) \/ Shown(t)

Next ==
  \/ HostAbsorb \/ HostTick \/ HostHidden \/ HostShow
  \/ Output \/ ChainStep
  \/ \E t \in Recovery, thenShow \in BOOLEAN : Recover(t, thenShow)
  \/ \E t \in Tasks : Answer(t) \/ Resume(t) \/ RequestFails(t)

Spec == Init /\ [][Next]_vars

(* The host ticks and answers, events are delivered and callbacks run.     *)
(* Nothing is assumed of the shell, of the user or of failures.            *)
Fairness ==
  /\ WF_vars(HostTick) /\ WF_vars(Output) /\ WF_vars(ChainStep)
  /\ \A t \in Tasks : WF_vars(Answer(t)) /\ WF_vars(Resume(t))

FairSpec == Spec /\ Fairness

-----------------------------------------------------------------------------

\* Whatever recoveries overlap, no frame up to the cursor is passed over: from the
\* beginning of the last snapshot on, all of it is on the screen.
NothingIsSkipped == \A n \in Frame : base <= n /\ n <= cursor => shown[n] > 0

Quiet == /\ events = <<>> /\ chain = <<>> /\ ~waiting
         /\ \A t \in Tasks : task[t].pc = "idle"

\* The chain alone shows every frame once, in spite of pages, gaps and events that
\* arrive meanwhile; only what a snapshot previewed comes again with its event.
\* What is beyond the cursor is such a preview.  Once everything has come to rest,
\* every frame from the beginning of the last snapshot to the last event that
\* arrived is on the screen.
ShownOnce ==
  /\ \A n \in Frame :
       /\ shown[n] <= (IF n \in previews THEN 2 ELSE 1)
       /\ n > cursor => shown[n] = 0 \/ n \in previews
  /\ Quiet /\ ~failed => \A n \in base..arrived : shown[n] > 0

\* Recoveries come to an end, and the events that wait behind them are handled.
ChainEnds == []<>(chain = <<>>)
=============================================================================
