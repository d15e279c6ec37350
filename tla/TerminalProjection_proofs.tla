--------------------- MODULE TerminalProjection_proofs ---------------------
(***************************************************************************)
(* Theorems about the renderer's side of a terminal session, for any       *)
(* number of frames, window, page and page limit: what the promise chain   *)
(* promises when no other recovery runs beside it, and what any number of  *)
(* recoveries promise while the host still holds all that a page may need. *)
(***************************************************************************)
EXTENDS TerminalProjection, SequenceTheorems, TLAPS

-----------------------------------------------------------------------------
(* What holds with any recoveries.                                         *)

\* Output that waits becomes a frame that the session may still have.
WaitingIsVisible == waiting => visible /\ seq < MaxSeq

\* Nothing the renderer has heard of is ahead of the host.
NothingIsAhead ==
  /\ cursor <= seq
  /\ \A i \in 1..Len(events) : events[i] <= seq
  /\ \A i \in 1..Len(chain) : chain[i] <= seq

\* What terminal_read_delta answered to a task that had everything up to `after`.
PageFits(page, after) ==
  /\ page.to \in after..(IF page.seq > after THEN page.seq ELSE after)
  /\ page.seq > after => page.to > after
  /\ page.truncated <=> page.to < page.seq
  /\ page.gap => page.seq > after

\* What terminal_read_snapshot answered: frames in a row, perhaps one beyond its number.
SnapshotFits(frames, at) ==
  \E lo \in Frame, hi \in Frame : frames = lo..hi /\ lo <= at /\ at <= hi

TaskFits(t) ==
  /\ task[t].pc \in {"delta", "page"} => task[t].cursor <= seq /\ task[t].target <= seq
  /\ task[t].pc = "page" =>
       /\ task[t].target <= task[t].reply.seq /\ task[t].reply.seq <= seq
       /\ PageFits(task[t].reply, task[t].cursor)
  /\ task[t].pc = "snapshot" => seq > 0
  /\ task[t].pc = "content" =>
       task[t].reply.seq <= seq /\ SnapshotFits(task[t].frames, task[t].reply.seq)

\* The queue's task works on an event of the chain.
QueueWorks == task[Queue].pc # "idle" => chain # <<>> /\ ~task[Queue].thenShow

General ==
  /\ TypeOK
  /\ WaitingIsVisible
  /\ NothingIsAhead
  /\ \A t \in Tasks : TaskFits(t)
  /\ QueueWorks

-----------------------------------------------------------------------------
(* What holds of the chain alone.                                          *)

\* The queue's task goes on from what is shown, as far as its event at least.
QueueGoesOn ==
  /\ task[Queue].pc \in {"delta", "page"} =>
       task[Queue].cursor = cursor /\ Head(chain) <= task[Queue].target
  /\ task[Queue].pc = "content" =>
       cursor <= task[Queue].reply.seq /\ Head(chain) <= task[Queue].reply.seq
  /\ task[Queue].pc \notin {"show", "shown"}

\* What is beyond the cursor was previewed, once.
BeyondIsPreviewed ==
  \A n \in Frame : n > cursor => shown[n] = (IF n \in previews THEN 1 ELSE 0)

ShownAtMost == \A n \in Frame : shown[n] <= (IF n \in previews THEN 2 ELSE 1)

\* The last event that arrived is shown, or is the last of the chain.
LastIsComing ==
  ~failed => arrived <= cursor \/ (chain # <<>> /\ chain[Len(chain)] = arrived)

Display == BeyondIsPreviewed /\ ShownAtMost /\ NothingIsSkipped

AloneInv == General /\ QueueGoesOn /\ Display /\ LastIsComing

-----------------------------------------------------------------------------
(* What holds while no snapshot is needed.                                 *)

\* The history outlasts the session, and so do the pages of one recovery.
Roomy == MaxSeq <= Held /\ MaxSeq <= PageLimit * PageMax

\* A task has shown what it goes on from, and its pages are full.
TaskIsCovered(t) ==
  /\ task[t].pc \notin {"snapshot", "content"}
  /\ task[t].pc \in {"delta", "page"} =>
       /\ task[t].page \in 1..PageLimit
       /\ (task[t].page - 1) * PageMax <= task[t].cursor
       /\ \A n \in Frame : n <= task[t].cursor => shown[n] > 0
  /\ task[t].pc = "page" =>
       /\ ~task[t].reply.gap
       /\ task[t].reply.truncated => task[t].reply.to = task[t].cursor + PageMax

RoomyInv ==
  /\ General
  /\ NothingIsSkipped
  /\ base = 1
  /\ \A t \in Tasks : TaskIsCovered(t)

-----------------------------------------------------------------------------
(* The host's answers.                                                     *)

LEMMA PageProperties ==
  ASSUME TypeOK, NEW after \in Nat, NEW page, page = DeltaPage(after)
  PROVE  /\ page \in Page /\ page.seq = seq /\ PageFits(page, after)
         /\ MaxSeq <= Held =>
              ~page.gap /\ (page.truncated => page.to = after + PageMax)
  <1> DEFINE to == IF seq <= after THEN after
                   ELSE IF after + 1 < Oldest THEN seq
                   ELSE IF after + PageMax < seq THEN after + PageMax ELSE seq
  <1>1. seq \in Nat /\ seq <= MaxSeq /\ PageMax \in Nat \ {0} /\ Held \in Nat \ {0} /\ MaxSeq \in Nat
    BY BoundsAssumption DEF TypeOK
  <1>2. Oldest \in Nat /\ (MaxSeq <= Held => Oldest = 1)
    BY <1>1 DEF Oldest
  <1>3. /\ to \in Nat /\ after <= to /\ to <= (IF seq > after THEN seq ELSE after)
        /\ seq > after => to > after
        /\ MaxSeq <= Held /\ to < seq => to = after + PageMax
    BY <1>1, <1>2
  <1> DEFINE gap == seq > after /\ after + 1 < Oldest
             truncated == to < seq
  <1>4. gap \in BOOLEAN /\ truncated \in BOOLEAN
    OBVIOUS
  <1>5. /\ MaxSeq <= Held => gap = FALSE /\ (truncated => to = after + PageMax)
        /\ truncated <=> to < seq
        /\ gap => seq > after
    BY <1>1, <1>2, <1>3
  <1>6. page = [to |-> to, seq |-> seq, gap |-> gap, truncated |-> truncated]
    BY DEF DeltaPage
  <1> HIDE DEF to, gap, truncated
  <1>7. page \in Page
    BY <1>1, <1>3, <1>4, <1>6 DEF Page
  <1>8. page.to = to /\ page.seq = seq /\ page.gap = gap /\ page.truncated = truncated
    BY <1>6
  <1>9. page.to \in after..(IF page.seq > after THEN page.seq ELSE after)
    BY <1>1, <1>3, <1>8
  <1>10. PageFits(page, after)
    BY <1>3, <1>5, <1>8, <1>9 DEF PageFits
  <1>11. MaxSeq <= Held => ~page.gap /\ (page.truncated => page.to = after + PageMax)
    BY <1>5, <1>8
  <1>. QED
    BY <1>7, <1>8, <1>10, <1>11

LEMMA SnapshotProperties ==
  ASSUME TypeOK, WaitingIsVisible, seq > 0
  PROVE  SnapshotFrames \in SUBSET Frame /\ SnapshotFits(SnapshotFrames, seq)
  <1> DEFINE hi == IF waiting THEN seq + 1 ELSE seq
  <1>1. seq \in Nat /\ seq <= MaxSeq /\ MaxSeq \in Nat /\ Held \in Nat \ {0}
    BY BoundsAssumption DEF TypeOK
  <1>2. Oldest \in Frame /\ Oldest <= seq
    BY <1>1 DEF Oldest, Frame
  <1>3. hi \in Frame /\ seq <= hi
    BY <1>1 DEF WaitingIsVisible, Frame
  <1>4. SnapshotFrames = Oldest..hi
    BY DEF SnapshotFrames
  <1> HIDE DEF hi
  <1>5. \A n \in Oldest..hi : n \in Frame
    BY <1>1, <1>2, <1>3 DEF Frame
  <1>. QED
    BY <1>2, <1>3, <1>4, <1>5 DEF SnapshotFits

-----------------------------------------------------------------------------
(* What each step does to the task that takes it.                          *)

OthersStay(t) ==
  task' \in [Tasks -> TaskState] /\ \A u \in Tasks \ {t} : task'[u] = task[u]

LEMMA TaskFields ==
  ASSUME TypeOK, NEW t \in Tasks
  PROVE  /\ task[t] \in TaskState /\ task[t].thenShow \in BOOLEAN /\ task[t].cursor \in Nat
         /\ task[t].target \in Nat /\ task[t].page \in Nat /\ task[t].frames \in SUBSET Frame
         /\ task[t].reply \in Page /\ task[t].reply.to \in Nat /\ task[t].reply.seq \in Nat
         /\ task[t].reply.gap \in BOOLEAN /\ task[t].reply.truncated \in BOOLEAN
  <1>1. task[t] \in TaskState
    BY DEF TypeOK
  <1>2. /\ task[t].thenShow \in BOOLEAN /\ task[t].cursor \in Nat /\ task[t].target \in Nat
        /\ task[t].page \in Nat /\ task[t].frames \in SUBSET Frame /\ task[t].reply \in Page
    BY <1>1 DEF TaskState
  <1>3. /\ task[t].reply.to \in Nat /\ task[t].reply.seq \in Nat
        /\ task[t].reply.gap \in BOOLEAN /\ task[t].reply.truncated \in BOOLEAN
    BY <1>2 DEF Page
  <1>. QED
    BY <1>1, <1>2, <1>3

LEMMA IdleFields ==
  /\ Idle \in TaskState /\ Idle.pc = "idle" /\ Idle.thenShow = FALSE /\ Idle.cursor = 0
  /\ Idle.target = 0 /\ Idle.page = 0 /\ Idle.reply = NoPage /\ Idle.frames = {}
  <1>1. NoPage \in Page
    BY DEF NoPage, Page
  <1>. QED
    BY <1>1 DEF Idle, TaskState

LEMMA StartMoves ==
  ASSUME TypeOK, NEW t \in Tasks, NEW after \in Nat, NEW n \in Nat, NEW thenShow \in BOOLEAN,
         Start(t, after, n, thenShow)
  PROVE  /\ OthersStay(t) /\ task'[t].pc = "delta" /\ task'[t].thenShow = thenShow
         /\ task'[t].cursor = after /\ task'[t].page = 1
         /\ task'[t].target = (IF n > after THEN n ELSE after)
  <1> DEFINE target == IF n > after THEN n ELSE after
             r == [Idle EXCEPT !.pc = "delta", !.thenShow = thenShow,
                               !.cursor = after, !.page = 1, !.target = target]
  <1>1. target \in Nat
    OBVIOUS
  <1>2. task' = [task EXCEPT ![t] = r]
    BY DEF Start
  <1> HIDE DEF target
  <1>3. /\ r \in TaskState /\ r.pc = "delta" /\ r.thenShow = thenShow /\ r.cursor = after
        /\ r.page = 1 /\ r.target = target
    BY <1>1, IdleFields DEF TaskState
  <1> HIDE DEF r
  <1>. QED
    BY <1>2, <1>3 DEF TypeOK, OthersStay, target

LEMMA FinishMoves ==
  ASSUME TypeOK, QueueWorks, NEW t \in Tasks, task[t].pc # "idle", Finish(t)
  PROVE  /\ OthersStay(t) /\ task'[t].pc \in {"idle", "show"}
         /\ t = Queue => task'[t].pc = "idle" /\ chain # <<>> /\ chain' = Tail(chain)
         /\ t # Queue => chain' = chain
  <1> DEFINE show == [Idle EXCEPT !.pc = "show", !.thenShow = TRUE]
  <1>1. show \in TaskState /\ show.pc = "show"
    BY IdleFields DEF TaskState
  <1>2. CASE task[t].thenShow
    <2>1. task' = [task EXCEPT ![t] = show]
      BY <1>2 DEF Finish
    <2> HIDE DEF show
    <2>2. OthersStay(t) /\ task'[t] = show
      BY <1>1, <2>1 DEF TypeOK, OthersStay
    <2>. QED
      BY <1>1, <1>2, <2>2 DEF Finish, QueueWorks
  <1>3. CASE ~task[t].thenShow
    <2>1. task' = [task EXCEPT ![t] = Idle]
      BY <1>3 DEF Finish
    <2>2. OthersStay(t) /\ task'[t] = Idle
      BY <2>1, IdleFields DEF TypeOK, OthersStay
    <2>. QED
      BY <2>2, IdleFields DEF Finish, QueueWorks
  <1>. QED
    BY <1>2, <1>3

LEMMA ReadSnapshotMoves ==
  ASSUME TypeOK, NEW t \in Tasks, ReadSnapshot(t)
  PROVE  /\ OthersStay(t) /\ task'[t].pc = "snapshot" /\ task'[t].thenShow = task[t].thenShow
         /\ chain' = chain
  <1> DEFINE r == [task[t] EXCEPT !.pc = "snapshot"]
  <1>1. r \in TaskState /\ r.pc = "snapshot" /\ r.thenShow = task[t].thenShow
    BY TaskFields DEF TaskState
  <1>2. task' = [task EXCEPT ![t] = r] /\ chain' = chain
    BY DEF ReadSnapshot
  <1> HIDE DEF r
  <1>. QED
    BY <1>1, <1>2 DEF TypeOK, OthersStay

LEMMA AnswerMoves ==
  ASSUME TypeOK, WaitingIsVisible, NEW t \in Tasks, TaskFits(t), Answer(t)
  PROVE  /\ OthersStay(t) /\ task'[t].thenShow = task[t].thenShow
         /\ \/ /\ task[t].pc = "delta" /\ task'[t].pc = "page"
               /\ task'[t].cursor = task[t].cursor /\ task'[t].target = task[t].target
               /\ task'[t].page = task[t].page /\ task'[t].reply = DeltaPage(task[t].cursor)
            \/ /\ task[t].pc = "snapshot" /\ task'[t].pc = "content"
               /\ task'[t].frames = SnapshotFrames /\ task'[t].reply.seq = seq
            \/ task[t].pc = "show" /\ task'[t].pc = "shown"
  <1>1. CASE task[t].pc = "delta" /\ task' = [task EXCEPT ![t].pc = "page",
                                                         ![t].reply = DeltaPage(task[t].cursor)]
    <2>1. PICK page \in Page : page = DeltaPage(task[t].cursor)
      BY TaskFields, PageProperties
    <2> DEFINE r == [task[t] EXCEPT !.pc = "page", !.reply = page]
    <2>2. /\ r \in TaskState /\ r.pc = "page" /\ r.thenShow = task[t].thenShow
          /\ r.cursor = task[t].cursor /\ r.target = task[t].target
          /\ r.page = task[t].page /\ r.reply = page
      BY TaskFields DEF TaskState
    <2>3. task' = [task EXCEPT ![t] = r]
      BY <1>1, <2>1 DEF TypeOK
    <2> HIDE DEF r
    <2>4. OthersStay(t) /\ task'[t] = r
      BY <2>2, <2>3 DEF TypeOK, OthersStay
    <2>. QED
      BY <1>1, <2>1, <2>2, <2>4
  <1>2. CASE task[t].pc = "snapshot" /\ task' = [task EXCEPT ![t].pc = "content",
                                     ![t].frames = SnapshotFrames, ![t].reply.seq = seq]
    <2> DEFINE page == [task[t].reply EXCEPT !.seq = seq]
               r == [task[t] EXCEPT !.pc = "content", !.frames = SnapshotFrames, !.reply = page]
    <2>1. seq \in Nat /\ SnapshotFrames \in SUBSET Frame
      BY <1>2, SnapshotProperties DEF TypeOK, TaskFits
    <2>2. page \in Page /\ page.seq = seq
      BY <2>1, TaskFields DEF Page
    <2>3. task' = [task EXCEPT ![t] = r]
      BY <1>2 DEF TypeOK
    <2> HIDE DEF page
    <2>4. /\ r \in TaskState /\ r.pc = "content" /\ r.thenShow = task[t].thenShow
          /\ r.frames = SnapshotFrames /\ r.reply = page
      BY <2>1, <2>2, TaskFields DEF TaskState
    <2> HIDE DEF r
    <2>5. OthersStay(t) /\ task'[t] = r
      BY <2>3, <2>4 DEF TypeOK, OthersStay
    <2>. QED
      BY <1>2, <2>2, <2>4, <2>5
  <1>3. CASE task[t].pc = "show" /\ task' = [task EXCEPT ![t].pc = "shown"]
    <2> DEFINE r == [task[t] EXCEPT !.pc = "shown"]
    <2>1. r \in TaskState /\ r.pc = "shown" /\ r.thenShow = task[t].thenShow
      BY TaskFields DEF TaskState
    <2>2. task' = [task EXCEPT ![t] = r]
      BY <1>3
    <2> HIDE DEF r
    <2>3. OthersStay(t) /\ task'[t] = r
      BY <2>1, <2>2 DEF TypeOK, OthersStay
    <2>. QED
      BY <1>3, <2>1, <2>3
  <1>. QED
    BY <1>1, <1>2, <1>3 DEF Answer

\* A page is appended: the recovery is complete, asks for a snapshot, or goes on.
LEMMA PageAppendMoves ==
  ASSUME TypeOK, QueueWorks, NEW t \in Tasks, PageAppend(t)
  PROVE  \/ cursor' >= TargetOf(t) /\ Finish(t)
         \/ /\ cursor' < TargetOf(t) /\ ReadSnapshot(t)
            /\ ~task[t].reply.truncated \/ task[t].page = PageLimit
         \/ /\ cursor' < TargetOf(t) /\ task[t].reply.truncated /\ task[t].page # PageLimit
            /\ OthersStay(t) /\ chain' = chain
            /\ task'[t].pc = "delta" /\ task'[t].thenShow = task[t].thenShow
            /\ task'[t].cursor = cursor' /\ task'[t].target = TargetOf(t)
            /\ task'[t].page = task[t].page + 1
  <1>1. cursor' \in Nat /\ TargetOf(t) \in Nat
    BY TaskFields DEF PageAppend, TargetOf
  <1>2. CASE cursor' >= TargetOf(t)
    BY <1>2 DEF PageAppend
  <1>3. CASE cursor' < TargetOf(t) /\ (~task[t].reply.truncated \/ task[t].page = PageLimit)
    BY <1>1, <1>3 DEF PageAppend
  <1>4. CASE cursor' < TargetOf(t) /\ task[t].reply.truncated /\ task[t].page # PageLimit
    <2>1. /\ task' = [task EXCEPT ![t].pc = "delta", ![t].cursor = cursor',
                                  ![t].target = TargetOf(t), ![t].page = @ + 1]
          /\ chain' = chain
      <3>1. ~(cursor' >= TargetOf(t)) /\ ~(~task[t].reply.truncated \/ task[t].page = PageLimit)
        BY <1>1, <1>4
      <3>. QED
        BY <3>1 DEF PageAppend
    <2>2. PICK after \in Nat, target \in Nat, page \in Nat :
            after = cursor' /\ target = TargetOf(t) /\ page = task[t].page + 1
      BY <1>1, TaskFields
    <2> DEFINE r == [task[t] EXCEPT !.pc = "delta", !.cursor = after,
                                    !.target = target, !.page = page]
    <2>3. /\ r \in TaskState /\ r.pc = "delta" /\ r.thenShow = task[t].thenShow
          /\ r.cursor = after /\ r.target = target /\ r.page = page
      BY TaskFields DEF TaskState
    <2>4. task' = [task EXCEPT ![t] = r]
      BY <2>1, <2>2 DEF TypeOK
    <2> HIDE DEF r
    <2>5. OthersStay(t) /\ task'[t] = r
      BY <2>3, <2>4 DEF TypeOK, OthersStay
    <2>. QED
      BY <1>4, <2>1, <2>2, <2>3, <2>5
  <1>. QED
    BY <1>1, <1>2, <1>3, <1>4

LEMMA FailMoves ==
  ASSUME TypeOK, QueueWorks, NEW t \in Tasks, RequestFails(t)
  PROVE  /\ OthersStay(t) /\ task'[t].pc \in {"idle", "show"}
         /\ t = Queue => task'[t].pc = "idle" /\ chain # <<>> /\ chain' = Tail(chain)
         /\ t # Queue => chain' = chain
  <1>1. CASE task[t].pc = "snapshot"
    <2>1. Finish(t) /\ task[t].pc # "idle"
      BY <1>1 DEF RequestFails
    <2>. QED
      BY <2>1, FinishMoves
  <1>2. CASE task[t].pc # "snapshot"
    <2>1. task' = [task EXCEPT ![t] = Idle] /\ task[t].pc # "idle"
      BY <1>2 DEF RequestFails
    <2>2. OthersStay(t) /\ task'[t] = Idle
      BY <2>1, IdleFields DEF TypeOK, OthersStay
    <2>3. t = Queue => chain # <<>> /\ chain' = Tail(chain)
      BY <1>2, <2>1 DEF RequestFails, QueueWorks
    <2>4. t # Queue => chain' = chain
      BY <1>2 DEF RequestFails
    <2>. QED
      BY <2>2, <2>3, <2>4, IdleFields
  <1>. QED
    BY <1>1, <1>2

-----------------------------------------------------------------------------
(* The queues and the screen.                                              *)

LEMMA TailFacts ==
  ASSUME NEW s \in Seq(Frame), s # <<>>
  PROVE  /\ Tail(s) \in Seq(Frame) /\ Head(s) \in Frame /\ Len(s) \in Nat /\ Len(s) > 0
         /\ \A b \in Nat : (\A i \in 1..Len(s) : s[i] <= b) =>
              Head(s) <= b /\ \A i \in 1..Len(Tail(s)) : Tail(s)[i] <= b
         /\ Tail(s) # <<>> => Tail(s)[Len(Tail(s))] = s[Len(s)]
         /\ Tail(s) = <<>> => Head(s) = s[Len(s)]
  <1>1. /\ Tail(s) \in Seq(Frame) /\ Len(Tail(s)) = Len(s) - 1
        /\ \A i \in 1..Len(Tail(s)) : Tail(s)[i] = s[i + 1]
        /\ Head(s) \in Frame
    BY HeadTailProperties
  <1>2. Len(s) \in Nat /\ Len(s) > 0 /\ Head(s) = s[1]
    BY LenProperties, EmptySeq
  <1>3. Len(Tail(s)) \in Nat /\ (Tail(s) = <<>> <=> Len(Tail(s)) = 0)
    BY <1>1, LenProperties, EmptySeq
  <1>4. ASSUME NEW b \in Nat, \A i \in 1..Len(s) : s[i] <= b
        PROVE  Head(s) <= b /\ \A i \in 1..Len(Tail(s)) : Tail(s)[i] <= b
    <2>1. s[1] <= b
      BY <1>2, <1>4
    <2>2. \A i \in 1..Len(Tail(s)) : i + 1 \in 1..Len(s)
      BY <1>1, <1>2
    <2>. QED
      BY <1>1, <1>2, <1>4, <2>1, <2>2
  <1>5. Tail(s) # <<>> => Tail(s)[Len(Tail(s))] = s[Len(s)]
    <2>1. ASSUME Tail(s) # <<>>
          PROVE  Len(Tail(s)) \in 1..Len(Tail(s)) /\ Len(Tail(s)) + 1 = Len(s)
      BY <1>1, <1>2, <1>3, <2>1
    <2>. QED
      BY <1>1, <2>1
  <1>6. Tail(s) = <<>> => Len(s) = 1
    BY <1>1, <1>2, <1>3
  <1>. QED
    BY <1>1, <1>2, <1>4, <1>5, <1>6

LEMMA AppendFacts ==
  ASSUME NEW s \in Seq(Frame), NEW n \in Frame
  PROVE  /\ Append(s, n) \in Seq(Frame) /\ Append(s, n) # <<>>
         /\ Append(s, n)[Len(Append(s, n))] = n
         /\ s # <<>> => Head(Append(s, n)) = Head(s)
         /\ \A b \in Nat : n <= b /\ (\A i \in 1..Len(s) : s[i] <= b) =>
              \A i \in 1..Len(Append(s, n)) : Append(s, n)[i] <= b
  <1>1. /\ Append(s, n) \in Seq(Frame) /\ Append(s, n) # <<>>
        /\ Len(Append(s, n)) = Len(s) + 1
        /\ \A i \in 1..Len(s) : Append(s, n)[i] = s[i]
        /\ Append(s, n)[Len(s) + 1] = n
    BY AppendProperties
  <1>2. Len(s) \in Nat /\ (s # <<>> => Len(s) > 0 /\ Head(s) = s[1])
    BY LenProperties, EmptySeq
  <1>3. Head(Append(s, n)) = Append(s, n)[1]
    BY <1>1
  <1>4. s # <<>> => Head(Append(s, n)) = Head(s)
    BY <1>1, <1>2, <1>3
  <1>. QED
    BY <1>1, <1>2, <1>4

LEMMA AppendFramesShows ==
  ASSUME TypeOK, NEW from, NEW to, AppendFrames(from, to)
  PROVE  /\ shown' \in [Frame -> Nat]
         /\ \A n \in Frame : shown'[n] = (IF n \in from..to THEN shown[n] + 1 ELSE shown[n])
  BY DEF AppendFrames, TypeOK

LEMMA SnapshotShows ==
  ASSUME NEW lo \in Frame, NEW hi \in Frame, NEW at \in Nat, lo <= at, at <= hi,
         ApplySnapshot(lo..hi, at)
  PROVE  /\ cursor' = at /\ at \in Frame /\ base' = lo
         /\ previews' = {n \in lo..hi : n > at} /\ previews' \in SUBSET Frame
         /\ shown' \in [Frame -> Nat]
         /\ \A n \in Frame : shown'[n] = (IF n \in lo..hi THEN 1 ELSE 0)
  <1>1. MaxSeq \in Nat /\ \A n \in lo..hi : n \in Frame /\ n \in Nat
    BY BoundsAssumption DEF Frame
  <1>2. cursor' = at /\ at \in Frame
    BY <1>1 DEF ApplySnapshot, Frame
  <1>3. base' = lo
    <2>1. lo \in lo..hi /\ \A m \in lo..hi : lo <= m
      BY DEF Frame
    <2>2. \A n \in lo..hi : (\A m \in lo..hi : n <= m) => n = lo
      BY <1>1, <2>1 DEF Frame
    <2>3. base' = CHOOSE n \in lo..hi : \A m \in lo..hi : n <= m
      BY DEF ApplySnapshot, ShowOnly
    <2>. QED
      BY <2>1, <2>2, <2>3
  <1>4. previews' = {n \in lo..hi : n > at} /\ previews' \in SUBSET Frame
    BY <1>1 DEF ApplySnapshot, ShowOnly
  <1>5. /\ shown' \in [Frame -> Nat]
        /\ \A n \in Frame : shown'[n] = (IF n \in lo..hi THEN 1 ELSE 0)
    BY DEF ApplySnapshot, ShowOnly
  <1>. QED
    BY <1>2, <1>3, <1>4, <1>5

-----------------------------------------------------------------------------
(* The general invariant.                                                  *)

LEMMA GeneralInit == Init => General
  <1>. SUFFICES ASSUME Init
                PROVE  General
    OBVIOUS
  <1>1. MaxSeq \in Nat
    BY BoundsAssumption
  <1>2. <<>> \in Seq(Frame) /\ Len(<<>>) = 0
    BY EmptySeq
  <1>3. TypeOK
    <2>1. seq \in 0..MaxSeq /\ cursor \in 0..MaxSeq /\ arrived \in 0..MaxSeq
      BY <1>1 DEF Init
    <2>2. base \in 1..(MaxSeq + 1)
      BY <1>1 DEF Init
    <2>6. waiting \in BOOLEAN /\ visible \in BOOLEAN /\ failed \in BOOLEAN
      BY Zenon DEF Init
    <2>3. events \in Seq(Frame) /\ chain \in Seq(Frame)
      BY <1>2 DEF Init
    <2>4. shown \in [Frame -> Nat] /\ previews \subseteq Frame
      BY DEF Init
    <2>5. task \in [Tasks -> TaskState]
      BY IdleFields DEF Init
    <2>. QED
      BY <2>1, <2>2, <2>3, <2>4, <2>5, <2>6 DEF TypeOK
  <1>4. \A t \in Tasks : task[t].pc = "idle"
    BY IdleFields DEF Init
  <1>5. WaitingIsVisible /\ NothingIsAhead
    BY <1>1, <1>2 DEF Init, WaitingIsVisible, NothingIsAhead
  <1>6. QueueWorks /\ \A t \in Tasks : TaskFits(t)
    BY <1>4 DEF QueueWorks, TaskFits, Tasks
  <1>. QED
    BY <1>3, <1>5, <1>6 DEF General

\* The host goes on: what was fit still is.
LEMMA TaskFitsStays ==
  ASSUME TypeOK, NEW u \in Tasks, TaskFits(u), task'[u] = task[u], seq' \in Nat, seq' >= seq
  PROVE  TaskFits(u)'
  <1>1. /\ task[u].cursor \in Nat /\ task[u].target \in Nat /\ task[u].reply.seq \in Nat
        /\ seq \in Nat
    BY TaskFields DEF TypeOK
  <1>. QED
    BY <1>1 DEF TaskFits

\* A step of the host.
LEMMA GeneralHost ==
  ASSUME General, UNCHANGED <<chain, task, cursor>>, TypeOK', seq' >= seq, WaitingIsVisible',
         \A i \in 1..Len(events') : events'[i] <= seq'
  PROVE  General'
  <1>1. seq \in Nat /\ seq' \in Nat /\ cursor \in Nat /\ chain \in Seq(Frame)
    BY DEF General, TypeOK
  <1>2. \A i \in 1..Len(chain) : chain[i] \in Nat
    <2>1. \A i \in 1..Len(chain) : chain[i] \in Frame
      BY <1>1, ElementOfSeq
    <2>. QED
      BY <2>1 DEF Frame
  <1>3. NothingIsAhead'
    BY <1>1, <1>2 DEF General, NothingIsAhead
  <1>4. \A u \in Tasks : TaskFits(u)'
    BY <1>1, TaskFitsStays DEF General
  <1>5. QueueWorks'
    BY DEF General, QueueWorks
  <1>. QED
    BY <1>3, <1>4, <1>5 DEF General

\* A step of the renderer, which may take the first event of the chain.
LEMMA GeneralTask ==
  ASSUME General, UNCHANGED <<seq, waiting, events>>, visible' \in {visible, TRUE},
         NEW t \in Tasks, OthersStay(t), TaskFits(t)',
         chain' = chain \/ (chain # <<>> /\ chain' = Tail(chain)),
         cursor' <= seq, QueueWorks', TypeOK'
  PROVE  General'
  <1>1. seq \in Nat /\ chain \in Seq(Frame)
    BY DEF General, TypeOK
  <1>2. \A i \in 1..Len(chain') : chain'[i] <= seq
    BY <1>1, TailFacts DEF General, NothingIsAhead
  <1>3. NothingIsAhead'
    BY <1>2 DEF General, NothingIsAhead
  <1>4. \A u \in Tasks : TaskFits(u)'
    <2>. TAKE u \in Tasks
    <2>1. CASE u = t
      BY <2>1
    <2>2. CASE u # t
      BY <1>1, <2>2, TaskFitsStays DEF General, OthersStay
    <2>. QED
      BY <2>1, <2>2
  <1>5. WaitingIsVisible'
    BY DEF General, WaitingIsVisible
  <1>. QED
    BY <1>3, <1>4, <1>5 DEF General

LEMMA GeneralHostSteps ==
  ASSUME General, HostAbsorb \/ HostTick \/ HostHidden \/ HostShow
  PROVE  General'
  <1>1. /\ TypeOK /\ WaitingIsVisible /\ NothingIsAhead
        /\ seq \in Nat /\ MaxSeq \in Nat /\ events \in Seq(Frame)
    BY BoundsAssumption DEF General, TypeOK
  <1>2. CASE HostAbsorb
    <2>1. TypeOK' /\ UNCHANGED <<chain, task, cursor, seq, events>> /\ WaitingIsVisible'
      BY <1>1, <1>2 DEF HostAbsorb, renderer, screen, TypeOK, WaitingIsVisible
    <2>. QED
      BY <1>1, <2>1, GeneralHost DEF NothingIsAhead
  <1>3. CASE HostTick
    <2>1. seq' = seq + 1 /\ seq' \in Frame /\ events' = Append(events, seq')
      BY <1>1, <1>3 DEF HostTick, WaitingIsVisible, Frame
    <2>2. PICK n \in Frame : n = seq' /\ n = seq + 1
      BY <2>1
    <2>3. \A i \in 1..Len(events) : events[i] \in Nat /\ events[i] <= n
      BY <1>1, <2>2, ElementOfSeq DEF NothingIsAhead, Frame
    <2>4. events' \in Seq(Frame) /\ \A i \in 1..Len(events') : events'[i] <= n
      <3>1. n \in Nat /\ n <= n
        BY <1>1, <2>2
      <3>. QED
        BY <1>1, <2>1, <2>2, <2>3, <3>1, AppendFacts
    <2>5. seq' \in 0..MaxSeq
      BY <1>1, <2>1 DEF Frame
    <2>6. TypeOK' /\ UNCHANGED <<chain, task, cursor>> /\ WaitingIsVisible'
      BY <1>1, <1>3, <2>4, <2>5 DEF HostTick, renderer, screen, TypeOK, WaitingIsVisible
    <2>. QED
      BY <1>1, <2>1, <2>2, <2>4, <2>6, GeneralHost
  <1>4. CASE HostHidden
    <2>1. seq' = seq + 1 /\ seq' \in 0..MaxSeq /\ ~waiting'
      BY <1>1, <1>4 DEF HostHidden, WaitingIsVisible
    <2>2. TypeOK' /\ UNCHANGED <<chain, task, cursor, events>> /\ WaitingIsVisible'
      BY <1>1, <1>4, <2>1 DEF HostHidden, renderer, screen, TypeOK, WaitingIsVisible
    <2>3. \A i \in 1..Len(events) : events[i] \in Nat /\ events[i] <= seq
      BY <1>1, ElementOfSeq DEF NothingIsAhead, Frame
    <2>. QED
      BY <1>1, <2>1, <2>2, <2>3, GeneralHost
  <1>5. CASE HostShow
    <2>1. TypeOK' /\ UNCHANGED <<chain, task, cursor, seq, events>> /\ WaitingIsVisible'
      BY <1>1, <1>5 DEF HostShow, renderer, screen, TypeOK, WaitingIsVisible
    <2>. QED
      BY <1>1, <2>1, GeneralHost DEF NothingIsAhead
  <1>. QED
    BY <1>2, <1>3, <1>4, <1>5
LEMMA QueueStays ==
  ASSUME QueueWorks, NEW t \in Tasks, OthersStay(t), chain' = chain,
         t = Queue => task[t].pc # "idle" /\ task'[t].thenShow = task[t].thenShow
  PROVE  QueueWorks'
  <1>1. CASE t = Queue
    BY <1>1 DEF QueueWorks
  <1>2. CASE t # Queue
    BY <1>2 DEF QueueWorks, OthersStay, Tasks
  <1>. QED
    BY <1>1, <1>2

LEMMA QueueEnds ==
  ASSUME QueueWorks, NEW t \in Tasks, OthersStay(t),
         t = Queue => task'[t].pc = "idle", t # Queue => chain' = chain
  PROVE  QueueWorks'
  <1>1. CASE t = Queue
    BY <1>1 DEF QueueWorks
  <1>2. CASE t # Queue
    BY <1>2 DEF QueueWorks, OthersStay, Tasks
  <1>. QED
    BY <1>1, <1>2

LEMMA TypeTask ==
  ASSUME TypeOK, NEW t \in Tasks, OthersStay(t),
         UNCHANGED <<seq, waiting, events, arrived>>,
         visible' \in {visible, TRUE}, failed' \in {failed, TRUE},
         chain' = chain \/ (chain # <<>> /\ chain' = Tail(chain)),
         cursor' \in 0..MaxSeq, base' \in 1..(MaxSeq + 1),
         shown' \in [Frame -> Nat], previews' \in SUBSET Frame
  PROVE  TypeOK'
  <1>1. chain' \in Seq(Frame)
    BY TailFacts DEF TypeOK
  <1>2. visible' \in BOOLEAN /\ failed' \in BOOLEAN /\ waiting' \in BOOLEAN
    BY Zenon DEF TypeOK
  <1>3. /\ seq' \in 0..MaxSeq /\ events' \in Seq(Frame) /\ arrived' \in 0..MaxSeq
        /\ task' \in [Tasks -> TaskState]
    BY DEF TypeOK, OthersStay
  <1>. QED
    BY <1>1, <1>2, <1>3 DEF TypeOK

LEMMA GeneralAnswer ==
  ASSUME General, NEW t \in Tasks, Answer(t)
  PROVE  General'
  <1>1. /\ TypeOK /\ WaitingIsVisible /\ TaskFits(t) /\ QueueWorks /\ NothingIsAhead
        /\ seq \in Nat
    BY DEF General, TypeOK
  <1>2. /\ UNCHANGED <<seq, waiting, events, chain, screen, arrived, failed>>
        /\ visible' \in {visible, TRUE} /\ task[t].pc # "idle"
    BY DEF Answer
  <1>3. OthersStay(t) /\ task'[t].thenShow = task[t].thenShow
    BY <1>1, AnswerMoves
  <1>4. TypeOK'
    BY <1>1, <1>2, <1>3, TypeTask DEF screen, TypeOK
  <1>5. QueueWorks'
    BY <1>1, <1>2, <1>3, QueueStays
  <1>6. TaskFits(t)'
    <2>1. CASE /\ task[t].pc = "delta" /\ task'[t].pc = "page"
               /\ task'[t].cursor = task[t].cursor /\ task'[t].target = task[t].target
               /\ task'[t].reply = DeltaPage(task[t].cursor)
      <3>1. PICK page \in Page : page = DeltaPage(task[t].cursor)
        BY <1>1, TaskFields, PageProperties
      <3>2. page.seq = seq /\ PageFits(page, task[t].cursor)
        BY <1>1, <3>1, TaskFields, PageProperties
      <3>3. task[t].cursor <= seq /\ task[t].target <= seq
        BY <1>1, <2>1 DEF TaskFits
      <3>4. PageFits(task'[t].reply, task'[t].cursor) /\ task'[t].reply.seq = seq'
        BY <1>2, <2>1, <3>1, <3>2
      <3>5. task'[t].cursor <= seq' /\ task'[t].target <= seq' /\ seq' <= seq'
        BY <1>1, <1>2, <2>1, <3>3
      <3>. QED
        BY <2>1, <3>4, <3>5 DEF TaskFits, PageFits
    <2>2. CASE /\ task[t].pc = "snapshot" /\ task'[t].pc = "content"
               /\ task'[t].frames = SnapshotFrames /\ task'[t].reply.seq = seq
      <3>1. SnapshotFits(SnapshotFrames, seq)
        BY <1>1, <2>2, SnapshotProperties DEF TaskFits
      <3>2. SnapshotFits(task'[t].frames, task'[t].reply.seq) /\ task'[t].reply.seq <= seq'
        BY <1>1, <1>2, <2>2, <3>1
      <3>. QED
        BY <2>2, <3>2 DEF TaskFits, SnapshotFits, Frame
    <2>3. CASE task'[t].pc = "shown"
      BY <2>3 DEF TaskFits
    <2>. QED
      BY <1>1, <2>1, <2>2, <2>3, AnswerMoves
  <1>7. cursor' <= seq
    BY <1>1, <1>2 DEF NothingIsAhead, screen
  <1>. QED
    BY <1>2, <1>3, <1>4, <1>5, <1>6, <1>7, GeneralTask
\* A callback of the renderer leaves the screen as its type says, at a frame the host has.
ScreenFits ==
  /\ cursor' \in 0..MaxSeq /\ cursor' <= seq /\ base' \in 1..(MaxSeq + 1)
  /\ shown' \in [Frame -> Nat] /\ previews' \in SUBSET Frame

LEMMA GeneralFinish ==
  ASSUME General, NEW t \in Tasks, OthersStay(t), task'[t].pc \in {"idle", "show"},
         t = Queue => task'[t].pc = "idle" /\ chain # <<>> /\ chain' = Tail(chain),
         t # Queue => chain' = chain,
         UNCHANGED <<host, events, arrived>>, failed' \in {failed, TRUE}, ScreenFits
  PROVE  General'
  <1>1. TypeOK /\ QueueWorks
    BY DEF General
  <1>2. /\ UNCHANGED <<seq, waiting, events, arrived>> /\ visible' \in {visible, TRUE}
        /\ chain' = chain \/ (chain # <<>> /\ chain' = Tail(chain))
    BY DEF host
  <1>3. TypeOK'
    BY <1>1, <1>2, TypeTask DEF ScreenFits
  <1>4. QueueWorks'
    BY <1>1, QueueEnds
  <1>5. TaskFits(t)'
    BY DEF TaskFits
  <1>. QED
    BY <1>2, <1>3, <1>4, <1>5, GeneralTask DEF ScreenFits

LEMMA GeneralSnapshot ==
  ASSUME General, NEW t \in Tasks, ReadSnapshot(t), task[t].pc # "idle", seq > 0,
         UNCHANGED <<host, events, arrived, failed>>, ScreenFits
  PROVE  General'
  <1>1. TypeOK /\ QueueWorks
    BY DEF General
  <1>2. UNCHANGED <<seq, waiting, events, arrived>> /\ visible' \in {visible, TRUE}
    BY DEF host
  <1>3. /\ OthersStay(t) /\ task'[t].pc = "snapshot" /\ task'[t].thenShow = task[t].thenShow
        /\ chain' = chain
    BY <1>1, ReadSnapshotMoves
  <1>4. TypeOK'
    BY <1>1, <1>2, <1>3, TypeTask DEF ScreenFits
  <1>5. QueueWorks'
    BY <1>1, <1>3, QueueStays
  <1>6. TaskFits(t)'
    BY <1>2, <1>3 DEF TaskFits
  <1>. QED
    BY <1>2, <1>3, <1>4, <1>5, <1>6, GeneralTask DEF ScreenFits

LEMMA GeneralStart ==
  ASSUME General, NEW t \in Tasks, NEW n \in Nat, n <= seq, NEW thenShow \in BOOLEAN,
         Start(t, cursor, n, thenShow), t = Queue => chain # <<>> /\ ~thenShow,
         UNCHANGED <<host, events, screen, chain, arrived, failed>>
  PROVE  General'
  <1>1. TypeOK /\ QueueWorks /\ cursor \in Nat /\ cursor <= seq /\ seq \in Nat
    BY DEF General, TypeOK, NothingIsAhead
  <1>2. UNCHANGED <<seq, waiting, events, chain, arrived>> /\ visible' \in {visible, TRUE}
    BY DEF host
  <1>3. ScreenFits
    BY <1>1 DEF ScreenFits, screen, TypeOK
  <1>4. /\ OthersStay(t) /\ task'[t].pc = "delta" /\ task'[t].thenShow = thenShow
        /\ task'[t].cursor = cursor /\ task'[t].target = (IF n > cursor THEN n ELSE cursor)
    BY <1>1, StartMoves
  <1>5. TypeOK'
    BY <1>1, <1>2, <1>3, <1>4, TypeTask DEF ScreenFits
  <1>6. QueueWorks'
    <2>1. CASE t = Queue
      BY <1>2, <1>4, <2>1 DEF QueueWorks
    <2>2. CASE t # Queue
      BY <1>1, <1>2, <1>4, <2>2 DEF QueueWorks, OthersStay, Tasks
    <2>. QED
      BY <2>1, <2>2
  <1>7. TaskFits(t)'
    BY <1>1, <1>2, <1>4 DEF TaskFits
  <1>. QED
    BY <1>2, <1>3, <1>4, <1>5, <1>6, <1>7, GeneralTask DEF ScreenFits

LEMMA GeneralOutput ==
  ASSUME General, Output
  PROVE  General'
  <1>1. /\ TypeOK /\ QueueWorks /\ NothingIsAhead /\ WaitingIsVisible
        /\ events \in Seq(Frame) /\ chain \in Seq(Frame) /\ seq \in Nat /\ MaxSeq \in Nat
    BY BoundsAssumption DEF General, TypeOK
  <1>2. PICK n \in Frame : n = Head(events) /\ n <= seq
    BY <1>1, TailFacts DEF Output, NothingIsAhead
  <1>3. /\ events' = Tail(events) /\ arrived' = n /\ events # <<>>
        /\ UNCHANGED <<seq, waiting, visible, task, failed>>
    BY <1>2 DEF Output, host
  <1>4. \/ chain' = chain /\ UNCHANGED screen
        \/ chain' = chain /\ AppendFrame(n)
        \/ chain' = Append(chain, n) /\ UNCHANGED screen
    BY <1>2 DEF Output
  <1>5. events' \in Seq(Frame) /\ \A i \in 1..Len(events') : events'[i] <= seq
    BY <1>1, <1>3, TailFacts DEF NothingIsAhead
  <1>6. chain' \in Seq(Frame) /\ \A i \in 1..Len(chain') : chain'[i] <= seq
    BY <1>1, <1>2, <1>4, AppendFacts DEF NothingIsAhead
  <1>7. ScreenFits
    <2>1. CASE UNCHANGED screen
      BY <1>1, <2>1 DEF ScreenFits, screen, TypeOK, NothingIsAhead
    <2>2. CASE AppendFrame(n)
      <3>1. cursor' = n /\ UNCHANGED <<base, previews>> /\ AppendFrames(n, n)
        BY <2>2 DEF AppendFrame
      <3>2. shown' \in [Frame -> Nat]
        BY <1>1, <3>1, AppendFramesShows
      <3>. QED
        BY <1>1, <1>2, <3>1, <3>2 DEF ScreenFits, TypeOK, Frame
    <2>. QED
      BY <1>4, <2>1, <2>2
  <1>8. TypeOK'
    <2>1. waiting' \in BOOLEAN /\ visible' \in BOOLEAN /\ failed' \in BOOLEAN
      BY <1>1, <1>3, Zenon DEF TypeOK
    <2>2. seq' \in 0..MaxSeq /\ arrived' \in 0..MaxSeq /\ task' \in [Tasks -> TaskState]
      BY <1>1, <1>2, <1>3 DEF TypeOK, Frame
    <2>. QED
      BY <1>5, <1>6, <1>7, <2>1, <2>2 DEF TypeOK, ScreenFits
  <1>9. NothingIsAhead'
    BY <1>3, <1>5, <1>6, <1>7 DEF NothingIsAhead, ScreenFits
  <1>10. \A u \in Tasks : TaskFits(u)'
    BY <1>1, <1>3, TaskFitsStays DEF General
  <1>11. QueueWorks'
    BY <1>1, <1>2, <1>3, <1>4, AppendFacts DEF QueueWorks
  <1>12. WaitingIsVisible'
    BY <1>1, <1>3 DEF WaitingIsVisible
  <1>. QED
    BY <1>8, <1>9, <1>10, <1>11, <1>12 DEF General
\* The chain passes an event that is stale or comes next.
LEMMA GeneralPop ==
  ASSUME General, task[Queue].pc = "idle", chain # <<>>, chain' = Tail(chain),
         UNCHANGED <<host, events, task, arrived, failed>>, ScreenFits
  PROVE  General'
  <1>1. TypeOK /\ QueueWorks /\ Queue \in Tasks
    BY DEF General, Tasks
  <1>2. OthersStay(Queue) /\ task'[Queue].pc = "idle"
    BY <1>1 DEF OthersStay, TypeOK
  <1>. QED
    BY <1>1, <1>2, GeneralFinish

LEMMA AppendFrameFits ==
  ASSUME General, NEW n \in Frame, n <= seq, AppendFrame(n)
  PROVE  ScreenFits
  <1>1. TypeOK /\ MaxSeq \in Nat
    BY BoundsAssumption DEF General
  <1>2. cursor' = n /\ UNCHANGED <<base, previews>> /\ AppendFrames(n, n)
    BY DEF AppendFrame
  <1>3. shown' \in [Frame -> Nat]
    BY <1>1, <1>2, AppendFramesShows
  <1>. QED
    BY <1>1, <1>2, <1>3 DEF ScreenFits, TypeOK, Frame

LEMMA GeneralChainStep ==
  ASSUME General, ChainStep
  PROVE  General'
  <1>1. /\ TypeOK /\ NothingIsAhead /\ chain \in Seq(Frame) /\ seq \in Nat /\ Queue \in Tasks
    BY DEF General, TypeOK, Tasks
  <1>2. chain # <<>> /\ task[Queue].pc = "idle"
    BY DEF ChainStep, ChainReady
  <1>3. PICK n \in Frame : n = Head(chain) /\ n <= seq
    BY <1>1, <1>2, TailFacts DEF NothingIsAhead
  <1>4. UNCHANGED <<host, events, arrived, failed>>
    BY DEF ChainStep
  <1>5. CASE chain' = Tail(chain) /\ UNCHANGED <<screen, task>>
    <2>1. ScreenFits
      BY <1>1, <1>5 DEF ScreenFits, screen, TypeOK, NothingIsAhead
    <2>. QED
      BY <1>2, <1>4, <1>5, <2>1, GeneralPop
  <1>6. CASE chain' = Tail(chain) /\ AppendFrame(n) /\ UNCHANGED task
    BY <1>2, <1>3, <1>4, <1>6, AppendFrameFits, GeneralPop
  <1>7. CASE Start(Queue, cursor, n, FALSE) /\ UNCHANGED <<screen, chain>>
    <2>1. n \in Nat
      BY DEF Frame
    <2>. QED
      BY <1>1, <1>2, <1>3, <1>4, <1>7, <2>1, GeneralStart
  <1>. QED
    BY <1>3, <1>5, <1>6, <1>7 DEF ChainStep

LEMMA GeneralRecover ==
  ASSUME General, NEW t \in Recovery, NEW thenShow \in BOOLEAN, Recover(t, thenShow)
  PROVE  General'
  <1>1. cursor \in Nat /\ cursor <= seq
    BY DEF General, TypeOK, NothingIsAhead
  <1>2. t \in Tasks /\ t # Queue
    BY QueueAssumption DEF Tasks
  <1>. QED
    BY <1>1, <1>2, GeneralStart DEF Recover

LEMMA GeneralShown ==
  ASSUME General, NEW t \in Tasks, Shown(t)
  PROVE  General'
  <1>1. cursor \in Nat /\ cursor <= seq
    BY DEF General, TypeOK, NothingIsAhead
  <1>2. t = Queue => chain # <<>>
    BY DEF General, QueueWorks, Shown
  <1>. QED
    BY <1>1, <1>2, GeneralStart DEF Shown

LEMMA GeneralFails ==
  ASSUME General, NEW t \in Tasks, RequestFails(t)
  PROVE  General'
  <1>1. TypeOK /\ QueueWorks /\ NothingIsAhead
    BY DEF General
  <1>2. UNCHANGED <<host, events, arrived, screen>> /\ failed' = TRUE
    BY DEF RequestFails
  <1>3. ScreenFits
    BY <1>1, <1>2 DEF ScreenFits, screen, TypeOK, NothingIsAhead
  <1>. QED
    BY <1>1, <1>2, <1>3, FailMoves, GeneralFinish

\* A page that is not what the task had is about frames the host has.
LEMMA PageGoesOn ==
  ASSUME General, NEW t \in Tasks, task[t].pc = "page"
  PROVE  /\ task[t].cursor \in Nat /\ task[t].reply.to \in Nat /\ task[t].reply.seq \in Nat
         /\ TargetOf(t) = task[t].reply.seq /\ task[t].reply.seq <= seq
         /\ task[t].cursor <= seq /\ task[t].cursor <= task[t].reply.to
         /\ task[t].reply.seq > task[t].cursor <=> task[t].reply.to > task[t].cursor
         /\ task[t].reply.gap => task[t].reply.seq > task[t].cursor
         /\ task[t].reply.to > task[t].cursor =>
              task[t].reply.to <= task[t].reply.seq /\ task[t].reply.to \in Frame
  <1>1. TypeOK /\ TaskFits(t) /\ seq \in 0..MaxSeq /\ MaxSeq \in Nat
    BY BoundsAssumption DEF General, TypeOK
  <1>2. /\ task[t].cursor \in Nat /\ task[t].reply.to \in Nat /\ task[t].reply.seq \in Nat
        /\ task[t].target \in Nat
    BY <1>1, TaskFields
  <1>3. /\ task[t].cursor <= seq /\ task[t].target <= task[t].reply.seq
        /\ task[t].reply.seq <= seq /\ PageFits(task[t].reply, task[t].cursor)
    BY <1>1 DEF TaskFits
  <1>4. TargetOf(t) = task[t].reply.seq
    BY <1>2, <1>3 DEF TargetOf
  <1>. QED
    BY <1>1, <1>2, <1>3, <1>4 DEF PageFits, Frame

LEMMA GeneralPages ==
  ASSUME General, NEW t \in Tasks, PageGap(t) \/ PageEmpty(t) \/ PageAppend(t)
  PROVE  General'
  <1>1. /\ TypeOK /\ QueueWorks /\ NothingIsAhead /\ MaxSeq \in Nat /\ seq \in 0..MaxSeq
        /\ task[t].pc = "page" /\ task[t].pc # "idle"
    BY BoundsAssumption DEF General, TypeOK, PageGap, PageEmpty, PageAppend
  <1>2. UNCHANGED <<host, events, arrived, failed>>
    BY DEF PageGap, PageEmpty, PageAppend
  <1>3. CASE PageGap(t)
    <2>1. ScreenFits
      BY <1>1, <1>3 DEF PageGap, ScreenFits, screen, TypeOK, NothingIsAhead
    <2>. QED
      <3>1. ASSUME seq = 0
            PROVE  FALSE
        <4>1. task[t].reply.seq = 0 /\ task[t].cursor = 0 /\ TargetOf(t) = 0
          BY <1>1, <3>1, PageGoesOn
        <4>2. ~(task[t].reply.seq > task[t].cursor) /\ ~(TargetOf(t) > task[t].cursor)
          BY <4>1
        <4>3. ~task[t].reply.gap
          BY <1>1, <4>2, PageGoesOn
        <4>. QED
          BY <1>3, <4>2, <4>3 DEF PageGap, IsGap
      <3>. QED
        BY <1>1, <1>2, <1>3, <2>1, <3>1, GeneralSnapshot DEF PageGap
  <1>4. CASE PageEmpty(t)
    <2>1. ScreenFits
      BY <1>1, <1>4 DEF PageEmpty, ScreenFits, screen, TypeOK, NothingIsAhead
    <2>. QED
      BY <1>1, <1>2, <1>4, <2>1, FinishMoves, GeneralFinish DEF PageEmpty
  <1>5. CASE PageAppend(t)
    <2>1. /\ cursor' = task[t].reply.to /\ task[t].reply.to > task[t].cursor
          /\ UNCHANGED <<base, previews>>
          /\ AppendFrames(task[t].cursor + 1, task[t].reply.to)
      BY <1>5 DEF PageAppend
    <2>2. cursor' <= seq /\ cursor' \in 0..MaxSeq /\ seq > 0 /\ TargetOf(t) <= seq /\ TargetOf(t) \in Nat
      BY <1>1, <2>1, PageGoesOn
    <2>3. ScreenFits
      BY <1>1, <2>1, <2>2, AppendFramesShows DEF ScreenFits, TypeOK
    <2>4. CASE Finish(t)
      BY <1>1, <1>2, <2>3, <2>4, FinishMoves, GeneralFinish
    <2>5. CASE ReadSnapshot(t)
      BY <1>1, <1>2, <2>2, <2>3, <2>5, GeneralSnapshot
    <2>6. CASE /\ OthersStay(t) /\ chain' = chain
               /\ task'[t].pc = "delta" /\ task'[t].thenShow = task[t].thenShow
               /\ task'[t].cursor = cursor' /\ task'[t].target = TargetOf(t)
      <3>1. TaskFits(t)'
        BY <1>2, <2>2, <2>6 DEF TaskFits, host
      <3>2. QueueWorks'
        BY <1>1, <2>6, QueueStays
      <3>3. UNCHANGED <<seq, waiting, events, arrived>> /\ visible' \in {visible, TRUE}
        BY <1>2 DEF host
      <3>4. TypeOK'
        BY <1>1, <1>2, <2>3, <2>6, <3>3, TypeTask DEF ScreenFits
      <3>. QED
        BY <2>2, <2>6, <3>1, <3>2, <3>3, <3>4, GeneralTask
    <2>. QED
      BY <1>1, <1>5, <2>4, <2>5, <2>6, PageAppendMoves
  <1>. QED
    BY <1>3, <1>4, <1>5

LEMMA GeneralContent ==
  ASSUME General, NEW t \in Tasks, Content(t)
  PROVE  General'
  <1>1. /\ TypeOK /\ QueueWorks /\ TaskFits(t) /\ MaxSeq \in Nat /\ seq \in 0..MaxSeq
        /\ task[t].pc = "content" /\ task[t].pc # "idle"
    BY BoundsAssumption DEF General, TypeOK, Content
  <1>2. UNCHANGED <<host, events, arrived, failed>> /\ Finish(t)
    BY DEF Content
  <1>3. PICK lo \in Frame, hi \in Frame, at \in Nat :
          /\ at = task[t].reply.seq /\ at <= seq
          /\ task[t].frames = lo..hi /\ lo <= at /\ at <= hi
    BY <1>1, TaskFields DEF TaskFits, SnapshotFits
  <1>4. ApplySnapshot(lo..hi, at)
    BY <1>3 DEF Content
  <1>5. ScreenFits
    <2>1. /\ cursor' = at /\ base' = lo /\ shown' \in [Frame -> Nat]
          /\ previews' \in SUBSET Frame
      BY <1>3, <1>4, SnapshotShows
    <2>2. at \in 0..MaxSeq /\ lo \in 1..(MaxSeq + 1)
      BY <1>1, <1>3 DEF Frame
    <2>. QED
      BY <1>3, <2>1, <2>2 DEF ScreenFits
  <1>. QED
    BY <1>1, <1>2, <1>5, FinishMoves, GeneralFinish

LEMMA GeneralNext ==
  ASSUME General, [Next]_vars
  PROVE  General'
  <1>1. CASE UNCHANGED vars
    BY <1>1 DEF vars, host, screen, General, TypeOK, WaitingIsVisible, NothingIsAhead,
                TaskFits, QueueWorks
  <1>2. CASE HostAbsorb \/ HostTick \/ HostHidden \/ HostShow
    BY <1>2, GeneralHostSteps
  <1>3. CASE Output \/ ChainStep
    BY <1>3, GeneralOutput, GeneralChainStep
  <1>4. CASE \E t \in Recovery, thenShow \in BOOLEAN : Recover(t, thenShow)
    BY <1>4, GeneralRecover
  <1>5. CASE \E t \in Tasks : Answer(t) \/ Resume(t) \/ RequestFails(t)
    <2>1. PICK t \in Tasks : Answer(t) \/ Resume(t) \/ RequestFails(t)
      BY <1>5
    <2>. QED
      BY <2>1, GeneralAnswer, GeneralFails, GeneralPages, GeneralContent, GeneralShown DEF Resume
  <1>. QED
    BY <1>1, <1>2, <1>3, <1>4, <1>5 DEF Next

\* With any recoveries beside the chain the renderer is never ahead of the host, and pages
\* and snapshots on their way are such as terminal_read_delta and terminal_read_snapshot
\* answer: what onOutput and the recoveries rely on at each await.
THEOREM GeneralCorrect == Spec => []General
  BY GeneralInit, GeneralNext, PTL DEF Spec

\* Every state of the renderer's cursor, screen, chain and recoveries has its type.
THEOREM TypeCorrect == Spec => []TypeOK
  <1>1. General => TypeOK
    BY DEF General
  <1>. QED
    BY <1>1, GeneralCorrect, PTL
-----------------------------------------------------------------------------
(* The chain alone.                                                        *)

LEMMA DisplayKept ==
  ASSUME Display, UNCHANGED screen
  PROVE  Display'
  BY DEF Display, BeyondIsPreviewed, ShownAtMost, NothingIsSkipped, screen

LEMMA DisplayAppended ==
  ASSUME General, Display, NEW to \in Frame, to >= cursor, AppendFrames(cursor + 1, to),
         cursor' = to, UNCHANGED <<base, previews>>
  PROVE  Display'
  <1>1. /\ TypeOK /\ cursor \in Nat /\ base \in Nat /\ to \in Nat
        /\ \A n \in Frame : n \in Nat /\ shown[n] \in Nat
    <2>1. TypeOK
      BY DEF General
    <2>2. cursor \in 0..MaxSeq /\ base \in 1..(MaxSeq + 1) /\ shown \in [Frame -> Nat]
      BY <2>1 DEF TypeOK
    <2>3. MaxSeq \in Nat /\ to \in 1..MaxSeq /\ \A n \in Frame : n \in 1..MaxSeq
      BY BoundsAssumption DEF Frame
    <2>4. \A n \in Frame : shown[n] \in Nat
      BY ONLY <2>2
    <2>5. cursor \in Nat /\ base \in Nat /\ to \in Nat /\ \A n \in Frame : n \in Nat
      BY ONLY <2>2, <2>3
    <2>. QED
      BY <2>1, <2>4, <2>5
  <1>2. \A n \in Frame : shown'[n] = (IF cursor < n /\ n <= to THEN shown[n] + 1 ELSE shown[n])
    <2>1. \A n \in Frame : n \in (cursor + 1)..to <=> (cursor < n /\ n <= to)
      BY <1>1
    <2>. QED
      BY <1>1, <2>1, AppendFramesShows
  <1>3. \A n \in Frame : n > cursor => shown[n] = (IF n \in previews THEN 1 ELSE 0)
    BY DEF Display, BeyondIsPreviewed
  <1>4. BeyondIsPreviewed'
    BY <1>1, <1>2, <1>3 DEF BeyondIsPreviewed
  <1>5. ShownAtMost'
    BY <1>1, <1>2, <1>3 DEF Display, ShownAtMost
  <1>6. NothingIsSkipped'
    BY <1>1, <1>2 DEF Display, NothingIsSkipped
  <1>. QED
    BY <1>4, <1>5, <1>6 DEF Display

LEMMA DisplayReset ==
  ASSUME NEW lo \in Frame, NEW hi \in Frame, NEW at \in Nat, lo <= at, at <= hi,
         ApplySnapshot(lo..hi, at)
  PROVE  Display'
  <1>1. \A n \in Frame : n \in Nat /\ (n \in lo..hi <=> lo <= n /\ n <= hi)
    BY DEF Frame
  <1>2. /\ cursor' = at /\ base' = lo
        /\ previews' = {n \in lo..hi : n > at}
        /\ \A n \in Frame : shown'[n] = (IF n \in lo..hi THEN 1 ELSE 0)
    BY SnapshotShows
  <1>3. BeyondIsPreviewed' /\ ShownAtMost' /\ NothingIsSkipped'
    BY <1>1, <1>2 DEF BeyondIsPreviewed, ShownAtMost, NothingIsSkipped, Frame
  <1>. QED
    BY <1>3 DEF Display

\* The chain is done with an event that the screen has.
LEMMA LastPops ==
  ASSUME General, General', LastIsComing, chain # <<>>, chain' = Tail(chain),
         Head(chain) <= cursor', cursor <= cursor', arrived' = arrived, failed' = failed
  PROVE  LastIsComing'
  <1>1. chain \in Seq(Frame) /\ cursor \in Nat /\ cursor' \in Nat /\ arrived \in Nat
    BY DEF General, TypeOK
  <1>2. /\ Tail(chain) # <<>> => Tail(chain)[Len(Tail(chain))] = chain[Len(chain)]
        /\ Tail(chain) = <<>> => Head(chain) = chain[Len(chain)]
    BY <1>1, TailFacts
  <1>. QED
    BY <1>1, <1>2 DEF LastIsComing

LEMMA HeadIsKnown ==
  ASSUME General, chain # <<>>
  PROVE  Head(chain) \in Frame /\ Head(chain) \in Nat /\ Head(chain) <= seq
  <1>1. chain \in Seq(Frame) /\ seq \in Nat
    BY DEF General, TypeOK
  <1>2. Head(chain) \in Frame /\ Head(chain) <= seq
    BY <1>1, TailFacts DEF General, NothingIsAhead
  <1>. QED
    BY <1>2 DEF Frame

LEMMA AloneOutput ==
  ASSUME AloneInv, Output, General'
  PROVE  AloneInv'
  <1>1. /\ General /\ QueueGoesOn /\ Display /\ LastIsComing /\ QueueWorks
        /\ events \in Seq(Frame) /\ chain \in Seq(Frame) /\ cursor \in Nat
    BY DEF AloneInv, General, TypeOK
  <1>2. PICK n \in Frame : n = Head(events)
    BY <1>1, TailFacts DEF Output
  <1>3. arrived' = n /\ UNCHANGED <<task, failed>>
    BY <1>2 DEF Output
  <1>4. CASE chain = <<>> /\ chain' = chain /\ n <= cursor /\ UNCHANGED screen
    <2>1. QueueGoesOn'
      BY <1>1, <1>3, <1>4 DEF QueueGoesOn, QueueWorks
    <2>2. LastIsComing'
      BY <1>3, <1>4 DEF LastIsComing, screen
    <2>. QED
      BY <1>1, <1>4, <2>1, <2>2, DisplayKept DEF AloneInv
  <1>5. CASE chain = <<>> /\ chain' = chain /\ n = cursor + 1 /\ AppendFrame(n)
    <2>1. cursor' = n /\ UNCHANGED <<base, previews>> /\ AppendFrames(cursor + 1, n)
      BY <1>5 DEF AppendFrame
    <2>2. QueueGoesOn'
      BY <1>1, <1>3, <1>5 DEF QueueGoesOn, QueueWorks
    <2>3. LastIsComing'
      BY <1>3, <2>1 DEF LastIsComing, Frame
    <2>4. n >= cursor
      BY <1>1, <1>5
    <2>. QED
      BY <1>1, <2>1, <2>2, <2>3, <2>4, DisplayAppended DEF AloneInv
  <1>6. CASE chain' = Append(chain, n) /\ UNCHANGED screen
    <2>1. /\ chain' # <<>> /\ chain'[Len(chain')] = n
          /\ chain # <<>> => Head(chain') = Head(chain)
      BY <1>1, <1>6, AppendFacts
    <2>2. QueueGoesOn'
      BY <1>1, <1>3, <1>6, <2>1 DEF QueueGoesOn, QueueWorks, screen
    <2>3. LastIsComing'
      BY <1>3, <2>1 DEF LastIsComing
    <2>. QED
      BY <1>1, <1>6, <2>2, <2>3, DisplayKept DEF AloneInv
  <1>. QED
    BY <1>2, <1>4, <1>5, <1>6 DEF Output, IsStale, IsNext

LEMMA AloneChainStep ==
  ASSUME AloneInv, ChainStep, General'
  PROVE  AloneInv'
  <1>1. /\ General /\ QueueGoesOn /\ Display /\ LastIsComing /\ TypeOK /\ cursor \in Nat
        /\ Queue \in Tasks /\ chain # <<>> /\ task[Queue].pc = "idle"
    BY DEF AloneInv, General, TypeOK, Tasks, ChainStep, ChainReady
  <1>2. PICK n \in Frame : n = Head(chain) /\ n \in Nat
    BY <1>1, HeadIsKnown
  <1>3. arrived' = arrived /\ failed' = failed
    BY DEF ChainStep
  <1>4. CASE chain' = Tail(chain) /\ n <= cursor /\ UNCHANGED <<screen, task>>
    <2>1. QueueGoesOn'
      BY <1>1, <1>4 DEF QueueGoesOn
    <2>2. cursor' = cursor
      BY <1>4 DEF screen
    <2>3. LastIsComing'
      BY <1>1, <1>2, <1>3, <1>4, <2>2, LastPops
    <2>. QED
      BY <1>1, <1>4, <2>1, <2>3, DisplayKept DEF AloneInv
  <1>5. CASE chain' = Tail(chain) /\ n = cursor + 1 /\ AppendFrame(n) /\ UNCHANGED task
    <2>1. cursor' = n /\ UNCHANGED <<base, previews>> /\ AppendFrames(cursor + 1, n)
      BY <1>5 DEF AppendFrame
    <2>2. QueueGoesOn'
      BY <1>1, <1>5 DEF QueueGoesOn
    <2>3. n >= cursor /\ cursor <= cursor' /\ Head(chain) <= cursor'
      BY <1>1, <1>2, <1>5, <2>1
    <2>4. LastIsComing'
      BY <1>1, <1>3, <1>5, <2>3, LastPops
    <2>. QED
      BY <1>1, <2>1, <2>2, <2>3, <2>4, DisplayAppended DEF AloneInv
  <1>6. CASE Start(Queue, cursor, n, FALSE) /\ UNCHANGED <<screen, chain>>
    <2>1. /\ task'[Queue].pc = "delta" /\ task'[Queue].cursor = cursor
          /\ task'[Queue].target = (IF n > cursor THEN n ELSE cursor)
      BY <1>1, <1>2, <1>6, StartMoves
    <2>2. QueueGoesOn'
      BY <1>1, <1>2, <1>6, <2>1 DEF QueueGoesOn, screen
    <2>3. LastIsComing'
      BY <1>1, <1>3, <1>6 DEF LastIsComing, screen
    <2>. QED
      BY <1>1, <1>6, <2>2, <2>3, DisplayKept DEF AloneInv
  <1>. QED
    BY <1>2, <1>4, <1>5, <1>6 DEF ChainStep, IsStale, IsNext

LEMMA AloneAnswer ==
  ASSUME AloneInv, Answer(Queue), General'
  PROVE  AloneInv'
  <1>1. /\ General /\ QueueGoesOn /\ Display /\ LastIsComing /\ TypeOK /\ QueueWorks
        /\ Queue \in Tasks /\ cursor \in Nat /\ seq \in Nat /\ cursor <= seq
        /\ TaskFits(Queue) /\ WaitingIsVisible
    BY DEF AloneInv, General, TypeOK, Tasks, NothingIsAhead
  <1>2. UNCHANGED <<chain, screen, arrived, failed>> /\ task[Queue].pc # "idle"
    BY DEF Answer
  <1>3. chain # <<>>
    BY <1>1, <1>2 DEF QueueWorks
  <1>4. QueueGoesOn'
    <2>1. CASE /\ task[Queue].pc = "delta" /\ task'[Queue].pc = "page"
               /\ task'[Queue].cursor = task[Queue].cursor
               /\ task'[Queue].target = task[Queue].target
      BY <1>1, <1>2, <2>1 DEF QueueGoesOn, screen
    <2>2. CASE /\ task[Queue].pc = "snapshot" /\ task'[Queue].pc = "content"
               /\ task'[Queue].reply.seq = seq
      BY <1>1, <1>2, <1>3, <2>2, HeadIsKnown DEF QueueGoesOn, screen
    <2>. QED
      BY <1>1, <2>1, <2>2, AnswerMoves DEF QueueGoesOn
  <1>5. LastIsComing'
    BY <1>1, <1>2 DEF LastIsComing, screen
  <1>. QED
    BY <1>1, <1>2, <1>4, <1>5, DisplayKept DEF AloneInv

\* The queue's task is done with its event, which the screen has, or failed.
LEMMA AloneFinish ==
  ASSUME AloneInv, Display', General', NEW t \in Tasks, t = Queue,
         task'[t].pc = "idle", chain # <<>>, chain' = Tail(chain),
         ~failed' => Head(chain) <= cursor' /\ cursor <= cursor' /\ failed' = failed,
         arrived' = arrived
  PROVE  AloneInv'
  <1>1. General /\ LastIsComing
    BY DEF AloneInv
  <1>2. QueueGoesOn'
    BY DEF QueueGoesOn
  <1>3. LastIsComing'
    BY <1>1, LastPops DEF LastIsComing
  <1>. QED
    BY <1>2, <1>3 DEF AloneInv
LEMMA AlonePages ==
  ASSUME AloneInv, PageGap(Queue) \/ PageEmpty(Queue) \/ PageAppend(Queue), General'
  PROVE  AloneInv'
  <1>1. /\ General /\ QueueGoesOn /\ Display /\ LastIsComing /\ TypeOK /\ QueueWorks
        /\ Queue \in Tasks /\ cursor \in Nat /\ task[Queue].pc = "page"
    BY DEF AloneInv, General, TypeOK, Tasks, PageGap, PageEmpty, PageAppend
  <1>2. arrived' = arrived /\ failed' = failed
    BY DEF PageGap, PageEmpty, PageAppend
  <1>3. chain # <<>> /\ task[Queue].cursor = cursor /\ Head(chain) <= task[Queue].target
    BY <1>1 DEF QueueWorks, QueueGoesOn
  <1>4. Head(chain) \in Nat /\ task[Queue].target \in Nat /\ Head(chain) <= TargetOf(Queue)
    <2>1. Head(chain) \in Nat /\ task[Queue].target \in Nat /\ task[Queue].reply.seq \in Nat
      BY <1>1, <1>3, HeadIsKnown, TaskFields
    <2>. QED
      BY <1>3, <2>1 DEF TargetOf
  <1>5. CASE PageGap(Queue)
    <2>1. task'[Queue].pc = "snapshot" /\ UNCHANGED <<chain, screen>>
      BY <1>1, <1>5, ReadSnapshotMoves DEF PageGap
    <2>2. QueueGoesOn' /\ LastIsComing'
      BY <1>1, <1>2, <2>1 DEF QueueGoesOn, LastIsComing, screen
    <2>. QED
      BY <1>1, <2>1, <2>2, DisplayKept DEF AloneInv
  <1>6. CASE PageEmpty(Queue)
    <2>1. task'[Queue].pc = "idle" /\ chain' = Tail(chain) /\ UNCHANGED screen
      BY <1>1, <1>6, FinishMoves DEF PageEmpty
    <2>2. TargetOf(Queue) <= cursor /\ TargetOf(Queue) \in Nat /\ cursor' = cursor
      BY <1>1, <1>3, <1>6, <2>1, PageGoesOn DEF PageEmpty, screen
    <2>3. Head(chain) <= cursor' /\ cursor <= cursor'
      BY <1>1, <1>4, <2>2
    <2>4. Display'
      BY <1>1, <2>1, DisplayKept
    <2>. QED
      BY <1>1, <1>2, <1>3, <2>1, <2>3, <2>4, AloneFinish
  <1>7. CASE PageAppend(Queue)
    <2>1. PICK to \in Frame : to = task[Queue].reply.to /\ to > cursor
      BY <1>1, <1>3, <1>7, PageGoesOn DEF PageAppend
    <2>2. cursor' = to /\ UNCHANGED <<base, previews>> /\ AppendFrames(cursor + 1, to)
      BY <1>3, <1>7, <2>1 DEF PageAppend
    <2>3. to \in Nat /\ to >= cursor
      BY <1>1, <2>1 DEF Frame
    <2>4. Display'
      BY <1>1, <2>2, <2>3, DisplayAppended
    <2>5. TargetOf(Queue) \in Nat
      BY <1>1, PageGoesOn
    <2>6. CASE cursor' >= TargetOf(Queue) /\ Finish(Queue)
      <3>1. task'[Queue].pc = "idle" /\ chain' = Tail(chain)
        BY <1>1, <2>6, FinishMoves
      <3>2. Head(chain) <= cursor' /\ cursor <= cursor'
        BY <1>1, <1>4, <2>2, <2>3, <2>5, <2>6
      <3>. QED
        BY <1>1, <1>2, <1>3, <2>4, <3>1, <3>2, AloneFinish
    <2>7. ASSUME chain' = chain
          PROVE  LastIsComing'
      <3>1. arrived \in Nat
        BY <1>1 DEF TypeOK
      <3>. QED
        BY <1>1, <1>2, <2>2, <2>3, <2>7, <3>1 DEF LastIsComing
    <2>8. CASE ReadSnapshot(Queue)
      <3>1. task'[Queue].pc = "snapshot" /\ chain' = chain
        BY <1>1, <2>8, ReadSnapshotMoves
      <3>2. QueueGoesOn'
        BY <3>1 DEF QueueGoesOn
      <3>. QED
        BY <2>4, <2>7, <3>1, <3>2 DEF AloneInv
    <2>9. CASE /\ chain' = chain /\ task'[Queue].pc = "delta"
               /\ task'[Queue].cursor = cursor' /\ task'[Queue].target = TargetOf(Queue)
      <3>1. QueueGoesOn'
        BY <1>4, <2>9 DEF QueueGoesOn
      <3>. QED
        BY <2>4, <2>7, <2>9, <3>1 DEF AloneInv
    <2>. QED
      BY <1>1, <1>7, <2>6, <2>8, <2>9, PageAppendMoves
  <1>. QED
    BY <1>5, <1>6, <1>7

LEMMA AloneContent ==
  ASSUME AloneInv, Content(Queue), General'
  PROVE  AloneInv'
  <1>1. /\ General /\ QueueGoesOn /\ TypeOK /\ QueueWorks /\ TaskFits(Queue)
        /\ Queue \in Tasks /\ task[Queue].pc = "content"
    BY DEF AloneInv, General, Tasks, Content
  <1>2. PICK lo \in Frame, hi \in Frame, at \in Nat :
          /\ at = task[Queue].reply.seq
          /\ task[Queue].frames = lo..hi /\ lo <= at /\ at <= hi
    BY <1>1, TaskFields DEF TaskFits, SnapshotFits
  <1>3. ApplySnapshot(lo..hi, at) /\ Finish(Queue) /\ arrived' = arrived /\ failed' = failed
    BY <1>2 DEF Content
  <1>4. Display' /\ cursor' = at
    BY <1>2, <1>3, DisplayReset, SnapshotShows
  <1>5. task'[Queue].pc = "idle" /\ chain # <<>> /\ chain' = Tail(chain)
    BY <1>1, <1>3, FinishMoves
  <1>6. cursor <= cursor' /\ Head(chain) <= cursor'
    BY <1>1, <1>2, <1>4 DEF QueueGoesOn
  <1>. QED
    BY <1>1, <1>3, <1>4, <1>5, <1>6, AloneFinish

LEMMA AloneFails ==
  ASSUME AloneInv, RequestFails(Queue), General'
  PROVE  AloneInv'
  <1>1. General /\ Display /\ TypeOK /\ QueueWorks /\ Queue \in Tasks
    BY DEF AloneInv, General, Tasks
  <1>2. failed' /\ arrived' = arrived /\ UNCHANGED screen
    BY DEF RequestFails
  <1>3. task'[Queue].pc = "idle" /\ chain # <<>> /\ chain' = Tail(chain)
    BY <1>1, FailMoves
  <1>. QED
    BY <1>1, <1>2, <1>3, DisplayKept, AloneFinish

LEMMA AloneNext ==
  ASSUME Recovery = {}, AloneInv, [Next]_vars
  PROVE  AloneInv'
  <1>1. General /\ General' /\ Tasks = {Queue}
    BY GeneralNext DEF AloneInv, Tasks
  <1>2. CASE UNCHANGED <<screen, chain, task, arrived, failed>>
    <2>1. QueueGoesOn' /\ LastIsComing'
      BY <1>2 DEF AloneInv, QueueGoesOn, LastIsComing, screen
    <2>. QED
      BY <1>1, <1>2, <2>1, DisplayKept DEF AloneInv
  <1>3. CASE UNCHANGED vars \/ HostAbsorb \/ HostTick \/ HostHidden \/ HostShow
    BY <1>2, <1>3 DEF vars, HostAbsorb, HostTick, HostHidden, HostShow, renderer
  <1>4. CASE Output \/ ChainStep
    BY <1>1, <1>4, AloneOutput, AloneChainStep
  <1>5. CASE Answer(Queue) \/ Resume(Queue) \/ RequestFails(Queue)
    <2>1. ~Shown(Queue)
      BY DEF AloneInv, QueueGoesOn, Shown
    <2>. QED
      BY <1>1, <1>5, <2>1, AloneAnswer, AlonePages, AloneContent, AloneFails DEF Resume
  <1>. QED
    BY <1>1, <1>3, <1>4, <1>5 DEF Next

LEMMA AloneInit == Init => AloneInv
  <1>. SUFFICES ASSUME Init
                PROVE  AloneInv
    OBVIOUS
  <1>1. General
    BY GeneralInit
  <1>2. task[Queue].pc = "idle"
    BY IdleFields DEF Init, Tasks
  <1>3. QueueGoesOn
    BY <1>2 DEF QueueGoesOn
  <1>4. \A n \in Frame : shown[n] = 0 /\ n \notin previews /\ n \in Nat /\ n > 0
    BY DEF Init, Frame
  <1>5. Display /\ LastIsComing
    BY <1>4 DEF Init, Display, BeyondIsPreviewed, ShownAtMost, NothingIsSkipped, LastIsComing
  <1>. QED
    BY <1>1, <1>3, <1>5 DEF AloneInv

\* Where no recovery runs beside the chain, the chain shows every frame once, as ShownOnce
\* says: only a frame that a snapshot previewed comes a second time, and once all has come
\* to rest, nothing is missing up to the last event that arrived.
THEOREM ShownOnceCorrect ==
  ASSUME Recovery = {}
  PROVE  Spec => [](ShownOnce /\ NothingIsSkipped)
  <1>1. AloneInv /\ [Next]_vars => AloneInv'
    BY AloneNext
  <1>2. AloneInv => ShownOnce /\ NothingIsSkipped
    <2>. SUFFICES ASSUME AloneInv
                  PROVE  ShownOnce /\ NothingIsSkipped
      OBVIOUS
    <2>1. /\ BeyondIsPreviewed /\ ShownAtMost /\ NothingIsSkipped /\ LastIsComing
          /\ base \in Nat /\ base > 0 /\ cursor \in Nat /\ arrived \in 0..MaxSeq
      BY BoundsAssumption DEF AloneInv, Display, General, TypeOK
    <2>2. \A n \in Frame : n > cursor => shown[n] = 0 \/ n \in previews
      BY <2>1 DEF BeyondIsPreviewed
    <2>3. ASSUME Quiet, ~failed
          PROVE  \A n \in base..arrived : shown[n] > 0
      <3>1. arrived <= cursor
        BY <2>1, <2>3 DEF LastIsComing, Quiet
      <3>. QED
        BY <2>1, <3>1, BoundsAssumption DEF NothingIsSkipped, Frame
    <2>. QED
      BY <2>1, <2>2, <2>3 DEF ShownOnce, ShownAtMost
  <1>. QED
    BY <1>1, <1>2, AloneInit, PTL DEF Spec
-----------------------------------------------------------------------------
(* Any recoveries, while the host still holds all that a page may need.    *)

LEMMA PagesMultiply ==
  ASSUME NEW p \in Nat \ {0}, NEW m \in Nat
  PROVE  /\ (p - 1) * m \in Nat /\ p * m \in Nat
         /\ (p - 1) * m + m = p * m /\ (p + 1 - 1) * m = p * m
  OBVIOUS

ShownGrows == \A n \in Frame : shown'[n] >= shown[n]

LEMMA ShownStays ==
  ASSUME TypeOK, UNCHANGED shown
  PROVE  ShownGrows
  BY DEF TypeOK, ShownGrows

LEMMA RoomyTask ==
  ASSUME RoomyInv, General', NEW t \in Tasks, OthersStay(t), TaskIsCovered(t)',
         ShownGrows, NothingIsSkipped', base' = base
  PROVE  RoomyInv'
  <1>1. \A n \in Frame : shown[n] \in Nat /\ shown'[n] \in Nat
    BY DEF RoomyInv, General, TypeOK
  <1>2. \A u \in Tasks : TaskIsCovered(u)'
    <2>. TAKE u \in Tasks
    <2>1. CASE u = t
      BY <2>1
    <2>2. CASE u # t
      <3>1. TaskIsCovered(u) /\ task'[u] = task[u]
        BY <2>2 DEF RoomyInv, OthersStay
      <3>2. ASSUME task[u].pc \in {"delta", "page"}, NEW n \in Frame, n <= task[u].cursor
            PROVE  shown'[n] > 0
        BY <1>1, <3>1, <3>2 DEF TaskIsCovered, ShownGrows
      <3>. QED
        BY <3>1, <3>2 DEF TaskIsCovered
    <2>. QED
      BY <2>1, <2>2
  <1>. QED
    BY <1>2 DEF RoomyInv

\* A step that takes no request further and shows what comes next, or nothing.
LEMMA RoomyQuiet ==
  ASSUME RoomyInv, General', UNCHANGED task, ShownGrows, NothingIsSkipped', base' = base
  PROVE  RoomyInv'
  <1>1. Queue \in Tasks
    BY DEF Tasks
  <1>2. OthersStay(Queue)
    BY DEF RoomyInv, General, TypeOK, OthersStay
  <1>3. TaskIsCovered(Queue)'
    <2>1. TaskIsCovered(Queue) /\ \A n \in Frame : shown[n] \in Nat /\ shown'[n] \in Nat
      BY <1>1 DEF RoomyInv, General, TypeOK
    <2>2. ASSUME task[Queue].pc \in {"delta", "page"}, NEW n \in Frame, n <= task[Queue].cursor
          PROVE  shown'[n] > 0
      BY <2>1, <2>2 DEF TaskIsCovered, ShownGrows
    <2>. QED
      BY <2>1, <2>2 DEF TaskIsCovered
  <1>. QED
    BY <1>1, <1>2, <1>3, RoomyTask

\* Frames are appended after those that are shown.
LEMMA AppendedIsShown ==
  ASSUME General, NEW after \in Nat, NEW to \in Frame, AppendFrames(after + 1, to),
         \A n \in Frame : n <= after => shown[n] > 0
  PROVE  /\ ShownGrows
         /\ \A n \in Frame : n <= to => shown'[n] > 0
  <1>1. TypeOK /\ to \in Nat /\ \A n \in Frame : n \in Nat
    BY DEF General, Frame
  <1>2. \A n \in Frame : shown[n] \in Nat
    BY <1>1 DEF TypeOK
  <1>3. \A n \in Frame : shown'[n] = (IF n \in (after + 1)..to THEN shown[n] + 1 ELSE shown[n])
    BY <1>1, AppendFramesShows
  <1>4. \A n \in Frame : n \in (after + 1)..to <=> (after < n /\ n <= to)
    BY <1>1
  <1>. QED
    BY <1>1, <1>3, <1>4, <1>2 DEF ShownGrows

LEMMA RoomyAppendFrame ==
  ASSUME RoomyInv, General', NEW n \in Frame, n = cursor + 1, AppendFrame(n), UNCHANGED task
  PROVE  RoomyInv'
  <1>1. /\ General /\ cursor \in Nat /\ base = 1
        /\ cursor' = n /\ base' = base /\ AppendFrames(cursor + 1, n)
    BY DEF RoomyInv, General, TypeOK, AppendFrame
  <1>2. \A m \in Frame : m <= cursor => shown[m] > 0
    BY <1>1 DEF RoomyInv, NothingIsSkipped, Frame
  <1>3. ShownGrows /\ \A m \in Frame : m <= n => shown'[m] > 0
    BY <1>1, <1>2, AppendedIsShown
  <1>4. NothingIsSkipped'
    BY <1>1, <1>3 DEF NothingIsSkipped
  <1>. QED
    BY <1>1, <1>3, <1>4, RoomyQuiet

LEMMA RoomyKept ==
  ASSUME RoomyInv, General', UNCHANGED <<screen, task>>
  PROVE  RoomyInv'
  <1>1. TypeOK /\ UNCHANGED <<cursor, shown, base>>
    BY DEF RoomyInv, General, screen
  <1>2. NothingIsSkipped'
    BY <1>1 DEF RoomyInv, NothingIsSkipped
  <1>. QED
    BY <1>1, <1>2, ShownStays, RoomyQuiet

LEMMA RoomyStart ==
  ASSUME RoomyInv, General', NEW t \in Tasks, NEW n \in Nat, NEW thenShow \in BOOLEAN,
         Start(t, cursor, n, thenShow), UNCHANGED screen
  PROVE  RoomyInv'
  <1>1. /\ TypeOK /\ cursor \in Nat /\ base = 1 /\ UNCHANGED <<cursor, shown, base>>
        /\ PageMax \in Nat /\ PageLimit \in Nat \ {0}
    BY BoundsAssumption DEF RoomyInv, General, TypeOK, screen
  <1>2. /\ OthersStay(t) /\ task'[t].pc = "delta" /\ task'[t].cursor = cursor
        /\ task'[t].page = 1
    BY <1>1, StartMoves
  <1>3. \A m \in Frame : m <= cursor => shown[m] > 0
    BY <1>1 DEF RoomyInv, NothingIsSkipped, Frame
  <1>4. 1 \in 1..PageLimit /\ (1 - 1) * PageMax <= cursor
    BY <1>1
  <1>5. TaskIsCovered(t)'
    BY <1>1, <1>2, <1>3, <1>4 DEF TaskIsCovered
  <1>6. NothingIsSkipped'
    BY <1>1 DEF RoomyInv, NothingIsSkipped
  <1>. QED
    BY <1>1, <1>2, <1>5, <1>6, ShownStays, RoomyTask

LEMMA RoomyAnswer ==
  ASSUME Roomy, RoomyInv, General', NEW t \in Tasks, Answer(t)
  PROVE  RoomyInv'
  <1>1. /\ General /\ TypeOK /\ WaitingIsVisible /\ TaskFits(t) /\ TaskIsCovered(t)
        /\ UNCHANGED screen
    BY DEF RoomyInv, General, Answer
  <1>2. UNCHANGED <<cursor, shown, base>>
    BY <1>1 DEF screen
  <1>3. OthersStay(t)
    BY <1>1, AnswerMoves
  <1>4. TaskIsCovered(t)'
    <2>1. CASE /\ task[t].pc = "delta" /\ task'[t].pc = "page"
               /\ task'[t].cursor = task[t].cursor /\ task'[t].page = task[t].page
               /\ task'[t].reply = DeltaPage(task[t].cursor)
      <3>1. PICK page \in Page : page = DeltaPage(task[t].cursor)
        BY <1>1, TaskFields, PageProperties
      <3>2. ~page.gap /\ (page.truncated => page.to = task[t].cursor + PageMax)
        BY <1>1, <3>1, TaskFields, PageProperties DEF Roomy
      <3>3. ~task'[t].reply.gap
            /\ (task'[t].reply.truncated => task'[t].reply.to = task'[t].cursor + PageMax)
        BY <2>1, <3>1, <3>2
      <3>. QED
        BY <1>1, <1>2, <2>1, <3>3 DEF TaskIsCovered
    <2>2. CASE task'[t].pc = "shown"
      BY <2>2 DEF TaskIsCovered
    <2>. QED
      BY <1>1, <2>1, <2>2, AnswerMoves DEF TaskIsCovered
  <1>5. NothingIsSkipped'
    BY <1>2 DEF RoomyInv, NothingIsSkipped
  <1>. QED
    BY <1>1, <1>2, <1>3, <1>4, <1>5, ShownStays, RoomyTask

\* A request that is over leaves nothing to cover.
LEMMA RoomyFinish ==
  ASSUME RoomyInv, General', NEW t \in Tasks, OthersStay(t), task'[t].pc \in {"idle", "show"},
         ShownGrows, NothingIsSkipped', base' = base
  PROVE  RoomyInv'
  <1>1. TaskIsCovered(t)'
    BY DEF TaskIsCovered
  <1>. QED
    BY <1>1, RoomyTask

LEMMA RoomyPageAppend ==
  ASSUME Roomy, RoomyInv, General', NEW t \in Tasks, PageAppend(t)
  PROVE  RoomyInv'
  <1>1. /\ General /\ TypeOK /\ QueueWorks /\ TaskIsCovered(t) /\ TaskFits(t) /\ base = 1
        /\ task[t].pc = "page" /\ task[t].pc # "idle"
        /\ seq \in Nat /\ seq <= MaxSeq /\ MaxSeq \in Nat
        /\ PageMax \in Nat \ {0} /\ PageLimit \in Nat \ {0}
    BY BoundsAssumption DEF RoomyInv, General, TypeOK, PageAppend
  <1>2. PICK after \in Nat, to \in Frame, page \in 1..PageLimit :
          /\ after = task[t].cursor /\ to = task[t].reply.to /\ page = task[t].page
          /\ to > after
    BY <1>1, TaskFields, PageGoesOn DEF PageAppend, TaskIsCovered
  <1>3. /\ (page - 1) * PageMax <= after /\ \A n \in Frame : n <= after => shown[n] > 0
        /\ task[t].reply.truncated => to = after + PageMax
    BY <1>1, <1>2 DEF TaskIsCovered
  <1>4. /\ AppendFrames(after + 1, to) /\ cursor' = to /\ base' = base
    BY <1>2 DEF PageAppend
  <1>5. ShownGrows /\ \A n \in Frame : n <= to => shown'[n] > 0
    BY <1>1, <1>3, <1>4, AppendedIsShown
  <1>6. NothingIsSkipped'
    BY <1>4, <1>5 DEF NothingIsSkipped
  <1>7. CASE Finish(t)
    <2>1. OthersStay(t) /\ task'[t].pc \in {"idle", "show"}
      BY <1>1, <1>7, FinishMoves
    <2>. QED
      BY <1>4, <1>5, <1>6, <2>1, RoomyFinish
  \* The limit of pages is beyond the last frame.
  <1>8. ASSUME cursor' < TargetOf(t), ~task[t].reply.truncated \/ task[t].page = PageLimit
        PROVE  FALSE
    <2>1. to < task[t].reply.seq /\ task[t].reply.seq <= MaxSeq /\ task[t].reply.seq \in Nat
      BY <1>1, <1>2, <1>4, <1>8, PageGoesOn
    <2>2. task[t].reply.truncated
      BY <1>1, <1>2, <2>1 DEF TaskFits, PageFits
    <2>3. page = PageLimit /\ to = after + PageMax
      BY <1>2, <1>3, <1>8, <2>2
    <2>4. (PageLimit - 1) * PageMax + PageMax = PageLimit * PageMax
          /\ (PageLimit - 1) * PageMax \in Nat /\ PageLimit * PageMax \in Nat
      BY <1>1, PagesMultiply
    <2>5. (PageLimit - 1) * PageMax <= after
      BY <1>3, <2>3
    <2>6. MaxSeq <= PageLimit * PageMax
      BY DEF Roomy
    <2> DEFINE before == (PageLimit - 1) * PageMax
               all == PageLimit * PageMax
    <2>7. before + PageMax = all /\ before \in Nat /\ all \in Nat /\ before <= after /\ MaxSeq <= all
      BY <2>4, <2>5, <2>6
    <2> HIDE DEF before, all
    <2>. QED
      BY <1>1, <2>1, <2>3, <2>7 DEF Frame
  <1>9. CASE /\ task[t].reply.truncated /\ task[t].page # PageLimit
             /\ OthersStay(t) /\ task'[t].pc = "delta"
             /\ task'[t].cursor = cursor' /\ task'[t].page = task[t].page + 1
    <2>1. to = after + PageMax /\ page + 1 \in 1..PageLimit
      BY <1>1, <1>2, <1>3, <1>9
    <2>2. (page + 1 - 1) * PageMax <= to
      <3> DEFINE before == (page - 1) * PageMax
                 now == (page + 1 - 1) * PageMax
      <3>1. before + PageMax = now /\ before \in Nat /\ now \in Nat /\ before <= after
        <4>1. page \in Nat \ {0}
          BY <1>1, <1>2
        <4>2. (page - 1) * PageMax + PageMax = page * PageMax
              /\ (page + 1 - 1) * PageMax = page * PageMax
              /\ (page - 1) * PageMax \in Nat /\ page * PageMax \in Nat
          BY <1>1, <4>1, PagesMultiply
        <4>. QED
          BY <1>3, <4>2
      <3> HIDE DEF before
      <3>2. now <= to
        <4> HIDE DEF now
        <4>. QED
          BY <1>1, <2>1, <3>1 DEF Frame
      <3>. QED
        BY <3>2
    <2>3. task'[t].cursor = to /\ task'[t].page = page + 1
      BY <1>2, <1>4, <1>9
    <2>4. TaskIsCovered(t)'
      BY <1>5, <1>9, <2>1, <2>2, <2>3 DEF TaskIsCovered
    <2>. QED
      BY <1>4, <1>5, <1>6, <1>9, <2>4, RoomyTask
  <1>. QED
    BY <1>1, <1>7, <1>8, <1>9, PageAppendMoves

LEMMA RoomyNext ==
  ASSUME Roomy, RoomyInv, [Next]_vars
  PROVE  RoomyInv'
  <1>1. General /\ General' /\ TypeOK /\ QueueWorks
    BY GeneralNext DEF RoomyInv, General
  <1>2. CASE UNCHANGED <<screen, task>>
    BY <1>1, <1>2, RoomyKept
  <1>3. CASE UNCHANGED vars \/ HostAbsorb \/ HostTick \/ HostHidden \/ HostShow
    BY <1>2, <1>3 DEF vars, HostAbsorb, HostTick, HostHidden, HostShow, renderer
  <1>4. CASE Output
    <2>1. PICK n \in Frame : n = Head(events)
      BY <1>1, <1>4, TailFacts DEF Output, TypeOK
    <2>. QED
      BY <1>1, <1>2, <1>4, <2>1, RoomyAppendFrame DEF Output, IsNext
  <1>5. CASE ChainStep
    <2>1. PICK n \in Frame : n = Head(chain) /\ n \in Nat
      BY <1>1, <1>5, HeadIsKnown DEF ChainStep, ChainReady
    <2>2. CASE Start(Queue, cursor, n, FALSE) /\ UNCHANGED screen
      BY <1>1, <2>1, <2>2, RoomyStart DEF Tasks
    <2>. QED
      BY <1>1, <1>2, <1>5, <2>1, <2>2, RoomyAppendFrame DEF ChainStep, IsNext
  <1>6. CASE \E t \in Recovery, thenShow \in BOOLEAN : Recover(t, thenShow)
    <2>1. cursor \in Nat
      BY <1>1 DEF TypeOK
    <2>. QED
      BY <1>1, <1>6, <2>1, RoomyStart DEF Recover, Tasks
  <1>7. ASSUME NEW t \in Tasks, Answer(t) \/ Resume(t) \/ RequestFails(t)
        PROVE  RoomyInv'
    <2>1. TaskIsCovered(t)
      BY DEF RoomyInv
    <2>2. ASSUME OthersStay(t), task'[t].pc \in {"idle", "show"}, UNCHANGED screen
          PROVE  RoomyInv'
      <3>1. UNCHANGED <<cursor, shown, base>>
        BY <2>2 DEF screen
      <3>2. NothingIsSkipped'
        BY <3>1 DEF RoomyInv, NothingIsSkipped
      <3>. QED
        BY <1>1, <2>2, <3>1, <3>2, ShownStays, RoomyFinish
    <2>3. CASE Answer(t)
      BY <1>1, <2>3, RoomyAnswer
    <2>4. ~PageGap(t)
      <3>1. SUFFICES ASSUME PageGap(t)
                     PROVE  FALSE
        OBVIOUS
      <3>2. task[t].pc = "page" /\ ~task[t].reply.gap
        BY <2>1, <3>1 DEF PageGap, TaskIsCovered
      <3>3. task[t].reply.to <= task[t].cursor /\ TargetOf(t) > task[t].cursor
        BY <1>1, <3>1, <3>2, PageGoesOn DEF PageGap, IsGap
      <3>. QED
        BY <1>1, <3>2, <3>3, PageGoesOn
    <2>5. CASE PageEmpty(t)
      BY <1>1, <2>2, <2>5, FinishMoves DEF PageEmpty
    <2>6. CASE PageAppend(t)
      BY <1>1, <2>6, RoomyPageAppend
    <2>7. ~Content(t)
      BY <2>1 DEF Content, TaskIsCovered
    <2>8. CASE Shown(t)
      <3>1. cursor \in Nat
        BY <1>1 DEF TypeOK
      <3>. QED
        BY <1>1, <2>8, <3>1, RoomyStart DEF Shown
    <2>9. CASE RequestFails(t)
      BY <1>1, <2>2, <2>9, FailMoves DEF RequestFails
    <2>. QED
      BY <1>7, <2>3, <2>4, <2>5, <2>6, <2>7, <2>8, <2>9 DEF Resume
  <1>. QED
    BY <1>3, <1>4, <1>5, <1>6, <1>7 DEF Next

LEMMA RoomyInit == Init => RoomyInv
  <1>. SUFFICES ASSUME Init
                PROVE  RoomyInv
    OBVIOUS
  <1>1. General
    BY GeneralInit
  <1>2. \A t \in Tasks : task[t].pc = "idle"
    BY IdleFields DEF Init
  <1>3. \A t \in Tasks : TaskIsCovered(t)
    BY <1>2 DEF TaskIsCovered
  <1>4. NothingIsSkipped /\ base = 1
    BY DEF Init, NothingIsSkipped, Frame
  <1>. QED
    BY <1>1, <1>3, <1>4 DEF RoomyInv

\* However many recoveries overlap with the chain and with each other, no frame up to the
\* cursor is passed over, as long as the host's history and the pages of one recovery
\* reach back to the session's beginning.
THEOREM NothingIsSkippedCorrect ==
  ASSUME Roomy
  PROVE  Spec => []NothingIsSkipped
  <1>1. RoomyInv /\ [Next]_vars => RoomyInv'
    BY RoomyNext
  <1>2. RoomyInv => NothingIsSkipped
    BY DEF RoomyInv
  <1>. QED
    BY <1>1, <1>2, RoomyInit, PTL DEF Spec

=============================================================================
