------------------------ MODULE TerminalFlow_proofs -------------------------
(***************************************************************************)
(* Proofs about TerminalFlow, for every value of its constants: its types, *)
(* that the recovery history is the newest frames numbered without a hole, *)
(* that a page without a gap is complete, that the frames implement        *)
(* RecoveryLog, and where every byte of the stream is: once in the frames  *)
(* or in pending_visible, in order in the events, and the last of them in  *)
(* the ring, the unread counters and the preview tail.                     *)
(***************************************************************************)
EXTENDS TerminalFlow, SequenceTheorems, WellFoundedInduction, TLAPS

-----------------------------------------------------------------------------
(* The byte operators return chunks.                                       *)

LEMMA FirstBytesProperties ==
  ASSUME NEW S, NEW s \in Seq(S), NEW n \in Nat
  PROVE  /\ FirstBytes(s, n) \in Seq(S)
         /\ Len(FirstBytes(s, n)) = MinOf(n, Len(s))
  BY SubSeqProperties, LenProperties DEF FirstBytes, MinOf

LEMMA LastBytesType ==
  ASSUME NEW S, NEW s \in Seq(S), NEW n \in Nat
  PROVE  LastBytes(s, n) \in Seq(S)
  BY SubSeqProperties, LenProperties DEF LastBytes, MinOf

LEMMA DropBytesType ==
  ASSUME NEW S, NEW s \in Seq(S), NEW n \in Nat
  PROVE  DropBytes(s, n) \in Seq(S)
  BY SubSeqProperties, LenProperties DEF DropBytes

LEMMA AppendTailType ==
  ASSUME NEW S, NEW t \in Seq(S), NEW c \in Seq(S), NEW cap \in Nat
  PROVE  AppendTail(t, c, cap) \in Seq(S)
  BY ConcatProperties, LastBytesType DEF AppendTail

LEMMA PushChunkType ==
  ASSUME NEW S, NEW r \in Seq(Seq(S)), NEW c \in Seq(S), NEW cap \in Nat
  PROVE  PushChunk(r, c, cap) \subseteq Seq(Seq(S))
<1>1. CASE c = <<>> \/ cap = 0
  BY <1>1 DEF PushChunk
<1>2. CASE ~(c = <<>> \/ cap = 0) /\ Len(c) >= cap
  BY <1>2, LastBytesType DEF PushChunk
<1>3. CASE ~(c = <<>> \/ cap = 0) /\ ~(Len(c) >= cap)
  <2> DEFINE q == Append(r, c)
  <2>1. q \in Seq(Seq(S))
    BY AppendProperties
  <2> HIDE DEF q
  <2>2. ASSUME NEW k \in 0..(Len(q) - 1), NEW b \in 0..cap
        PROVE  Cut(q, k, b) \in Seq(Seq(S))
    <3>1. q[k + 1] \in Seq(S)
      BY <2>1, LenProperties, ElementOfSeq
    <3> DEFINE front == q[k + 1]
    <3>2. DropBytes(front, b) \in Seq(S)
      <4>1. b \in Nat
        OBVIOUS
      <4> HIDE DEF front
      <4> QED
        BY <3>1, <4>1, DropBytesType DEF front
    <3>3. SubSeq(q, k + 2, Len(q)) \in Seq(Seq(S))
      BY <2>1, SubSeqProperties, LenProperties
    <3> QED
      BY <3>2, <3>3, ConcatProperties DEF Cut
  <2>3. Trim(q, cap) \subseteq Seq(Seq(S))
    BY <2>1, <2>2 DEF Trim
  <2> QED
    BY <1>3, <2>3 DEF PushChunk, q
<1> QED
  BY <1>1, <1>2, <1>3

-----------------------------------------------------------------------------
(* Types.                                                                  *)

\* A command of the channel carries what its tag says.
LEMMA CommandFields ==
  ASSUME NEW c \in Command
  PROVE  /\ c.op = "output" => c.chunk \in Chunk
         /\ c.op = "visibility" => c.subscribers \in {0, 1}
  BY DEF Command, Register, Unregister, OtherSession

LEMMA CommandTypes ==
  /\ Register \in Command /\ Unregister \in Command
  /\ OtherSession \in Command
  /\ \A c \in Chunk : OutputChunk(c) \in Command
  /\ \A n \in {0, 1} : SetVisibility(n) \in Command
  BY DEF Command, OutputChunk, SetVisibility

LEMMA SendType ==
  ASSUME TypeOK, NEW c \in Command, HasRoom, Send(c)
  PROVE  queue' \in Seq(Command) /\ Len(queue') <= QueueCap
  BY AppendProperties, BoundsAssumption DEF TypeOK, HasRoom, Send

LEMMA ReceiveType ==
  ASSUME TypeOK, NEW op, Receive(op)
  PROVE  /\ queue' \in Seq(Command) /\ Len(queue') <= QueueCap
         /\ Head(queue) \in Command
  BY HeadTailProperties, BoundsAssumption DEF TypeOK, Receive

LEMMA NextFrameType ==
  ASSUME TypeOK, NEW chunk \in Chunk, NextFrame(chunk)
  PROVE  seq' \in Nat /\ frames' \in Seq(Frame) /\ log' \in Seq(Chunk)
<1> DEFINE f == [seq |-> seq + 1, chunk |-> chunk]
           pushed == Append(frames, f)
<1>1. f \in Frame
  BY DEF Frame, TypeOK
<1>2. pushed \in Seq(Frame)
  BY <1>1, AppendProperties DEF TypeOK
<1> HIDE DEF pushed
<1>3. PICK k \in 0..Len(pushed) : frames' = SubSeq(pushed, k + 1, Len(pushed))
  BY DEF NextFrame, PushFrame, pushed, f
<1>4. frames' \in Seq(Frame)
  BY <1>2, <1>3, SubSeqProperties, LenProperties
<1> QED
  BY <1>4, AppendProperties DEF NextFrame, TypeOK

THEOREM TypeCorrect == Spec => []TypeOK
<1>1. Init => TypeOK
  <2>1. <<>> \in Seq(Byte) /\ <<>> \in Seq(Chunk) /\ <<>> \in Seq(Frame)
        /\ <<>> \in Seq(Command) /\ Len(<<>>) = 0
    OBVIOUS
  <2> SUFFICES ASSUME Init PROVE TypeOK
    OBVIOUS
  <2>2. /\ creator \in {"idle", "registered", "done", "failed"}
        /\ child \in {"none", "alive", "dead"}
        /\ reader \in {"none", "reading", "unregistered", "exited"}
        /\ killer \in {"idle", "unregistered", "done"}
        /\ listed \in BOOLEAN /\ registered \in BOOLEAN
    BY DEF Init
  <2>3. /\ produced \in 0..MaxBytes /\ Len(queue) <= QueueCap
        /\ subscribers \in {0, 1} /\ unreadBytes \in Nat /\ unreadChunks \in Nat
        /\ seq \in Nat /\ absorbed \in Nat
    BY <2>1, BoundsAssumption DEF Init, FlowDefault
  <2>4. /\ queue \in Seq(Command) /\ ring \in Seq(Chunk) /\ frames \in Seq(Frame)
        /\ pending \in Chunk /\ tail \in Chunk /\ log \in Seq(Chunk)
        /\ outputs \in Seq(Frame)
    BY <2>1 DEF Init, FlowDefault, Chunk
  <2> QED
    BY <2>2, <2>3, <2>4 DEF TypeOK
<1>2. TypeOK /\ [Next]_vars => TypeOK'
  <2> SUFFICES ASSUME TypeOK, [Next]_vars PROVE TypeOK'
    OBVIOUS
  <2> USE BoundsAssumption
  <2>1. CASE CreateRegister
    BY <2>1, SendType, CommandTypes DEF CreateRegister, TypeOK, flow, history, hiddenVars
  <2>2. CASE CreateFail
    BY <2>2 DEF CreateFail, TypeOK, flow, history, hiddenVars
  <2>3. CASE CreateInsert
    BY <2>3 DEF CreateInsert, TypeOK, flow, history, hiddenVars
  <2>4. ASSUME NEW n \in 1..ReadMax, Read(n) PROVE TypeOK'
    <3> DEFINE c == [i \in 1..n |-> produced + i]
    <3>1. c \in Chunk
      <4>1. c \in [1..n -> Byte]
        BY <2>4 DEF Read, TypeOK, Byte
      <4>2. c \in Seq(Byte)
        BY <4>1, SeqDef
      <4> QED
        BY <4>2 DEF Chunk
    <3> HIDE DEF c
    <3>2. Send(OutputChunk(c)) /\ HasRoom
      BY <2>4 DEF Read, c
    <3>3. queue' \in Seq(Command) /\ Len(queue') <= QueueCap
      BY <3>1, <3>2, SendType, CommandTypes
    <3>4. produced' \in 0..MaxBytes
      BY <2>4 DEF Read, TypeOK
    <3> QED
      BY <2>4, <3>3, <3>4 DEF Read, TypeOK, provider, flow, history, hiddenVars
  <2>5. CASE EofUnregister
    BY <2>5, SendType, CommandTypes DEF EofUnregister, TypeOK, flow, history, hiddenVars
  <2>6. CASE ReaderRemove
    BY <2>6 DEF ReaderRemove, TypeOK, flow, history, hiddenVars
  <2>7. CASE ChildExit
    BY <2>7 DEF ChildExit, TypeOK, flow, history, hiddenVars
  <2>8. CASE KillUnregister
    <3>1. queue' \in Seq(Command) /\ Len(queue') <= QueueCap
      BY <2>8, SendType, CommandTypes DEF KillUnregister, TypeOK
    <3> QED
      BY <2>8, <3>1 DEF KillUnregister, TypeOK, flow, history, hiddenVars
  <2>9. CASE KillChild
    BY <2>9 DEF KillChild, TypeOK, flow, history, hiddenVars
  <2>10. ASSUME NEW n \in {0, 1}, RequestVisibility(n) PROVE TypeOK'
    <3>1. queue' \in Seq(Command) /\ Len(queue') <= QueueCap
      BY <2>10, SendType, CommandTypes DEF RequestVisibility
    <3> QED
      BY <2>10, <3>1 DEF RequestVisibility, TypeOK, provider, flow, history, hiddenVars
  <2>11. CASE OtherCommand
    BY <2>11, SendType, CommandTypes DEF OtherCommand, TypeOK, provider, flow, history, hiddenVars
  <2>12. CASE MuxRegister
    BY <2>12, ReceiveType DEF MuxRegister, Receive, TypeOK, provider, history, hiddenVars
  <2>13. CASE MuxUnregister
    <3>1. queue' \in Seq(Command) /\ Len(queue') <= QueueCap
      BY <2>13, ReceiveType DEF MuxUnregister
    <3> QED
      BY <2>13, <3>1, EmptySeq DEF MuxUnregister, Receive, TypeOK, provider, Chunk
  <2>14. CASE MuxOutput
    <3> DEFINE c == Head(queue).chunk
    <3>1. c \in Chunk
      BY <2>14, ReceiveType, CommandFields DEF MuxOutput, Receive
    <3>2. queue' \in Seq(Command) /\ Len(queue') <= QueueCap
      BY <2>14, ReceiveType DEF MuxOutput
    <3> HIDE DEF c
    <3>3. AbsorbOutput(c)
      BY <2>14 DEF MuxOutput, c
    <3>4. ring' \in Seq(Chunk)
      BY <3>1, <3>3, PushChunkType DEF AbsorbOutput, TypeOK, Chunk
    <3>5. absorbed' \in Nat
      BY <3>1, <3>3, LenProperties DEF AbsorbOutput, TypeOK, Chunk
    <3>6. /\ pending' \in Chunk /\ unreadBytes' \in Nat /\ unreadChunks' \in Nat
          /\ tail' \in Chunk /\ seq' \in Nat /\ frames' \in Seq(Frame)
          /\ log' \in Seq(Chunk)
      <4>1. CASE AbsorbVisible(c)
        BY <3>1, <4>1, ConcatProperties DEF AbsorbVisible, TypeOK, hiddenVars, Chunk
      <4>2. CASE AbsorbHidden(c)
        <5>1. tail' \in Chunk
          BY <3>1, <4>2, AppendTailType DEF AbsorbHidden, TypeOK, Chunk
        <5>2. unreadBytes' \in Nat /\ unreadChunks' \in Nat
          BY <3>1, <4>2, LenProperties DEF AbsorbHidden, TypeOK, Chunk
        <5> QED
          BY <3>1, <4>2, <5>1, <5>2, NextFrameType DEF AbsorbHidden, TypeOK
      <4> QED
        BY <3>3, <4>1, <4>2 DEF AbsorbOutput
    <3> QED
      BY <2>14, <3>2, <3>3, <3>4, <3>5, <3>6
      DEF MuxOutput, Receive, AbsorbOutput, TypeOK, provider
  <2>15. CASE MuxVisibility
    <3>1. subscribers' \in {0, 1}
      BY <2>15, ReceiveType, CommandFields DEF MuxVisibility, Receive, SetVisible
    <3>2. queue' \in Seq(Command) /\ Len(queue') <= QueueCap
      BY <2>15, ReceiveType DEF MuxVisibility
    <3>3. unreadBytes' \in Nat /\ unreadChunks' \in Nat /\ tail' \in Chunk
      <4>1. <<>> \in Chunk
        BY DEF Chunk
      <4>2. CASE Head(queue).subscribers > 0
        BY <2>15, <4>1, <4>2 DEF MuxVisibility, SetVisible
      <4>3. CASE ~(Head(queue).subscribers > 0)
        BY <2>15, <4>3 DEF MuxVisibility, SetVisible, TypeOK, hiddenVars
      <4> QED
        BY <4>2, <4>3
    <3> QED
      BY <2>15, <3>1, <3>2, <3>3
      DEF MuxVisibility, Receive, SetVisible, TypeOK, provider, history
  <2>16. CASE MuxIgnore
    <3>1. queue' \in Seq(Command) /\ Len(queue') <= QueueCap
      BY <2>16, ReceiveType DEF MuxIgnore
    <3> QED
      BY <2>16, <3>1 DEF MuxIgnore, Receive, TypeOK, provider, flow, history, hiddenVars
  <2>17. CASE OutputTick
    <3>1. TakeVisibleBatch \in Chunk /\ Len(TakeVisibleBatch) \in Nat
      BY FirstBytesProperties, LenProperties DEF TakeVisibleBatch, TypeOK, Chunk
    <3> DEFINE b == TakeVisibleBatch
    <3>2. pending' \in Chunk
      BY <2>17, <3>1, DropBytesType DEF OutputTick, TypeOK, Chunk
    <3>3. seq' \in Nat /\ frames' \in Seq(Frame) /\ log' \in Seq(Chunk)
      BY <2>17, <3>1, NextFrameType DEF OutputTick
    <3>4. outputs' \in Seq(Frame)
      <4>1. [seq |-> seq + 1, chunk |-> b] \in Frame
        BY <3>1 DEF Frame, TypeOK
      <4> HIDE DEF b
      <4>2. outputs' = Append(outputs, [seq |-> seq + 1, chunk |-> b])
        BY <2>17 DEF OutputTick, b
      <4> QED
        BY <4>1, <4>2, AppendProperties DEF TypeOK
    <3> QED
      BY <2>17, <3>2, <3>3, <3>4 DEF OutputTick, TypeOK, provider, hiddenVars
  <2>18. CASE HiddenMetaTick
    BY <2>18, EmptySeq DEF HiddenMetaTick, TypeOK, provider, history, Chunk
  <2>19. CASE UNCHANGED vars
    BY <2>19 DEF vars, provider, flow, hiddenVars, history, TypeOK
  <2> QED
    BY <2>1, <2>2, <2>3, <2>4, <2>5, <2>6, <2>7, <2>8, <2>9, <2>10, <2>11, <2>12,
       <2>13, <2>14, <2>15, <2>16, <2>17, <2>18, <2>19 DEF Next, Mux
<1> QED
  BY <1>1, <1>2, PTL DEF Spec

-----------------------------------------------------------------------------
(* The recovery history.  That its newest frame is never evicted needs the *)
(* size of every frame: a hidden chunk is what the reader put in the       *)
(* channel, at most ReadMax, and a batch is at most EventMax.              *)

ChunksFit ==
  \A i \in 1..Len(queue) :
    queue[i].op = "output" => Len(queue[i].chunk) \in 1..ReadMax

HistoryInv == TypeOK /\ ChunksFit /\ HistoryIsNewest

LEMMA SizeOfOne ==
  ASSUME NEW S, NEW c \in Seq(S)
  PROVE  Size([i \in 1..1 |-> c]) = Len(c)
<1> DEFINE s == [i \in 1..1 |-> c]
<1>1. Len(s) = 1 /\ s[1] = c
  <2>1. s \in Seq(Seq(S))
    BY SeqDef
  <2> QED
    BY <2>1, LenProperties
<1>2. FlattenSeq(s) = c
  <2> DEFINE f == [i \in 1..1 |-> c]
             Joins(g) ==
               g = [i \in 1..Len(s) |-> IF i = 1 THEN s[i] ELSE g[i - 1] \o s[i]]
  <2>1. Joins(f)
    BY <1>1
  <2>2. \A g : Joins(g) => g[1] = c
    BY <1>1
  <2> HIDE DEF s
  <2>3. FlattenSeq(s) = (CHOOSE g : Joins(g))[1]
    BY <1>1 DEF FlattenSeq
  <2>4. Joins(CHOOSE g : Joins(g))
    BY <2>1
  <2> QED
    BY <2>2, <2>3, <2>4
<1> QED
  BY <1>2 DEF Size

\* A frame that fits is pushed with the number after seq and is not evicted.
LEMMA PushFrameKeepsNewest ==
  ASSUME TypeOK, HistoryIsNewest, NEW chunk \in Chunk, Len(chunk) <= RingCap,
         NextFrame(chunk)
  PROVE  HistoryIsNewest'
<1> DEFINE f == [seq |-> seq + 1, chunk |-> chunk]
           pushed == Append(frames, f)
           n == Len(pushed)
           bytes(k) == Size([i \in 1..(n - k) |-> pushed[i + k].chunk])
<1>1. f \in Frame
  BY DEF Frame, TypeOK
<1>2. /\ pushed \in Seq(Frame) /\ n = Len(frames) + 1 /\ n \in Nat
      /\ \A i \in 1..Len(frames) : pushed[i] = frames[i]
      /\ pushed[n] = f
  BY <1>1, AppendProperties, LenProperties DEF TypeOK
<1>3. PICK k \in 0..n : /\ frames' = SubSeq(pushed, k + 1, n)
                        /\ \A j \in 0..(k - 1) : bytes(j) > RingCap
  BY DEF NextFrame, PushFrame
<1>4. bytes(n - 1) = Len(chunk)
  <2>1. n - (n - 1) = 1 /\ 1 + (n - 1) = n
    BY <1>2
  <2>2. pushed[n].chunk = chunk
    BY <1>2
  <2> HIDE DEF pushed, n
  <2>3. [i \in 1..(n - (n - 1)) |-> pushed[i + (n - 1)].chunk] = [i \in 1..1 |-> chunk]
    BY <2>1, <2>2
  <2> QED
    BY <2>3, SizeOfOne DEF Chunk
<1> HIDE DEF bytes
<1>5. Len(chunk) \in Nat /\ RingCap \in Nat
  BY LenProperties, BoundsAssumption DEF Chunk
<1>6. k < n
  BY <1>2, <1>3, <1>4, <1>5
<1> HIDE DEF pushed, n
<1>7. /\ Len(frames') = n - k
      /\ \A i \in 1..(n - k) : frames'[i] = pushed[i + k]
  BY <1>2, <1>3, <1>6, SubSeqProperties
<1>8. seq \in Nat /\ Len(log) = seq /\ Len(frames) <= seq /\ Len(frames) \in Nat
  BY LenProperties DEF TypeOK, HistoryIsNewest
<1>9. /\ seq' = seq + 1 /\ Len(log') = seq + 1 /\ log'[seq + 1] = chunk
      /\ \A m \in 1..seq : log'[m] = log[m]
  BY <1>8, AppendProperties DEF NextFrame, TypeOK
<1>10. ASSUME NEW i \in 1..Len(frames')
       PROVE  /\ frames'[i].seq = seq' - Len(frames') + i
              /\ frames'[i].chunk = log'[frames'[i].seq]
  <2>1. frames'[i] = pushed[i + k] /\ i + k \in 1..n
    BY <1>2, <1>6, <1>7
  <2>2. CASE i + k = n
    <3>1. frames'[i].seq = seq + 1 /\ frames'[i].chunk = chunk
      BY <1>2, <2>1, <2>2
    <3>2. Len(frames') = i /\ i \in Nat
      BY <1>2, <1>7, <2>2
    <3> HIDE DEF f
    <3> QED
      BY <1>8, <1>9, <3>1, <3>2
  <2>3. CASE i + k # n
    <3>1. i + k \in 1..Len(frames) /\ frames'[i] = frames[i + k]
      BY <1>2, <2>1, <2>3
    <3>2. /\ frames[i + k].seq = seq - Len(frames) + (i + k)
          /\ frames[i + k].chunk = log[frames[i + k].seq]
      BY <3>1 DEF HistoryIsNewest
    <3>3. frames[i + k].seq \in 1..seq
      BY <1>8, <3>1, <3>2
    <3> QED
      BY <1>2, <1>7, <1>8, <1>9, <3>1, <3>2, <3>3
  <2> QED
    BY <2>2, <2>3
<1>11. frames' # <<>>
  BY <1>2, <1>6, <1>7
<1>12. Len(frames') <= seq'
  BY <1>2, <1>6, <1>7, <1>8, <1>9
<1> QED
  BY <1>9, <1>10, <1>11, <1>12 DEF HistoryIsNewest

LEMMA ChunksFitSend ==
  ASSUME TypeOK, ChunksFit, NEW c \in Command, Send(c),
         c.op = "output" => Len(c.chunk) \in 1..ReadMax
  PROVE  ChunksFit'
<1>1. /\ Len(queue') = Len(queue) + 1 /\ Len(queue) \in Nat
      /\ \A i \in 1..Len(queue) : queue'[i] = queue[i]
      /\ queue'[Len(queue) + 1] = c
  BY AppendProperties, LenProperties DEF TypeOK, Send
<1> QED
  BY <1>1 DEF ChunksFit

LEMMA ChunksFitReceive ==
  ASSUME TypeOK, ChunksFit, NEW op, Receive(op)
  PROVE  /\ ChunksFit'
         /\ op = "output" => Len(Head(queue).chunk) \in 1..ReadMax
<1>1. queue # <<>> /\ queue' = Tail(queue) /\ Head(queue).op = op
  BY DEF Receive
<1>2. /\ Len(queue) \in Nat \ {0} /\ Len(queue') = Len(queue) - 1
      /\ Head(queue) = queue[1]
      /\ \A i \in 1..Len(queue') : queue'[i] = queue[i + 1]
  BY <1>1, HeadTailProperties, LenProperties DEF TypeOK
<1>3. ChunksFit'
  BY <1>2 DEF ChunksFit
<1>4. op = "output" => Len(Head(queue).chunk) \in 1..ReadMax
  BY <1>1, <1>2 DEF ChunksFit
<1> QED
  BY <1>3, <1>4

LEMMA HistoryUnchanged ==
  ASSUME HistoryIsNewest, UNCHANGED <<frames, seq, log>>
  PROVE  HistoryIsNewest'
  BY DEF HistoryIsNewest

LEMMA ChunksFitUnchanged ==
  ASSUME ChunksFit, UNCHANGED queue
  PROVE  ChunksFit'
  BY DEF ChunksFit

LEMMA HistoryStep ==
  ASSUME TypeOK, ChunksFit, HistoryIsNewest, [Next]_vars
  PROVE  ChunksFit' /\ HistoryIsNewest'
<1> USE DEF flow, history, hiddenVars
<1>1. CASE CreateRegister
  BY <1>1, ChunksFitSend, CommandTypes, HistoryUnchanged DEF CreateRegister, Register
<1>2. CASE CreateFail \/ CreateInsert
  BY <1>2, ChunksFitUnchanged, HistoryUnchanged DEF CreateFail, CreateInsert
<1>3. ASSUME NEW n \in 1..ReadMax, Read(n) PROVE ChunksFit' /\ HistoryIsNewest'
  <2> DEFINE c == [i \in 1..n |-> produced + i]
  <2>1. c \in Chunk /\ Len(c) = n
    <3>1. c \in [1..n -> Byte] /\ n \in Nat
      BY <1>3, BoundsAssumption DEF Read, TypeOK, Byte
    <3>2. c \in Seq(Byte)
      BY <3>1, SeqDef
    <3> QED
      BY <3>1, <3>2, LenProperties DEF Chunk
  <2>2. Send(OutputChunk(c))
    BY <1>3 DEF Read
  <2> HIDE DEF c
  <2>3. OutputChunk(c) \in Command /\ OutputChunk(c).chunk = c
    BY <2>1, CommandTypes DEF OutputChunk
  <2>4. ChunksFit'
    BY <2>1, <2>2, <2>3, ChunksFitSend
  <2> QED
    BY <1>3, <2>4, HistoryUnchanged DEF Read
<1>4. CASE EofUnregister
  BY <1>4, ChunksFitSend, CommandTypes, HistoryUnchanged DEF EofUnregister, Unregister
<1>5. CASE ReaderRemove \/ ChildExit \/ KillChild
  BY <1>5, ChunksFitUnchanged, HistoryUnchanged DEF ReaderRemove, ChildExit, KillChild
<1>6. CASE KillUnregister
  BY <1>6, ChunksFitSend, ChunksFitUnchanged, CommandTypes, HistoryUnchanged
  DEF KillUnregister, Unregister
<1>7. ASSUME NEW n \in {0, 1}, RequestVisibility(n)
      PROVE  ChunksFit' /\ HistoryIsNewest'
  BY <1>7, ChunksFitSend, CommandTypes, HistoryUnchanged
  DEF RequestVisibility, SetVisibility
<1>8. CASE OtherCommand
  BY <1>8, ChunksFitSend, CommandTypes, HistoryUnchanged DEF OtherCommand, OtherSession
<1>9. CASE MuxRegister \/ MuxVisibility \/ MuxIgnore
  BY <1>9, ChunksFitReceive, HistoryUnchanged
  DEF MuxRegister, MuxVisibility, SetVisible, MuxIgnore
<1>10. CASE MuxUnregister
  <2>1. frames' = <<>> /\ log' = <<>> /\ seq' = 0
    BY <1>10 DEF MuxUnregister
  <2>2. HistoryIsNewest'
    BY <2>1 DEF HistoryIsNewest
  <2> QED
    BY <1>10, <2>2, ChunksFitReceive DEF MuxUnregister
<1>11. CASE MuxOutput
  <2> DEFINE c == Head(queue).chunk
  <2>1. c \in Chunk /\ Len(c) \in 1..ReadMax /\ ChunksFit'
    BY <1>11, ReceiveType, CommandFields, ChunksFitReceive DEF MuxOutput, Receive
  <2>2. AbsorbVisible(c) \/ AbsorbHidden(c)
    BY <1>11 DEF MuxOutput, AbsorbOutput
  <2> HIDE DEF c
  <2>3. CASE AbsorbVisible(c)
    BY <2>1, <2>3, HistoryUnchanged DEF AbsorbVisible
  <2>4. CASE AbsorbHidden(c)
    <3>1. Len(c) <= RingCap
      BY <2>1, BoundsAssumption, FrameFitsAssumption
    <3> QED
      BY <2>1, <2>4, <3>1, PushFrameKeepsNewest DEF AbsorbHidden
  <2> QED
    BY <2>2, <2>3, <2>4
<1>12. CASE OutputTick
  <2> DEFINE b == TakeVisibleBatch
  <2>1. b \in Chunk /\ Len(b) <= RingCap
    BY FirstBytesProperties, LenProperties, BoundsAssumption, FrameFitsAssumption
    DEF TakeVisibleBatch, TypeOK, Chunk, MinOf
  <2>2. NextFrame(b) /\ UNCHANGED queue
    BY <1>12 DEF OutputTick
  <2> HIDE DEF b
  <2> QED
    BY <2>1, <2>2, PushFrameKeepsNewest, ChunksFitUnchanged
<1>13. CASE HiddenMetaTick
  BY <1>13, ChunksFitUnchanged, HistoryUnchanged DEF HiddenMetaTick
<1>14. CASE UNCHANGED vars
  BY <1>14, ChunksFitUnchanged, HistoryUnchanged DEF vars
<1> QED
  BY <1>1, <1>2, <1>3, <1>4, <1>5, <1>6, <1>7, <1>8, <1>9, <1>10, <1>11, <1>12,
     <1>13, <1>14 DEF Next, Mux

\* However often the session is shown and hidden, the recovery history is the
\* newest frames, numbered without a hole up to the current sequence number.
THEOREM HistoryCorrect == Spec => []HistoryInv
<1>1. Init => ChunksFit /\ HistoryIsNewest
  BY DEF Init, ChunksFit, HistoryIsNewest, FlowDefault
<1>2. TypeOK /\ ChunksFit /\ HistoryIsNewest /\ [Next]_vars
        => ChunksFit' /\ HistoryIsNewest'
  BY HistoryStep
<1> QED
  BY <1>1, <1>2, TypeCorrect, PTL DEF Spec, HistoryInv

THEOREM HistoryIsNewestCorrect == Spec => []HistoryIsNewest
<1>1. HistoryInv => HistoryIsNewest
  BY DEF HistoryInv
<1> QED
  BY <1>1, HistoryCorrect, PTL

-----------------------------------------------------------------------------
(* The refinement.                                                         *)

LEMMA RecoveryStep ==
  ASSUME TypeOK, ChunksFit, HistoryIsNewest, HistoryIsNewest', [Next]_vars
  PROVE  [Recovery!Next]_(Recovery!vars)
<1> USE DEF flow, history, hiddenVars
<1> DEFINE first == seq - Len(frames) + 1
<1>1. ASSUME NEW c \in Chunk, c # <<>>, NextFrame(c)
      PROVE  Recovery!Grow
  <2>1. /\ seq \in Nat /\ Len(log) = seq /\ Len(frames) \in Nat
        /\ Len(frames') \in Nat
    BY <1>1, NextFrameType, LenProperties DEF TypeOK, HistoryIsNewest
  <2>2. /\ log' = Append(log, c) /\ Len(log') = Len(log) + 1
        /\ log'[Len(log')] = c
        /\ \A i \in 1..Len(log) : log'[i] = log[i]
        /\ log' \in Seq(Chunk)
    BY <1>1, AppendProperties DEF NextFrame, TypeOK
  <2>3. SubSeq(log', 1, Len(log)) = log
    <3> DEFINE pre == SubSeq(log', 1, Len(log))
    <3>1. /\ pre \in Seq(Chunk) /\ Len(pre) = Len(log)
          /\ \A i \in 1..Len(log) : pre[i] = log'[i]
      BY <2>1, <2>2, SubSeqProperties
    <3> HIDE DEF pre
    <3>2. pre = log
      BY <2>2, <3>1, SeqEqual DEF TypeOK
    <3> QED
      BY <3>2 DEF pre
  <2>4. Len(frames') <= Len(frames) + 1
    <3> DEFINE pushed == Append(frames, [seq |-> seq + 1, chunk |-> c])
    <3>1. [seq |-> seq + 1, chunk |-> c] \in Frame
      BY <2>1 DEF Frame
    <3>2. pushed \in Seq(Frame) /\ Len(pushed) = Len(frames) + 1
      BY <3>1, AppendProperties DEF TypeOK
    <3> HIDE DEF pushed
    <3>3. PICK k \in 0..Len(pushed) : frames' = SubSeq(pushed, k + 1, Len(pushed))
      BY <1>1 DEF NextFrame, PushFrame, pushed
    <3> QED
      BY <2>1, <3>2, <3>3, SubSeqProperties
  <2>5. seq' = seq + 1 /\ frames' # <<>> /\ Len(frames') <= seq'
    BY <1>1, <2>1 DEF NextFrame, HistoryIsNewest
  <2>6. Len(frames') > 0
    BY <1>1, <2>1, <2>5, NextFrameType, EmptySeq
  <2>7. first' \in first..Len(log')
    BY <2>1, <2>2, <2>4, <2>5, <2>6
  <2>8. log'[Len(log')] \in Seq(Byte) \ {<<>>}
    BY <1>1, <2>2 DEF Chunk
  <2> QED
    BY <2>2, <2>3, <2>7, <2>8 DEF Recovery!Grow
<1>2. CASE UNCHANGED <<frames, seq, log>>
  BY <1>2 DEF Recovery!vars
<1>3. CASE MuxUnregister
  <2>1. log' = <<>> /\ seq' = 0 /\ frames' = <<>>
    BY <1>3 DEF MuxUnregister
  <2>2. first' = 1
    BY <2>1
  <2> QED
    BY <2>1, <2>2 DEF Recovery!Next, Recovery!Close
<1>4. CASE MuxOutput
  <2> DEFINE c == Head(queue).chunk
  <2>1. c \in Chunk /\ Len(c) \in 1..ReadMax
    BY <1>4, ReceiveType, CommandFields, ChunksFitReceive DEF MuxOutput, Receive
  <2>2. AbsorbVisible(c) \/ AbsorbHidden(c)
    BY <1>4 DEF MuxOutput, AbsorbOutput
  <2>3. c # <<>>
    BY <2>1
  <2> HIDE DEF c
  <2>4. CASE AbsorbVisible(c)
    BY <1>2, <2>4 DEF AbsorbVisible
  <2>5. CASE AbsorbHidden(c)
    BY <1>1, <2>1, <2>3, <2>5 DEF AbsorbHidden, Recovery!Next
  <2> QED
    BY <2>2, <2>4, <2>5
<1>5. CASE OutputTick
  <2> DEFINE b == TakeVisibleBatch
  <2>1. pending # <<>> /\ Len(pending) \in Nat \ {0}
    BY <1>5, EmptySeq DEF OutputTick, TypeOK, Chunk
  <2>2. b \in Chunk /\ Len(b) = MinOf(EventMax, Len(pending))
    BY FirstBytesProperties, BoundsAssumption DEF TakeVisibleBatch, TypeOK, Chunk
  <2>3. b # <<>>
    BY <2>1, <2>2, BoundsAssumption DEF MinOf
  <2>4. NextFrame(b)
    BY <1>5 DEF OutputTick
  <2> HIDE DEF b
  <2> QED
    BY <1>1, <2>2, <2>3, <2>4 DEF Recovery!Next
<1>6. CASE CreateRegister \/ CreateFail \/ CreateInsert \/ ReaderRemove \/ ChildExit
           \/ KillUnregister \/ KillChild \/ EofUnregister \/ OtherCommand
  BY <1>2, <1>6 DEF CreateRegister, CreateFail, CreateInsert, ReaderRemove, ChildExit,
     KillUnregister, KillChild, EofUnregister, OtherCommand
<1>7. CASE MuxRegister \/ MuxVisibility \/ MuxIgnore \/ HiddenMetaTick
  BY <1>2, <1>7 DEF MuxRegister, MuxVisibility, SetVisible, MuxIgnore, HiddenMetaTick
<1>8. ASSUME NEW n \in 1..ReadMax, Read(n) PROVE UNCHANGED <<frames, seq, log>>
  BY <1>8 DEF Read
<1>9. ASSUME NEW n \in {0, 1}, RequestVisibility(n) PROVE UNCHANGED <<frames, seq, log>>
  BY <1>9 DEF RequestVisibility
<1>10. CASE UNCHANGED vars
  BY <1>2, <1>10 DEF vars
<1> QED
  BY <1>2, <1>3, <1>4, <1>5, <1>6, <1>7, <1>8, <1>9, <1>10 DEF Next, Mux

\* The session's frames are a recovery log.
THEOREM TerminalFlowImplementsRecoveryLog == Spec => ImplementsRecoveryLog
<1>1. Init => Recovery!Init
  BY DEF Init, FlowDefault, Recovery!Init
<1>2. HistoryInv /\ HistoryInv' /\ [Next]_vars => [Recovery!Next]_(Recovery!vars)
  BY RecoveryStep DEF HistoryInv
<1> QED
  BY <1>1, <1>2, HistoryCorrect, PTL DEF Spec, ImplementsRecoveryLog, Recovery!Spec

-----------------------------------------------------------------------------
(* Recovery pages.                                                         *)

LEMMA LeastNat ==
  ASSUME NEW T, T \subseteq Nat, T # {}
  PROVE  \E m \in T : \A j \in T : m <= j
<1>1. PICK m \in T : \A j \in T : ~(<<j, m>> \in OpToRel(<, Nat))
  BY NatLessThanWellFounded, WFMin
<1>2. ASSUME NEW j \in T PROVE m <= j
  <2>1. m \in Nat /\ j \in Nat /\ <<j, m>> \in Nat \X Nat
    OBVIOUS
  <2>2. ~(<<j, m>>[1] < <<j, m>>[2])
    BY <1>1, <2>1 DEF OpToRel
  <2> QED
    BY <2>1, <2>2
<1> QED
  BY <1>2

\* read_delta answers every request.
LEMMA DeltaAnswers ==
  ASSUME TypeOK, HistoryIsNewest, NEW after \in 0..seq, NEW max \in Nat
  PROVE  ReadDelta(after, max) # {}
<1> DEFINE n == Len(frames)
           old == seq - n
           bytes(lo, hi) == Size([i \in 1..(hi - lo + 1) |-> frames[lo + i - 1].chunk])
           fits(lo, hi)  == lo = hi \/ bytes(lo, hi) <= max
           IsPage(b) ==
             /\ b[2] + 1 >= b[1]
             /\ \A i \in 1..n : (frames[i].seq > after) <=> (i >= b[1])
             /\ b[1] <= n => b[2] >= b[1] /\ fits(b[1], b[2])
             /\ b[2] < n  => ~fits(b[1], b[2] + 1)
           lo == IF after < old THEN 1 ELSE after - old + 1
<1>1. /\ n \in Nat /\ seq \in Nat /\ n <= seq /\ old \in Nat /\ lo \in 1..(n + 1)
      /\ after \in Nat
  BY LenProperties DEF TypeOK, HistoryIsNewest
<1>2. \A i \in 1..n : frames[i].seq = old + i
  BY DEF HistoryIsNewest
<1>3. \A i \in 1..n : (frames[i].seq > after) <=> (i >= lo)
  BY <1>1, <1>2
<1> HIDE DEF bytes
<1>4. \E hi \in 0..n : IsPage(<<lo, hi>>)
  <2>1. CASE lo = n + 1
    <3>1. n \in 0..n /\ IsPage(<<lo, n>>)
      BY <1>1, <1>3, <2>1
    <3> QED
      BY <3>1
  <2>2. CASE lo <= n
    <3> DEFINE stops == {h \in lo..n : h = n \/ ~fits(lo, h + 1)}
    <3>1. stops \subseteq Nat /\ n \in stops
      BY <1>1, <2>2
    <3>2. PICK h \in stops : \A j \in stops : h <= j
      <4> HIDE DEF stops
      <4> QED
        BY <3>1, LeastNat
    <3>3. h \in lo..n /\ (h = n \/ ~fits(lo, h + 1))
      OBVIOUS
    <3>4. fits(lo, h)
      <4>1. CASE h = lo
        BY <4>1
      <4>2. CASE h # lo
        <5>1. h - 1 \in lo..n /\ h - 1 # n /\ (h - 1) + 1 = h
          BY <1>1, <3>3, <4>2
        <5>2. h - 1 \notin stops
          <6>1. h \in Nat /\ ~(h <= h - 1)
            BY <1>1, <3>3
          <6> HIDE DEF stops
          <6> QED
            BY <3>2, <6>1
        <5>3. fits(lo, (h - 1) + 1)
          BY <5>1, <5>2
        <5> QED
          BY <5>1, <5>3
      <4> QED
        BY <4>1, <4>2
    <3> HIDE DEF fits, stops, lo
    <3>5. IsPage(<<lo, h>>) /\ h \in 0..n
      BY <1>1, <1>3, <3>3, <3>4
    <3> QED
      BY <3>5
  <2> QED
    BY <1>1, <2>1, <2>2
<1>5. CASE frames = <<>>
  BY <1>5 DEF ReadDelta
<1>6. CASE frames # <<>>
  <2>1. PICK hi \in 0..n : IsPage(<<lo, hi>>)
    BY <1>4
  <2>2. <<lo, hi>> \in (1..(n + 1)) \X (0..n)
    BY <1>1
  <2>3. <<lo, hi>> \in PageBounds(after, max)
    BY <2>1, <2>2 DEF PageBounds, bytes
  <2>4. Page(after, <<lo, hi>>[1], <<lo, hi>>[2]) \in ReadDelta(after, max)
    BY <1>6, <2>3 DEF ReadDelta
  <2> QED
    BY <2>4
<1> QED
  BY <1>5, <1>6

\* What the page between two bounds holds.
LEMMA PageIsComplete ==
  ASSUME TypeOK, HistoryIsNewest, NEW after \in 0..seq, NEW max \in Nat,
         frames # <<>>, NEW b \in PageBounds(after, max)
  PROVE  LET d == Page(after, b[1], b[2])
         IN  /\ ~d.gap => d.chunks = SubSeq(log, after + 1, d.to)
             /\ after < seq => d.to > after
             /\ ~d.truncated => d.to = seq
<1> DEFINE n == Len(frames)
           lo == b[1]
           hi == b[2]
           d  == Page(after, lo, hi)
<1>1. /\ n \in Nat \ {0} /\ seq \in Nat /\ n <= seq /\ after \in Nat /\ Len(log) = seq
      /\ log \in Seq(Chunk)
  BY EmptySeq, LenProperties DEF TypeOK, HistoryIsNewest
<1>2. \A i \in 1..n : /\ frames[i].seq = seq - n + i
                      /\ frames[i].chunk = log[seq - n + i]
  BY DEF HistoryIsNewest
<1>3. /\ lo \in 1..(n + 1) /\ hi \in 0..n /\ hi + 1 >= lo
      /\ lo <= n => hi >= lo
      /\ \A i \in 1..n : (frames[i].seq > after) <=> (i >= lo)
  BY DEF PageBounds
<1>4. d.to = IF hi >= lo THEN seq - n + hi ELSE after
  BY <1>1, <1>2, <1>3 DEF Page
<1>5. d.gap <=> (seq > after /\ after + 1 < seq - n + 1)
  <2>1. Head(frames) = frames[1]
    BY HeadTailProperties DEF TypeOK
  <2>2. Head(frames).seq = seq - n + 1
    BY <1>1, <1>2, <2>1
  <2>3. d.gap = (seq > after /\ after + 1 < Head(frames).seq)
    BY DEF Page
  <2> QED
    BY <2>2, <2>3
<1>6. d.truncated <=> (hi < n \/ d.to < seq)
  BY DEF Page
<1>7. d.chunks = [i \in 1..(hi - lo + 1) |-> log[seq - n + (lo + i - 1)]]
  <2>1. d.chunks = [i \in 1..(hi - lo + 1) |-> frames[lo + i - 1].chunk]
    BY DEF Page
  <2> HIDE DEF d, n, lo, hi
  <2>2. ASSUME NEW i \in 1..(hi - lo + 1)
        PROVE  frames[lo + i - 1].chunk = log[seq - n + (lo + i - 1)]
    <3>1. lo + i - 1 \in 1..n
      BY <1>1, <1>3
    <3> QED
      BY <1>2, <3>1
  <2> QED
    BY <2>1, <2>2
<1> HIDE DEF d, lo, hi, n
<1>8. ASSUME ~d.gap PROVE d.chunks = SubSeq(log, after + 1, d.to)
  <2>1. CASE after = seq
    <3>1. lo = n + 1 /\ hi = n
      BY <1>1, <1>2, <1>3, <2>1
    <3>2. d.to = after /\ hi - lo + 1 = 0
      BY <1>1, <1>4, <3>1
    <3>3. SubSeq(log, after + 1, after) = <<>>
      BY <1>1, SubSeqEmpty
    <3> QED
      BY <1>7, <3>2, <3>3
  <2>2. CASE after < seq
    <3>1. after >= seq - n
      BY <1>1, <1>5, <1>8, <2>2
    <3>2. lo = after - (seq - n) + 1
      <4>1. after - (seq - n) + 1 \in 1..n
        BY <1>1, <2>2, <3>1
      <4>2. after - (seq - n) + 1 >= lo
        <5>1. frames[after - (seq - n) + 1].seq = seq - n + (after - (seq - n) + 1)
          BY <1>2, <4>1
        <5>2. frames[after - (seq - n) + 1].seq > after
          BY <1>1, <5>1
        <5> QED
          BY <1>3, <4>1, <5>2
      <4>3. lo \in 1..n
        BY <1>1, <1>3, <4>1, <4>2
      <4>4. seq - n + lo > after
        BY <1>1, <1>2, <1>3, <4>3
      <4> QED
        BY <1>1, <1>3, <4>2, <4>4
    <3>3. hi >= lo
      BY <1>1, <1>3, <2>2, <3>2
    <3>4. d.to = seq - n + hi /\ d.to - after = hi - lo + 1
      BY <1>1, <1>3, <1>4, <3>2, <3>3
    <3>5. /\ d.to \in Nat /\ d.to <= seq
          /\ hi - lo + 1 \in Nat /\ (d.to + 1) - (after + 1) = hi - lo + 1
      BY <1>1, <1>3, <3>3, <3>4
    <3>6. \A i \in 1..(hi - lo + 1) : seq - n + (lo + i - 1) = i + after
      BY <1>1, <1>3, <3>2
    <3> DEFINE s == SubSeq(log, after + 1, d.to)
               t == [i \in 1..(hi - lo + 1) |-> log[i + after]]
    <3>7. /\ s \in Seq(Chunk) /\ Len(s) = hi - lo + 1
          /\ \A i \in 1..(hi - lo + 1) : s[i] = log[i + after]
      <4>1. after + 1 \in 1..(Len(log) + 1) /\ d.to \in after..Len(log)
        BY <1>1, <2>2, <3>4, <3>5
      <4>2. /\ s \in Seq(Chunk) /\ Len(s) = d.to - (after + 1) + 1
            /\ \A i \in 1..(d.to - (after + 1) + 1) : s[i] = log[(after + 1) + i - 1]
        BY <1>1, <4>1, SubSeqProperties
      <4>3. d.to - (after + 1) + 1 = hi - lo + 1
        BY <1>1, <3>5
      <4>4. \A i \in 1..(hi - lo + 1) : (after + 1) + i - 1 = i + after
        BY <1>1
      <4> HIDE DEF s
      <4> QED
        BY <4>2, <4>3, <4>4
    <3>8. s \in [1..(hi - lo + 1) -> Chunk]
      BY <3>7, LenProperties
    <3> HIDE DEF s
    <3>9. s = t
      BY <3>7, <3>8
    <3>10. d.chunks = t
      BY <1>7, <3>6
    <3> QED
      BY <3>9, <3>10 DEF s
  <2> QED
    BY <1>1, <2>1, <2>2
<1>9. ASSUME after < seq PROVE d.to > after
  <2>1. frames[n].seq = seq
    BY <1>1, <1>2
  <2>2. lo <= n
    BY <1>1, <1>3, <1>9, <2>1
  <2>3. hi >= lo /\ hi \in 1..n
    BY <1>1, <1>3, <2>2
  <2> QED
    BY <1>1, <1>2, <1>3, <1>4, <2>3
<1>10. ASSUME ~d.truncated PROVE d.to = seq
  <2>1. d.to <= seq
    BY <1>1, <1>3, <1>4
  <2>2. d.to \in Int
    BY <1>1, <1>3, <1>4
  <2> QED
    BY <1>1, <1>6, <1>10, <2>1, <2>2
<1> QED
  BY <1>8, <1>9, <1>10 DEF d, lo, hi

LEMMA HistoryGivesCompletePages ==
  ASSUME TypeOK, HistoryIsNewest
  PROVE  DeltaIsComplete
<1> SUFFICES ASSUME NEW after \in 0..seq, NEW max \in 1..(RingCap + 1)
             PROVE  /\ ReadDelta(after, max) # {}
                    /\ \A d \in ReadDelta(after, max) :
                         /\ ~d.gap => d.chunks = SubSeq(log, after + 1, d.to)
                         /\ after < seq => d.to > after
                         /\ ~d.truncated => d.to = seq
  BY DEF DeltaIsComplete
<1>1. max \in Nat
  BY BoundsAssumption
<1>2. ReadDelta(after, max) # {}
  BY <1>1, DeltaAnswers
<1>3. ASSUME NEW d \in ReadDelta(after, max)
      PROVE  /\ ~d.gap => d.chunks = SubSeq(log, after + 1, d.to)
             /\ after < seq => d.to > after
             /\ ~d.truncated => d.to = seq
  <2>1. CASE frames = <<>>
    <3>1. seq = 0 /\ after = 0
      BY <2>1 DEF HistoryIsNewest, TypeOK
    <3>2. d = [chunks |-> <<>>, to |-> seq, gap |-> FALSE, truncated |-> FALSE]
      BY <2>1 DEF ReadDelta
    <3>3. log = <<>>
      BY <3>1, EmptySeq DEF HistoryIsNewest, TypeOK
    <3>4. SubSeq(log, 1, 0) = <<>>
      BY SubSeqEmpty DEF TypeOK
    <3> QED
      BY <3>1, <3>2, <3>4
  <2>2. CASE frames # <<>>
    <3>1. PICK b \in PageBounds(after, max) : d = Page(after, b[1], b[2])
      BY <2>2 DEF ReadDelta
    <3> QED
      BY <1>1, <2>2, <3>1, PageIsComplete
  <2> QED
    BY <2>1, <2>2
<1> QED
  BY <1>2, <1>3

\* terminal_read_delta: a page that reports no gap is complete through toSeq,
\* every page makes progress, and following toSeq ends at the current one.
THEOREM DeltaIsCompleteCorrect == Spec => []DeltaIsComplete
<1>1. HistoryInv => DeltaIsComplete
  BY HistoryGivesCompletePages DEF HistoryInv
<1> QED
  BY <1>1, HistoryCorrect, PTL

-----------------------------------------------------------------------------
(* Flattened sequences.  FlattenSeq joins the chunks from the first to the *)
(* last; what holds of it for every sequence is shown by a least           *)
(* counterexample.                                                         *)

\* g[i] is the first i chunks of s joined, for i up to k.
Joins(g, s, k) == g = [i \in 1..k |-> IF i = 1 THEN s[i] ELSE g[i - 1] \o s[i]]

LEMMA JoinsExists ==
  ASSUME NEW s, NEW n \in Nat
  PROVE  \E g : Joins(g, s, n)
<1> DEFINE T == {k \in Nat : ~\E g : Joins(g, s, k)}
<1>1. SUFFICES ASSUME T # {}
               PROVE  FALSE
  OBVIOUS
<1>2. PICK m \in T : \A j \in T : m <= j
  <2>1. T \subseteq Nat
    OBVIOUS
  <2> HIDE DEF T
  <2> QED
    BY <1>1, <2>1, LeastNat
<1>3. CASE m = 0
  <2> DEFINE g == [i \in 1..0 |-> <<>>]
  <2>1. g = [i \in 1..0 |-> IF i = 1 THEN s[i] ELSE g[i - 1] \o s[i]]
    OBVIOUS
  <2> HIDE DEF g
  <2>2. Joins(g, s, 0)
    BY <2>1 DEF Joins
  <2> QED
    BY <1>2, <1>3, <2>2
<1>4. CASE m # 0
  <2>1. m \in Nat /\ m - 1 \in Nat /\ ~(m <= m - 1)
    BY <1>2, <1>4
  <2>2. PICK g : Joins(g, s, m - 1)
    BY <1>2, <2>1
  <2>3. \A i \in 1..(m - 1) : g[i] = (IF i = 1 THEN s[i] ELSE g[i - 1] \o s[i])
    BY <2>2 DEF Joins
  <2> DEFINE h == [i \in 1..m |-> IF i < m THEN g[i]
                                  ELSE IF m = 1 THEN s[m] ELSE g[m - 1] \o s[m]]
  <2>4. ASSUME NEW i \in 1..m
        PROVE  h[i] = (IF i = 1 THEN s[i] ELSE h[i - 1] \o s[i])
    <3>1. CASE i < m
      <4>1. i \in 1..(m - 1) /\ h[i] = g[i]
        BY <2>1, <3>1
      <4>2. i # 1 => h[i - 1] = g[i - 1]
        BY <2>1, <3>1
      <4> QED
        BY <2>3, <4>1, <4>2
    <3>2. CASE i = m
      <4>1. h[i] = (IF m = 1 THEN s[m] ELSE g[m - 1] \o s[m])
        BY <2>1, <3>2
      <4>2. m # 1 => h[m - 1] = g[m - 1]
        BY <2>1
      <4> QED
        BY <3>2, <4>1, <4>2
    <3> QED
      BY <2>1, <3>1, <3>2
  <2>5. h = [i \in 1..m |-> h[i]]
    OBVIOUS
  <2> HIDE DEF h
  <2>6. Joins(h, s, m)
    BY <2>4, <2>5 DEF Joins
  <2> QED
    BY <1>2, <2>6
<1> QED
  BY <1>3, <1>4

LEMMA JoinsAgree ==
  ASSUME NEW s, NEW t, NEW k \in Nat, NEW g, NEW h,
         Joins(g, s, k), Joins(h, t, k + 1), \A i \in 1..k : s[i] = t[i]
  PROVE  \A i \in 1..k : g[i] = h[i]
<1> DEFINE T == {i \in 1..k : g[i] # h[i]}
<1>1. SUFFICES ASSUME T # {}
               PROVE  FALSE
  OBVIOUS
<1>2. PICK m \in T : \A j \in T : m <= j
  <2>1. T \subseteq Nat
    OBVIOUS
  <2> HIDE DEF T
  <2> QED
    BY <1>1, <2>1, LeastNat
<1>3. m \in 1..k /\ g[m] # h[m] /\ m \in 1..(k + 1)
  OBVIOUS
<1>4. /\ g[m] = (IF m = 1 THEN s[m] ELSE g[m - 1] \o s[m])
      /\ h[m] = (IF m = 1 THEN t[m] ELSE h[m - 1] \o t[m])
  BY <1>3 DEF Joins
<1>5. m # 1
  BY <1>3, <1>4
<1>6. m - 1 \in 1..k /\ ~(m <= m - 1)
  BY <1>3, <1>5
<1>7. g[m - 1] = h[m - 1]
  BY <1>2, <1>6
<1> QED
  BY <1>3, <1>4, <1>5, <1>7

LEMMA JoinsType ==
  ASSUME NEW S, NEW s \in Seq(Seq(S)), NEW g, Joins(g, s, Len(s))
  PROVE  \A i \in 1..Len(s) : g[i] \in Seq(S)
<1> DEFINE T == {i \in 1..Len(s) : g[i] \notin Seq(S)}
<1>1. SUFFICES ASSUME T # {}
               PROVE  FALSE
  OBVIOUS
<1>2. PICK m \in T : \A j \in T : m <= j
  <2>1. T \subseteq Nat
    OBVIOUS
  <2> HIDE DEF T
  <2> QED
    BY <1>1, <2>1, LeastNat
<1>3. m \in 1..Len(s) /\ g[m] \notin Seq(S) /\ Len(s) \in Nat
  BY LenProperties
<1>4. g[m] = (IF m = 1 THEN s[m] ELSE g[m - 1] \o s[m])
  BY <1>3 DEF Joins
<1>5. s[m] \in Seq(S)
  BY <1>3, ElementOfSeq
<1>6. m # 1
  BY <1>3, <1>4, <1>5
<1>7. m - 1 \in 1..Len(s) /\ ~(m <= m - 1)
  BY <1>3, <1>6
<1>8. g[m - 1] \in Seq(S)
  BY <1>2, <1>7
<1> QED
  BY <1>3, <1>4, <1>5, <1>6, <1>8, ConcatProperties

\* FlattenSeq is the last value of the function that joins chunk by chunk.
LEMMA FlattenIsJoined ==
  ASSUME NEW s, Len(s) \in Nat \ {0}
  PROVE  \E g : Joins(g, s, Len(s)) /\ FlattenSeq(s) = g[Len(s)]
<1>1. \E g : Joins(g, s, Len(s))
  BY JoinsExists
<1>2. Joins(CHOOSE g : Joins(g, s, Len(s)), s, Len(s))
  BY <1>1
<1>3. FlattenSeq(s) = (CHOOSE g : Joins(g, s, Len(s)))[Len(s)]
  BY DEF FlattenSeq, Joins
<1> QED
  BY <1>2, <1>3

LEMMA FlattenEmpty == FlattenSeq(<<>>) = <<>>
  BY EmptySeq DEF FlattenSeq

\* The bytes of chunks are bytes.
LEMMA FlattenType ==
  ASSUME NEW S, NEW s \in Seq(Seq(S))
  PROVE  FlattenSeq(s) \in Seq(S)
<1>1. CASE s = <<>>
  BY <1>1, FlattenEmpty, EmptySeq
<1>2. CASE s # <<>>
  <2>1. Len(s) \in Nat \ {0}
    BY <1>2, EmptySeq
  <2>2. PICK g : Joins(g, s, Len(s)) /\ FlattenSeq(s) = g[Len(s)]
    BY <2>1, FlattenIsJoined
  <2> QED
    BY <2>1, <2>2, JoinsType
<1> QED
  BY <1>1, <1>2

\* One more chunk, its bytes behind the others.
LEMMA FlattenAppend ==
  ASSUME NEW S, NEW s \in Seq(Seq(S)), NEW c \in Seq(S)
  PROVE  FlattenSeq(Append(s, c)) = FlattenSeq(s) \o c
<1>1. PICK n \in Nat : n = Len(s)
  BY LenProperties
<1>2. PICK t : t = Append(s, c)
  OBVIOUS
<1>3. /\ t \in Seq(Seq(S)) /\ Len(t) = n + 1 /\ t[n + 1] = c
      /\ \A i \in 1..n : t[i] = s[i]
  <2>1. /\ Append(s, c) \in Seq(Seq(S)) /\ Len(Append(s, c)) = Len(s) + 1
        /\ \A i \in 1..Len(s) : Append(s, c)[i] = s[i]
        /\ Append(s, c)[Len(s) + 1] = c
    BY AppendProperties
  <2> QED
    BY <1>1, <1>2, <2>1
<1>4. PICK h : Joins(h, t, n + 1) /\ FlattenSeq(t) = h[n + 1]
  <2>1. Len(t) \in Nat \ {0}
    BY <1>3
  <2> QED
    BY <1>3, <2>1, FlattenIsJoined
<1>5. n + 1 \in 1..(n + 1) /\ (n + 1) - 1 = n
  BY <1>2
<1>6. h[n + 1] = (IF n + 1 = 1 THEN t[n + 1] ELSE h[n] \o t[n + 1])
  BY <1>4, <1>5 DEF Joins
<1>7. CASE s = <<>>
  <2>1. n = 0 /\ FlattenSeq(s) = <<>>
    BY <1>1, <1>7, FlattenEmpty, EmptySeq
  <2>2. <<>> \o c = c
    BY ConcatEmptySeq
  <2>3. FlattenSeq(t) = c
    BY <1>3, <1>4, <1>6, <2>1
  <2> QED
    BY <1>2, <2>1, <2>2, <2>3
<1>8. CASE s # <<>>
  <2>1. n \in Nat \ {0}
    BY <1>1, <1>8, EmptySeq
  <2>2. PICK g : Joins(g, s, n) /\ FlattenSeq(s) = g[n]
    BY <1>1, <2>1, FlattenIsJoined
  <2>3. n \in 1..n /\ n + 1 # 1
    BY <2>1
  <2>4. \A i \in 1..n : s[i] = t[i]
    BY <1>3
  <2>5. n \in Nat /\ Joins(g, s, n) /\ Joins(h, t, n + 1)
    BY <1>4, <2>2
  <2>6. \A i \in 1..n : g[i] = h[i]
    BY ONLY <2>4, <2>5, JoinsAgree
  <2> QED
    BY <1>3, <1>2, <1>4, <1>6, <2>2, <2>3, <2>6
<1> QED
  BY <1>7, <1>8

LEMMA FlattenOne ==
  ASSUME NEW S, NEW c \in Seq(S)
  PROVE  <<c>> \in Seq(Seq(S)) /\ FlattenSeq(<<c>>) = c
<1>1. <<>> \in Seq(Seq(S)) /\ <<>> \in Seq(S)
  BY EmptySeq
<1>2. Append(<<>>, c) = <<>> \o <<c>> /\ Append(<<>>, c) \in Seq(Seq(S))
  BY <1>1, AppendIsConcat, AppendProperties
<1>3. Append(<<>>, c) = <<c>>
  OBVIOUS
<1>4. FlattenSeq(Append(<<>>, c)) = FlattenSeq(<<>>) \o c
  BY <1>1, FlattenAppend
<1>5. <<>> \o c = c
  BY ConcatEmptySeq
<1> QED
  BY <1>2, <1>3, <1>4, <1>5, FlattenEmpty

\* The bytes of two rings one after the other.
LEMMA FlattenConcat ==
  ASSUME NEW S, NEW s \in Seq(Seq(S)), NEW t \in Seq(Seq(S))
  PROVE  FlattenSeq(s \o t) = FlattenSeq(s) \o FlattenSeq(t)
<1> DEFINE P(k) == FlattenSeq(s \o SubSeq(t, 1, k))
                     = FlattenSeq(s) \o FlattenSeq(SubSeq(t, 1, k))
           T == {k \in 0..Len(t) : ~P(k)}
<1>1. Len(t) \in Nat /\ Len(s) \in Nat /\ FlattenSeq(s) \in Seq(S)
  BY LenProperties, FlattenType
<1>2. ASSUME T # {}
      PROVE  FALSE
  <2>1. PICK m \in T : \A j \in T : m <= j
    <3>1. T \subseteq Nat
      BY <1>1
    <3> HIDE DEF T
    <3> QED
      BY <1>2, <3>1, LeastNat
  <2>2. m \in 0..Len(t) /\ ~P(m)
    OBVIOUS
  <2>3. m # 0
    <3>1. SubSeq(t, 1, 0) = <<>>
      BY SubSeqEmpty
    <3>2. P(0)
      BY <1>1, <3>1, FlattenEmpty, ConcatEmptySeq
    <3> QED
      BY <2>2, <3>2
  <2>4. m - 1 \in 0..Len(t) /\ ~(m <= m - 1) /\ m \in 1..Len(t)
    BY <1>1, <2>2, <2>3
  <2>5. P(m - 1)
    BY <2>1, <2>4
  <2> HIDE DEF T, P
  <2>6. PICK u \in Seq(Seq(S)), v \in Seq(Seq(S)), c \in Seq(S) :
          /\ u = SubSeq(t, 1, m - 1) /\ v = SubSeq(t, 1, m) /\ c = t[m]
          /\ v = Append(u, c)
    <3>1. SubSeq(t, 1, m) = SubSeq(t, 1, m - 1) \o <<t[m]>>
      <4>1. 1 \in 1..Len(t) /\ m \in 1..Len(t)
        BY <1>1, <2>4
      <4> QED
        BY <4>1, SubSeqRecursiveSecond
    <3>2. \A i \in 1..m : t[i] \in Seq(S)
      <4>1. \A i \in 1..m : i \in 1..Len(t)
        BY <1>1, <2>4
      <4> QED
        BY <4>1, ElementOfSeq
    <3>3. SubSeq(t, 1, m - 1) \in Seq(Seq(S)) /\ SubSeq(t, 1, m) \in Seq(Seq(S))
      BY <1>1, <2>4, <3>2, SubSeqProperties, SMTT(60)
    <3>4. t[m] \in Seq(S)
      BY <2>4, ElementOfSeq
    <3> QED
      BY <3>1, <3>3, <3>4, AppendIsConcat
  <2>7. s \o u \in Seq(Seq(S)) /\ s \o v = Append(s \o u, c)
    <3>1. s \o u \in Seq(Seq(S)) /\ <<c>> \in Seq(Seq(S))
      BY ConcatProperties, FlattenOne
    <3>2. Append(s \o u, c) = (s \o u) \o <<c>> /\ v = u \o <<c>>
      BY <2>6, <3>1, AppendIsConcat
    <3> QED
      BY <3>1, <3>2, ConcatAssociative, SMTT(60)
  <2>8. FlattenSeq(s \o v) = (FlattenSeq(s) \o FlattenSeq(u)) \o c
    BY <2>5, <2>6, <2>7, FlattenAppend DEF P
  <2>9. FlattenSeq(v) = FlattenSeq(u) \o c /\ FlattenSeq(u) \in Seq(S)
    BY <2>6, FlattenAppend, FlattenType
  <2>10. P(m)
    <3>1. FlattenSeq(s) \o (FlattenSeq(u) \o c) = (FlattenSeq(s) \o FlattenSeq(u)) \o c
      <4>1. FlattenSeq(s) \in Seq(S) /\ FlattenSeq(u) \in Seq(S) /\ c \in Seq(S)
        BY <1>1, <2>9
      <4> QED
        BY ONLY <4>1, ConcatAssociative, SMTT(60)
    <3> QED
      BY <2>6, <2>8, <2>9, <3>1 DEF P
  <2> QED
    BY <2>2, <2>10 DEF P
<1>3. P(Len(t))
  <2>1. T = {} /\ Len(t) \in 0..Len(t)
    BY <1>1, <1>2
  <2> HIDE DEF P
  <2> QED
    BY <2>1
<1> QED
  BY <1>3, SubSeqFull

-----------------------------------------------------------------------------
(* The ends of sequences.                                                  *)

\* What LastBytes returns, byte by byte.
LEMMA LastBytesProperties ==
  ASSUME NEW S, NEW s \in Seq(S), NEW n \in Nat
  PROVE  /\ LastBytes(s, n) \in Seq(S)
         /\ Len(LastBytes(s, n)) = MinOf(n, Len(s))
         /\ \A i \in 1..MinOf(n, Len(s)) :
              LastBytes(s, n)[i] = s[Len(s) - MinOf(n, Len(s)) + i]
<1> DEFINE m == MinOf(n, Len(s))
           lo == Len(s) - m + 1
<1>1. Len(s) \in Nat /\ m \in 0..Len(s)
  BY LenProperties DEF MinOf
<1>2. \A i \in lo..Len(s) : s[i] \in S
  <2>1. \A i \in lo..Len(s) : i \in 1..Len(s)
    BY <1>1
  <2> QED
    BY <2>1, ElementOfSeq
<1>3. lo \in Int /\ Len(s) \in Int
  BY <1>1
<1> HIDE DEF m
<1>4. /\ SubSeq(s, lo, Len(s)) \in Seq(S)
      /\ Len(SubSeq(s, lo, Len(s))) = (IF lo <= Len(s) THEN Len(s) - lo + 1 ELSE 0)
      /\ \A i \in 1..(Len(s) - lo + 1) : SubSeq(s, lo, Len(s))[i] = s[lo + i - 1]
  BY ONLY <1>2, <1>3, SubSeqProperties, SMTT(60)
<1>5. LastBytes(s, n) = SubSeq(s, lo, Len(s))
  BY DEF LastBytes, m
<1>6. Len(s) - lo + 1 = m /\ \A i \in 1..m : lo + i - 1 = Len(s) - m + i
  BY <1>1
<1>7. (IF lo <= Len(s) THEN Len(s) - lo + 1 ELSE 0) = m
  BY <1>1
<1> HIDE DEF lo
<1> QED
  BY <1>4, <1>5, <1>6, <1>7 DEF m

LEMMA LastIsLong ==
  ASSUME NEW S, NEW s \in Seq(S), NEW k \in Nat, k = Len(s), NEW n \in 0..k
  PROVE  /\ LastBytes(s, n) \in Seq(S) /\ Len(LastBytes(s, n)) = n
         /\ \A i \in 1..n : LastBytes(s, n)[i] = s[k - n + i]
<1>1. n \in Nat /\ MinOf(n, Len(s)) = n
  BY DEF MinOf
<1>2. /\ LastBytes(s, n) \in Seq(S)
      /\ Len(LastBytes(s, n)) = MinOf(n, Len(s))
      /\ \A i \in 1..MinOf(n, Len(s)) :
           LastBytes(s, n)[i] = s[Len(s) - MinOf(n, Len(s)) + i]
  BY <1>1, LastBytesProperties
<1> QED
  BY <1>1, <1>2

LEMMA ConcatShape ==
  ASSUME NEW S, NEW x \in Seq(S), NEW y \in Seq(S),
         NEW a \in Nat, a = Len(x), NEW b \in Nat, b = Len(y)
  PROVE  /\ x \o y \in Seq(S) /\ Len(x \o y) = a + b
         /\ \A i \in 1..(a + b) : (x \o y)[i] = IF i <= a THEN x[i] ELSE y[i - a]
  BY ConcatProperties

LEMMA LastOfShort ==
  ASSUME NEW S, NEW s \in Seq(S), NEW n \in Nat, Len(s) <= n
  PROVE  LastBytes(s, n) = s
<1>1. MinOf(n, Len(s)) = Len(s) /\ Len(s) \in Nat
  BY LenProperties DEF MinOf
<1>2. LastBytes(s, n) = SubSeq(s, 1, Len(s))
  BY <1>1 DEF LastBytes
<1> QED
  BY <1>2, SubSeqFull

\* The last bytes of what ends with y are those of y.
LEMMA LastOfEnd ==
  ASSUME NEW S, NEW x \in Seq(S), NEW y \in Seq(S), NEW n \in 0..Len(y)
  PROVE  LastBytes(x \o y, n) = LastBytes(y, n)
<1>1. PICK a \in Nat, b \in Nat : a = Len(x) /\ b = Len(y)
  BY LenProperties
<1>2. PICK z : z = x \o y
  OBVIOUS
<1>3. /\ z \in Seq(S) /\ Len(z) = a + b
      /\ \A i \in 1..(a + b) : z[i] = IF i <= a THEN x[i] ELSE y[i - a]
  BY <1>2, <1>1, ConcatShape
<1>4. n \in Nat /\ n <= b /\ n \in 0..b /\ n \in 0..(a + b) /\ a + b \in Nat
  BY <1>1
<1>5. /\ LastBytes(z, n) \in Seq(S) /\ Len(LastBytes(z, n)) = n
      /\ \A i \in 1..n : LastBytes(z, n)[i] = z[a + b - n + i]
  BY <1>3, <1>4, LastIsLong
<1>6. /\ LastBytes(y, n) \in Seq(S) /\ Len(LastBytes(y, n)) = n
      /\ \A i \in 1..n : LastBytes(y, n)[i] = y[b - n + i]
  <2>1. y \in Seq(S) /\ b \in Nat /\ b = Len(y) /\ n \in 0..b
    BY <1>1, <1>4
  <2> QED
    BY ONLY <2>1, LastIsLong
<1>7. ASSUME NEW i \in 1..n
      PROVE  z[a + b - n + i] = y[b - n + i]
  <2>1. /\ a + b - n + i \in 1..(a + b) /\ ~(a + b - n + i <= a)
        /\ (a + b - n + i) - a = b - n + i
    BY <1>4
  <2> QED
    BY <1>3, <2>1
<1>8. \A i \in 1..n : LastBytes(z, n)[i] = LastBytes(y, n)[i]
  BY <1>5, <1>6, <1>7
<1>9. LastBytes(z, n) = LastBytes(y, n)
  BY <1>5, <1>6, <1>8, SeqEqual
<1> QED
  BY <1>2, <1>9

LEMMA EndIsLast ==
  ASSUME NEW S, NEW x \in Seq(S), NEW y \in Seq(S)
  PROVE  LastBytes(x \o y, Len(y)) = y
<1>1. Len(y) \in 0..Len(y) /\ Len(y) \in Nat /\ Len(y) <= Len(y)
  BY LenProperties
<1>2. LastBytes(x \o y, Len(y)) = LastBytes(y, Len(y))
  BY <1>1, LastOfEnd
<1> QED
  BY <1>1, <1>2, LastOfShort

\* A sequence ends with its last bytes.
LEMMA EndsWithLast ==
  ASSUME NEW S, NEW s \in Seq(S), NEW n \in Nat
  PROVE  \E x \in Seq(S) : s = x \o LastBytes(s, n)
<1>1. PICK k \in Nat, m \in Nat : k = Len(s) /\ m = MinOf(n, Len(s)) /\ m <= k
  BY LenProperties DEF MinOf
<1>2. /\ 1 \in 1..(Len(s) + 1) /\ k - m \in (1 - 1)..Len(s) /\ Len(s) \in (k - m)..Len(s)
  BY <1>1
<1>3. SubSeq(s, 1, k - m) \o SubSeq(s, (k - m) + 1, Len(s)) = SubSeq(s, 1, Len(s))
  BY ONLY <1>2, s \in Seq(S), ConcatAdjacentSubSeq
<1>4. SubSeq(s, 1, k - m) \in Seq(S)
  <2>1. \A i \in 1..(k - m) : i \in 1..Len(s)
    BY <1>1
  <2>2. \A i \in 1..(k - m) : s[i] \in S
    BY <2>1, ElementOfSeq
  <2> QED
    BY <1>1, <2>2, SubSeqProperties, SMTT(60)
<1>5. LastBytes(s, n) = SubSeq(s, (k - m) + 1, Len(s))
  BY <1>1 DEF LastBytes
<1>6. s = SubSeq(s, 1, k - m) \o LastBytes(s, n)
  BY <1>3, <1>5, SubSeqFull
<1> QED
  BY <1>4, <1>6

\* It is enough to keep as many as one wants in the end.
LEMMA LastOfLast ==
  ASSUME NEW S, NEW s \in Seq(S), NEW m \in Nat, NEW n \in 0..m
  PROVE  LastBytes(LastBytes(s, m), n) = LastBytes(s, n)
<1>1. PICK k \in Nat : k = Len(s)
  BY LenProperties
<1>2. PICK l \in Seq(S) : l = LastBytes(s, m) /\ Len(l) = MinOf(m, k)
  BY <1>1, LastBytesProperties
<1>3. CASE k <= m
  BY <1>1, <1>3, LastOfShort
<1>4. CASE m < k
  <2>1. n \in 0..Len(l)
    BY <1>2, <1>4 DEF MinOf
  <2>2. PICK x \in Seq(S) : s = x \o l
    BY <1>2, EndsWithLast
  <2>3. LastBytes(x \o l, n) = LastBytes(l, n)
    BY <2>1, LastOfEnd
  <2> QED
    BY <1>2, <2>2, <2>3
<1> QED
  BY <1>3, <1>4

\* What is kept of a sequence decides what is kept of a longer one.
LEMMA LastOfConcat ==
  ASSUME NEW S, NEW s \in Seq(S), NEW c \in Seq(S), NEW n \in Nat
  PROVE  LastBytes(LastBytes(s, n) \o c, n) = LastBytes(s \o c, n)
<1>1. PICK k \in Nat : k = Len(s)
  BY LenProperties
<1>2. PICK l \in Seq(S) : l = LastBytes(s, n) /\ Len(l) = MinOf(n, k)
  BY <1>1, LastBytesProperties
<1>3. CASE k <= n
  BY <1>1, <1>3, LastOfShort
<1>4. CASE n < k
  <2>1. PICK d \in Seq(S) : d = l \o c /\ n \in 0..Len(d)
    <3>1. PICK b \in Nat : b = Len(c)
      BY LenProperties
    <3>2. n = Len(l)
      BY <1>2, <1>4 DEF MinOf
    <3>3. l \o c \in Seq(S) /\ Len(l \o c) = n + b
      BY <3>1, <3>2, ConcatShape
    <3>4. n \in 0..(n + b)
      OBVIOUS
    <3> QED
      BY <3>3, <3>4
  <2>2. PICK x \in Seq(S) : s = x \o l
    BY <1>2, EndsWithLast
  <2>3. (x \o l) \o c = x \o (l \o c)
    BY ONLY x \in Seq(S), l \in Seq(S), c \in Seq(S), ConcatAssociative, SMTT(60)
  <2>4. LastBytes(x \o d, n) = LastBytes(d, n)
    BY <2>1, LastOfEnd
  <2> QED
    BY <1>2, <2>1, <2>2, <2>3, <2>4
<1> QED
  BY <1>3, <1>4

\* A batch and what is left of the backlog are the backlog.
LEMMA FirstAndRest ==
  ASSUME NEW S, NEW s \in Seq(S), NEW n \in Nat
  PROVE  FirstBytes(s, n) \o DropBytes(s, Len(FirstBytes(s, n))) = s
<1>1. PICK k \in Nat, m \in Nat : k = Len(s) /\ m = MinOf(n, Len(s)) /\ m <= k
  BY LenProperties DEF MinOf
<1>2. Len(FirstBytes(s, n)) = m /\ FirstBytes(s, n) = SubSeq(s, 1, m)
  BY <1>1, FirstBytesProperties DEF FirstBytes
<1>3. /\ 1 \in 1..(Len(s) + 1) /\ m \in (1 - 1)..Len(s) /\ Len(s) \in m..Len(s)
  BY <1>1
<1>4. SubSeq(s, 1, m) \o SubSeq(s, m + 1, Len(s)) = SubSeq(s, 1, Len(s))
  BY ONLY <1>3, s \in Seq(S), ConcatAdjacentSubSeq
<1>5. DropBytes(s, m) = SubSeq(s, m + 1, Len(s))
  BY DEF DropBytes
<1> QED
  BY <1>2, <1>4, <1>5, SubSeqFull

-----------------------------------------------------------------------------
(* The stream.                                                             *)

\* The bytes of the stream from lo to hi.
LEMMA StreamProperties ==
  ASSUME NEW lo \in Nat \ {0}, NEW hi \in Nat, lo <= hi + 1
  PROVE  /\ Stream(lo, hi) \in Seq(Nat) /\ Len(Stream(lo, hi)) = hi - lo + 1
         /\ \A i \in 1..(hi - lo + 1) : Stream(lo, hi)[i] = lo + i - 1
<1>1. hi - lo + 1 \in Nat /\ \A i \in 1..(hi - lo + 1) : lo + i - 1 \in Nat
  OBVIOUS
<1> QED
  BY <1>1 DEF Stream

LEMMA StreamEmpty ==
  ASSUME NEW n \in Nat
  PROVE  Stream(n + 1, n) = <<>>
  BY DEF Stream

\* The stream to mid and the stream after it.
LEMMA StreamGoesOn ==
  ASSUME NEW lo \in Nat \ {0}, NEW mid \in Nat, NEW hi \in Nat, lo <= mid + 1, mid <= hi
  PROVE  Stream(lo, mid) \o Stream(mid + 1, hi) = Stream(lo, hi)
<1>1. PICK x \in Seq(Nat) : /\ x = Stream(lo, mid) /\ Len(x) = mid - lo + 1
                           /\ \A i \in 1..(mid - lo + 1) : x[i] = lo + i - 1
  BY StreamProperties
<1>2. PICK y \in Seq(Nat) : /\ y = Stream(mid + 1, hi) /\ Len(y) = hi - (mid + 1) + 1
                           /\ \A i \in 1..(hi - (mid + 1) + 1) : y[i] = (mid + 1) + i - 1
  <2>1. mid + 1 \in Nat \ {0} /\ mid + 1 <= hi + 1
    OBVIOUS
  <2> QED
    BY <2>1, StreamProperties
<1>3. PICK z \in Seq(Nat) : /\ z = Stream(lo, hi) /\ Len(z) = hi - lo + 1
                           /\ \A i \in 1..(hi - lo + 1) : z[i] = lo + i - 1
  <2>1. lo <= hi + 1
    OBVIOUS
  <2> QED
    BY <2>1, StreamProperties
<1>4. PICK a \in Nat, b \in Nat : a = mid - lo + 1 /\ b = hi - (mid + 1) + 1
  OBVIOUS
<1>5. PICK w : w = x \o y
  OBVIOUS
<1>6. /\ w \in Seq(Nat) /\ Len(w) = a + b
      /\ \A i \in 1..(a + b) : w[i] = IF i <= a THEN x[i] ELSE y[i - a]
  <2>1. a = Len(x) /\ b = Len(y)
    BY <1>1, <1>2, <1>4
  <2> QED
    BY <1>5, <2>1, ConcatShape
<1>7. a + b = hi - lo + 1
  BY <1>4
<1>8. ASSUME NEW i \in 1..(a + b)
      PROVE  w[i] = z[i]
  <2>1. z[i] = lo + i - 1
    BY <1>3, <1>7
  <2>2. CASE i <= a
    <3>1. i \in 1..(mid - lo + 1) /\ w[i] = x[i]
      BY <1>4, <1>6, <2>2
    <3> QED
      BY <1>1, <2>1, <3>1
  <2>3. CASE ~(i <= a)
    <3>1. /\ i - a \in 1..(hi - (mid + 1) + 1) /\ w[i] = y[i - a]
          /\ (mid + 1) + (i - a) - 1 = lo + i - 1
      BY <1>4, <1>6, <2>3
    <3> QED
      BY <1>2, <2>1, <3>1
  <2> QED
    BY <2>2, <2>3
<1>9. w = z
  <2>1. Len(w) = Len(z) /\ \A i \in 1..Len(w) : w[i] = z[i]
    BY <1>3, <1>6, <1>7, <1>8
  <2> QED
    BY <1>3, <1>6, <2>1, SeqEqual
<1> QED
  BY <1>1, <1>2, <1>3, <1>5, <1>9

-----------------------------------------------------------------------------
(* The ring.                                                               *)

NoneEmpty(r) == \A i \in 1..Len(r) : r[i] # <<>>

LEMMA FlattenTwo ==
  ASSUME NEW S, NEW c \in Seq(S), NEW s \in Seq(Seq(S))
  PROVE  /\ <<c>> \o s \in Seq(Seq(S))
         /\ FlattenSeq(<<c>> \o s) = c \o FlattenSeq(s)
         /\ FlattenSeq(s) \in Seq(S)
<1>1. <<c>> \in Seq(Seq(S)) /\ FlattenSeq(<<c>>) = c
  BY FlattenOne
<1>2. <<c>> \o s \in Seq(Seq(S))
  BY <1>1, ConcatProperties
<1>3. FlattenSeq(<<c>> \o s) = FlattenSeq(<<c>>) \o FlattenSeq(s)
  BY <1>1, FlattenConcat
<1>4. FlattenSeq(s) \in Seq(S)
  BY FlattenType
<1> QED
  BY <1>1, <1>2, <1>3, <1>4

\* A sequence of chunks before and from one of them on.
LEMMA SplitAt ==
  ASSUME NEW S, NEW q \in Seq(Seq(S)), NEW k \in 0..(Len(q) - 1)
  PROVE  /\ q[k + 1] \in Seq(S)
         /\ SubSeq(q, 1, k) \in Seq(Seq(S)) /\ SubSeq(q, k + 2, Len(q)) \in Seq(Seq(S))
         /\ SubSeq(q, k + 1, Len(q)) = <<q[k + 1]>> \o SubSeq(q, k + 2, Len(q))
         /\ q = SubSeq(q, 1, k) \o SubSeq(q, k + 1, Len(q))
<1>1. /\ k + 1 \in 1..Len(q) /\ Len(q) \in (k + 1)..Len(q) /\ (k + 1) + 1 = k + 2
      /\ 1 \in 1..(Len(q) + 1) /\ k \in (1 - 1)..Len(q) /\ Len(q) \in k..Len(q) /\ Len(q) \in Nat
  BY LenProperties
<1>2. q[k + 1] \in Seq(S)
  BY <1>1, ElementOfSeq
<1>3. SubSeq(q, 1, k) \in Seq(Seq(S)) /\ SubSeq(q, k + 2, Len(q)) \in Seq(Seq(S))
  <2>1. \A i \in 1..Len(q) : q[i] \in Seq(S)
    BY ElementOfSeq
  <2>2. (\A i \in 1..k : q[i] \in Seq(S)) /\ \A i \in (k + 2)..Len(q) : q[i] \in Seq(S)
    BY <2>1
  <2>3. k \in Int /\ k + 2 \in Int /\ Len(q) \in Int /\ 1 \in Int
    BY <1>1
  <2> QED
    BY ONLY <2>2, <2>3, SubSeqProperties, SMTT(60)
<1>4. SubSeq(q, k + 1, Len(q)) = <<q[k + 1]>> \o SubSeq(q, (k + 1) + 1, Len(q))
  BY ONLY <1>1, q \in Seq(Seq(S)), SubSeqRecursiveFirst
<1>5. SubSeq(q, 1, k) \o SubSeq(q, k + 1, Len(q)) = SubSeq(q, 1, Len(q))
  BY ONLY <1>1, q \in Seq(Seq(S)), ConcatAdjacentSubSeq
<1>6. SubSeq(q, 1, Len(q)) = q
  BY SubSeqFull
<1> QED
  BY <1>1, <1>2, <1>3, <1>4, <1>5, <1>6

\* What a cut leaves is the end of what there was.
LEMMA CutIsEnd ==
  ASSUME NEW S, NEW q \in Seq(Seq(S)), NEW k \in 0..(Len(q) - 1),
         NEW b \in Nat, b < Len(q[k + 1]), NoneEmpty(q)
  PROVE  /\ Cut(q, k, b) \in Seq(Seq(S)) /\ NoneEmpty(Cut(q, k, b))
         /\ \E x \in Seq(S) : FlattenSeq(q) = x \o FlattenSeq(Cut(q, k, b))
<1>1. PICK n \in Nat : n = Len(q) /\ k \in 0..(n - 1)
  BY LenProperties
<1>2. PICK f \in Seq(S), A \in Seq(Seq(S)), B \in Seq(Seq(S)) :
        /\ f = q[k + 1] /\ A = SubSeq(q, 1, k) /\ B = SubSeq(q, k + 2, n)
        /\ q = A \o (<<f>> \o B)
  <2>1. /\ q[k + 1] \in Seq(S)
        /\ SubSeq(q, 1, k) \in Seq(Seq(S)) /\ SubSeq(q, k + 2, Len(q)) \in Seq(Seq(S))
        /\ SubSeq(q, k + 1, Len(q)) = <<q[k + 1]>> \o SubSeq(q, k + 2, Len(q))
        /\ q = SubSeq(q, 1, k) \o SubSeq(q, k + 1, Len(q))
    BY SplitAt
  <2> QED
    BY <1>1, <2>1, Zenon
<1>3. PICK d \in Seq(S), e \in Seq(S) : d = DropBytes(f, b) /\ f = e \o d /\ d # <<>>
  <2>1. PICK l \in Nat : l = Len(f) /\ b < l
    BY <1>2, LenProperties
  <2>2. /\ 1 \in 1..(Len(f) + 1) /\ b \in (1 - 1)..Len(f) /\ l \in b..Len(f)
    BY <2>1
  <2>3. SubSeq(f, 1, b) \o SubSeq(f, b + 1, l) = SubSeq(f, 1, l)
    BY ONLY <2>2, f \in Seq(S), ConcatAdjacentSubSeq
  <2>4. SubSeq(f, 1, l) = f
    BY <2>1, SubSeqFull
  <2>5. \A i \in 1..l : f[i] \in S
    BY <2>1, ElementOfSeq
  <2>6. /\ 1 \in Int /\ b \in Int /\ l \in Int /\ b + 1 \in Int /\ b + 1 <= l
        /\ (\A i \in 1..b : f[i] \in S) /\ \A i \in (b + 1)..l : f[i] \in S
    BY <2>1, <2>5
  <2>7. /\ SubSeq(f, 1, b) \in Seq(S) /\ SubSeq(f, b + 1, l) \in Seq(S)
        /\ Len(SubSeq(f, b + 1, l)) = IF b + 1 <= l THEN l - (b + 1) + 1 ELSE 0
    BY ONLY <2>6, SubSeqProperties, SMTT(60)
  <2>8. Len(SubSeq(f, b + 1, l)) # 0
    BY <2>1, <2>6, <2>7
  <2>9. SubSeq(f, b + 1, l) # <<>>
    BY <2>8, EmptySeq
  <2> QED
    BY <2>1, <2>3, <2>4, <2>7, <2>9 DEF DropBytes
<1>4. Cut(q, k, b) = <<d>> \o B
  BY <1>1, <1>2, <1>3 DEF Cut
<1>5. /\ <<d>> \o B \in Seq(Seq(S)) /\ FlattenSeq(<<d>> \o B) = d \o FlattenSeq(B)
      /\ FlattenSeq(B) \in Seq(S)
  BY FlattenTwo
<1>6. /\ <<f>> \o B \in Seq(Seq(S)) /\ FlattenSeq(<<f>> \o B) = f \o FlattenSeq(B)
  BY FlattenTwo
<1>7. FlattenSeq(A \o (<<f>> \o B)) = FlattenSeq(A) \o FlattenSeq(<<f>> \o B)
  BY <1>6, FlattenConcat
<1>8. PICK a \in Seq(S), r \in Seq(S) : a = FlattenSeq(A) /\ r = FlattenSeq(B)
  BY <1>5, FlattenType
<1>9. FlattenSeq(q) = (a \o e) \o (d \o r) /\ a \o e \in Seq(S)
  <2>1. FlattenSeq(q) = a \o ((e \o d) \o r)
    BY <1>2, <1>3, <1>6, <1>7, <1>8
  <2>2. (e \o d) \o r = e \o (d \o r)
    BY ONLY e \in Seq(S), d \in Seq(S), r \in Seq(S), ConcatAssociative, SMTT(60)
  <2>3. d \o r \in Seq(S) /\ a \o e \in Seq(S)
    BY ConcatProperties
  <2>4. PICK g \in Seq(S) : g = d \o r
    BY <2>3
  <2>5. (a \o e) \o g = a \o (e \o g)
    BY ONLY a \in Seq(S), e \in Seq(S), g \in Seq(S), ConcatAssociative, SMTT(60)
  <2> QED
    BY <2>1, <2>2, <2>3, <2>4, <2>5
<1>10. NoneEmpty(<<d>> \o B)
  <2>1. PICK b1 \in Nat : b1 = Len(B)
    BY LenProperties
  <2>2. <<d>> \in Seq(Seq(S)) /\ Len(<<d>>) = 1 /\ <<d>>[1] = d
    BY FlattenOne
  <2>3. /\ Len(<<d>> \o B) = 1 + b1
        /\ \A i \in 1..(1 + b1) : (<<d>> \o B)[i] = IF i <= 1 THEN <<d>>[i] ELSE B[i - 1]
    BY <2>1, <2>2, ConcatShape
  <2>4. \A i \in 1..b1 : B[i] # <<>>
    <3>1. \A i \in (k + 2)..n : q[i] \in Seq(S)
      <4>1. \A i \in (k + 2)..n : i \in 1..Len(q)
        BY <1>1
      <4> QED
        BY <4>1, ElementOfSeq
    <3>2. k + 2 \in Int /\ n \in Int
      OBVIOUS
    <3>3. /\ SubSeq(q, k + 2, n) \in Seq(Seq(S))
          /\ Len(SubSeq(q, k + 2, n)) = (IF k + 2 <= n THEN n - (k + 2) + 1 ELSE 0)
          /\ \A i \in 1..(n - (k + 2) + 1) : SubSeq(q, k + 2, n)[i] = q[(k + 2) + i - 1]
      BY ONLY <3>1, <3>2, SubSeqProperties, SMTT(60)
    <3>4. /\ b1 = (IF k + 2 <= n THEN n - (k + 2) + 1 ELSE 0)
          /\ \A i \in 1..(n - (k + 2) + 1) : B[i] = q[(k + 2) + i - 1]
      BY <1>2, <2>1, <3>3
    <3>5. ASSUME NEW i \in 1..b1
          PROVE  B[i] # <<>>
      <4>1. i \in 1..(n - (k + 2) + 1) /\ (k + 2) + i - 1 \in 1..Len(q)
        BY <1>1, <3>4
      <4> QED
        BY <3>4, <4>1 DEF NoneEmpty
    <3> QED
      BY <3>5
  <2>5. ASSUME NEW i \in 1..(1 + b1)
        PROVE  (<<d>> \o B)[i] # <<>>
    <3>1. CASE i = 1
      BY <1>3, <2>2, <2>3, <3>1
    <3>2. CASE i # 1
      <4>1. i - 1 \in 1..b1 /\ ~(i <= 1)
        BY <3>2
      <4> QED
        BY <2>3, <2>4, <4>1
    <3> QED
      BY <3>1, <3>2
  <2> QED
    BY <2>3, <2>5 DEF NoneEmpty
<1> QED
  BY <1>4, <1>5, <1>8, <1>9, <1>10

\* push_chunk keeps the last bytes of what was there and what is new.
LEMMA PushKeepsNewest ==
  ASSUME NEW S, NEW r \in Seq(Seq(S)), NoneEmpty(r), NEW c \in Seq(S), c # <<>>,
         NEW cap \in Nat \ {0}, NEW q \in PushChunk(r, c, cap)
  PROVE  FlattenSeq(q) = LastBytes(FlattenSeq(r) \o c, cap) /\ NoneEmpty(q)
<1>1. PICK x \in Seq(S), l \in Nat : x = FlattenSeq(r) /\ l = Len(c)
  BY FlattenType, LenProperties
<1>2. CASE l >= cap
  <2>1. q = <<LastBytes(c, cap)>>
    BY <1>1, <1>2 DEF PushChunk
  <2>2. cap \in 0..Len(c) /\ cap \in 0..l
    BY <1>1, <1>2
  <2>3. LastBytes(c, cap) \in Seq(S) /\ Len(LastBytes(c, cap)) = cap
    BY <1>1, <2>2, LastIsLong
  <2>4. LastBytes(x \o c, cap) = LastBytes(c, cap)
    BY <2>2, LastOfEnd
  <2>5. FlattenSeq(q) = LastBytes(c, cap)
    BY <2>1, <2>3, FlattenOne
  <2>6. LastBytes(c, cap) # <<>>
    BY <2>3, EmptySeq
  <2>7. Len(q) = 1 /\ q[1] = LastBytes(c, cap)
    BY <2>1
  <2>8. NoneEmpty(q)
    BY <2>6, <2>7 DEF NoneEmpty
  <2> QED
    BY <1>1, <2>4, <2>5, <2>8
<1>3. CASE l < cap
  <2>1. PICK a : a = Append(r, c)
    OBVIOUS
  <2>2. q \in Trim(a, cap)
    BY <1>1, <1>3, <2>1 DEF PushChunk
  <2>3. PICK n0 \in Nat : n0 = Len(r)
    BY LenProperties
  <2>4. /\ a \in Seq(Seq(S)) /\ Len(a) = n0 + 1 /\ a[n0 + 1] = c
        /\ \A i \in 1..n0 : a[i] = r[i]
    <3>1. /\ Append(r, c) \in Seq(Seq(S)) /\ Len(Append(r, c)) = Len(r) + 1
          /\ \A i \in 1..Len(r) : Append(r, c)[i] = r[i]
          /\ Append(r, c)[Len(r) + 1] = c
      BY AppendProperties
    <3> QED
      BY <2>1, <2>3, <3>1
  <2>5. FlattenSeq(a) = x \o c /\ x \o c \in Seq(S)
    BY <1>1, <2>1, FlattenAppend, ConcatProperties
  <2>6. NoneEmpty(a)
    <3>1. ASSUME NEW i \in 1..(n0 + 1)
          PROVE  a[i] # <<>>
      <4>1. i = n0 + 1 \/ i \in 1..n0
        OBVIOUS
      <4> QED
        BY <2>3, <2>4, <4>1 DEF NoneEmpty
    <3> QED
      BY <2>4, <3>1 DEF NoneEmpty
  <2>7. CASE Size(a) <= cap
    <3>1. q = a
      BY <2>2, <2>7 DEF Trim
    <3>2. LastBytes(x \o c, cap) = x \o c
      BY <2>5, <2>7, LastOfShort DEF Size
    <3> QED
      BY <1>1, <2>5, <2>6, <3>1, <3>2
  <2>8. CASE ~(Size(a) <= cap)
    <3>1. PICK k \in 0..n0, b \in 0..cap :
            /\ b < Len(a[k + 1]) /\ Size(Cut(a, k, b)) = cap /\ q = Cut(a, k, b)
      <4>1. PICK at \in (0..(Len(a) - 1)) \X (0..cap) :
              /\ at[2] < Len(a[at[1] + 1]) /\ Size(Cut(a, at[1], at[2])) = cap
              /\ q = Cut(a, at[1], at[2])
        BY <2>2, <2>8 DEF Trim
      <4>2. at[1] \in 0..n0 /\ at[2] \in 0..cap
        BY <2>4
      <4> QED
        BY <4>1, <4>2
    <3>2. /\ a \in Seq(Seq(S)) /\ k \in 0..(Len(a) - 1) /\ b \in Nat
          /\ b < Len(a[k + 1]) /\ NoneEmpty(a)
      BY <2>4, <2>6, <3>1
    <3>3. /\ q \in Seq(Seq(S)) /\ NoneEmpty(q)
          /\ \E y \in Seq(S) : FlattenSeq(a) = y \o FlattenSeq(q)
      <4>1. /\ Cut(a, k, b) \in Seq(Seq(S)) /\ NoneEmpty(Cut(a, k, b))
            /\ \E y \in Seq(S) : FlattenSeq(a) = y \o FlattenSeq(Cut(a, k, b))
        BY ONLY <3>2, CutIsEnd
      <4> QED
        BY <3>1, <4>1
    <3>4. PICK y \in Seq(S), z \in Seq(S) : z = FlattenSeq(q) /\ x \o c = y \o z
      BY <2>5, <3>3, FlattenType
    <3>5. Len(z) = cap
      BY <3>1, <3>4 DEF Size
    <3>6. LastBytes(y \o z, Len(z)) = z
      BY EndIsLast
    <3> QED
      BY <1>1, <3>3, <3>4, <3>5, <3>6
  <2> QED
    BY <2>7, <2>8
<1> QED
  BY <1>2, <1>3

\* The reverse loop of a snapshot stops at a chunk, and selects the end of the ring.
LEMMA SelectedIsEnd ==
  ASSUME NEW S, NEW r \in Seq(Seq(S)), r # <<>>, NoneEmpty(r), NEW max \in Nat
  PROVE  \E x \in Seq(S), y \in Seq(S) :
           y = FlattenSeq(Selected(r, max)) /\ FlattenSeq(r) = x \o y /\ y # <<>>
<1>1. PICK n \in Nat \ {0} : n = Len(r)
  BY EmptySeq
<1> DEFINE size(k) == Size(SubSeq(r, 1, k - 1))
           stops(k) == size(k) <= max /\ \A j \in (k + 1)..n : size(j) > max
           T == {k \in 1..n : \A j \in (k + 1)..n : size(j) > max}
<1>2. \A k \in 1..n : size(k) \in Nat
  <2>1. ASSUME NEW k \in 1..n
        PROVE  size(k) \in Nat
    <3>1. \A i \in 1..(k - 1) : r[i] \in Seq(S)
      <4>1. \A i \in 1..(k - 1) : i \in 1..Len(r)
        BY <1>1
      <4> QED
        BY <4>1, ElementOfSeq
    <3>2. k - 1 \in Int
      OBVIOUS
    <3>3. SubSeq(r, 1, k - 1) \in Seq(Seq(S))
      BY <3>1, <3>2, SubSeqProperties, SMTT(60)
    <3> QED
      BY <3>3, FlattenType, LenProperties DEF Size
  <2> QED
    BY <2>1
<1>3. size(1) <= max
  <2>1. SubSeq(r, 1, 1 - 1) = <<>>
    BY SubSeqEmpty
  <2>2. size(1) = 0
    BY <2>1, FlattenEmpty, EmptySeq DEF Size
  <2> QED
    BY <2>2
<1>4. \E k \in 1..n : stops(k)
  <2>1. n \in T /\ T \subseteq Nat
    BY <1>1
  <2>2. PICK m \in T : \A j \in T : m <= j
    <3> HIDE DEF T
    <3> QED
      BY <2>1, LeastNat
  <2>3. m \in 1..n /\ \A j \in (m + 1)..n : size(j) > max
    OBVIOUS
  <2>4. size(m) <= max
    <3>1. CASE m = 1
      BY <1>3, <3>1
    <3>2. CASE m # 1
      <4>1. m - 1 \in 1..n /\ ~(m <= m - 1) /\ (m - 1) + 1 = m
        BY <2>3, <3>2
      <4>2. m - 1 \notin T
        <5> HIDE DEF T
        <5> QED
          BY <2>2, <4>1
      <4>3. PICK j \in m..n : ~(size(j) > max)
        BY <4>1, <4>2
      <4>4. j = m
        BY <2>3, <4>3
      <4>5. size(m) \in Nat /\ ~(size(m) > max)
        BY <1>2, <2>3, <4>3, <4>4
      <4> HIDE DEF size
      <4> QED
        BY <4>5
    <3> QED
      BY <3>1, <3>2
  <2> QED
    BY <2>3, <2>4
<1>5. PICK first \in 1..n : Selected(r, max) = SubSeq(r, first, Len(r))
  <2> DEFINE first == CHOOSE k \in 1..n : stops(k)
  <2>1. first \in 1..n
    <3> HIDE DEF stops
    <3> QED
      BY <1>4
  <2>2. Selected(r, max) = SubSeq(r, first, Len(r))
    BY <1>1 DEF Selected
  <2> QED
    BY <2>1, <2>2
<1>6. PICK k \in 0..(Len(r) - 1) : k + 1 = first
  <2>1. first - 1 \in 0..(Len(r) - 1) /\ (first - 1) + 1 = first
    BY <1>1
  <2> QED
    BY <2>1
<1>7. /\ r[k + 1] \in Seq(S)
      /\ SubSeq(r, 1, k) \in Seq(Seq(S)) /\ SubSeq(r, k + 2, Len(r)) \in Seq(Seq(S))
      /\ SubSeq(r, k + 1, Len(r)) = <<r[k + 1]>> \o SubSeq(r, k + 2, Len(r))
      /\ r = SubSeq(r, 1, k) \o SubSeq(r, k + 1, Len(r))
  BY SplitAt
<1>8. PICK f \in Seq(S), A \in Seq(Seq(S)), B \in Seq(Seq(S)) :
        /\ f = r[first] /\ f # <<>> /\ Selected(r, max) = <<f>> \o B
        /\ r = A \o (<<f>> \o B)
  <2>1. r[first] # <<>>
    BY <1>1 DEF NoneEmpty
  <2> QED
    BY <1>5, <1>6, <1>7, <2>1, Zenon
<1>9. /\ <<f>> \o B \in Seq(Seq(S)) /\ FlattenSeq(<<f>> \o B) = f \o FlattenSeq(B)
      /\ FlattenSeq(B) \in Seq(S)
  BY FlattenTwo
<1>10. FlattenSeq(A \o (<<f>> \o B)) = FlattenSeq(A) \o FlattenSeq(<<f>> \o B)
  BY <1>9, FlattenConcat
<1>11. PICK a \in Seq(S), b \in Seq(S) : a = FlattenSeq(A) /\ b = FlattenSeq(B)
  BY <1>9, FlattenType
<1>12. f \o b \in Seq(S) /\ f \o b # <<>>
  <2>1. PICK l \in Nat \ {0}, m \in Nat : l = Len(f) /\ m = Len(b)
    BY <1>8, EmptySeq, LenProperties
  <2>2. f \o b \in Seq(S) /\ Len(f \o b) = l + m
    BY <2>1, ConcatShape
  <2>3. l + m # 0
    BY <2>1
  <2> QED
    BY <2>2, <2>3, EmptySeq
<1>13. FlattenSeq(r) = a \o (f \o b) /\ FlattenSeq(Selected(r, max)) = f \o b
  BY <1>8, <1>9, <1>10, <1>11
<1> QED
  BY <1>12, <1>13

\* What ByteRingBuffer::snapshot returns.
LEMMA SnapshotIsEnd ==
  ASSUME NEW S, NEW r \in Seq(Seq(S)), NoneEmpty(r), NEW max \in Nat \ {0}
  PROVE  /\ RingSnapshot(r, max) = LastBytes(FlattenSeq(r), Len(RingSnapshot(r, max)))
         /\ Len(RingSnapshot(r, max)) \in 0..max
         /\ Len(RingSnapshot(r, max)) <= Len(FlattenSeq(r))
         /\ FlattenSeq(r) # <<>> => RingSnapshot(r, max) # <<>>
         /\ max >= Len(FlattenSeq(r)) => RingSnapshot(r, max) = FlattenSeq(r)
<1>1. PICK z \in Seq(S), l \in Nat : z = FlattenSeq(r) /\ l = Len(z)
  BY FlattenType, LenProperties
<1>2. CASE max >= l
  <2>1. RingSnapshot(r, max) = z
    BY <1>1, <1>2 DEF RingSnapshot, Size
  <2>2. LastBytes(z, l) = z
    BY <1>1, LastOfShort
  <2> QED
    BY <1>1, <1>2, <2>1, <2>2
<1>3. CASE ~(max >= l)
  <2>1. r # <<>>
    <3>1. r = <<>> => l = 0
      BY <1>1, FlattenEmpty, EmptySeq
    <3> QED
      BY <1>3, <3>1
  <2>2. PICK x \in Seq(S), y \in Seq(S) :
          y = FlattenSeq(Selected(r, max)) /\ z = x \o y /\ y # <<>>
    <3>1. r \in Seq(Seq(S)) /\ r # <<>> /\ NoneEmpty(r) /\ max \in Nat
      BY <2>1
    <3>2. \E x \in Seq(S), y \in Seq(S) :
            y = FlattenSeq(Selected(r, max)) /\ FlattenSeq(r) = x \o y /\ y # <<>>
      BY ONLY <3>1, SelectedIsEnd
    <3> QED
      BY <1>1, <3>2
  <2>3. RingSnapshot(r, max) = LastBytes(y, max)
    BY <1>1, <1>3, <2>2 DEF RingSnapshot, Size
  <2>4. PICK h \in Nat \ {0} : h = Len(y)
    BY <2>2, EmptySeq
  <2>5. PICK a \in Nat : a = Len(x) /\ l = a + h
    <3>1. PICK a \in Nat : a = Len(x)
      BY LenProperties
    <3>2. Len(x \o y) = a + h
      BY <2>4, <3>1, ConcatShape
    <3> QED
      BY <1>1, <2>2, <3>1, <3>2
  <2>6. PICK m \in Nat : m = MinOf(max, h) /\ m \in 1..h /\ m <= max /\ m \in 0..Len(y)
    BY <2>4 DEF MinOf
  <2>7. LastBytes(y, max) = LastBytes(y, m)
    <3>1. MinOf(max, Len(y)) = MinOf(m, Len(y))
      BY <2>4, <2>6 DEF MinOf
    <3> QED
      BY <3>1 DEF LastBytes
  <2>8. LastBytes(x \o y, m) = LastBytes(y, m)
    BY <2>6, LastOfEnd
  <2>9. LastBytes(y, m) \in Seq(S) /\ Len(LastBytes(y, m)) = m
    BY <2>4, <2>6, LastIsLong
  <2>10. LastBytes(y, m) # <<>>
    BY <2>6, <2>9, EmptySeq
  <2>11. RingSnapshot(r, max) = LastBytes(z, m) /\ Len(RingSnapshot(r, max)) = m
    BY <2>2, <2>3, <2>7, <2>8, <2>9
  <2>12. m \in 0..max /\ m <= l
    BY <2>5, <2>6
  <2> QED
    BY <1>1, <1>3, <2>3, <2>7, <2>10, <2>11, <2>12
<1> QED
  BY <1>2, <1>3

-----------------------------------------------------------------------------
(* Where bytes are.                                                        *)

\* No byte is lost or added where two sequences meet.
LEMMA ToSetOfConcat ==
  ASSUME NEW S, NEW x \in Seq(S), NEW y \in Seq(S)
  PROVE  ToSet(x \o y) = ToSet(x) \cup ToSet(y)
<1>1. PICK a \in Nat, b \in Nat : a = Len(x) /\ b = Len(y)
  BY LenProperties
<1>2. PICK z : z = x \o y
  OBVIOUS
<1>3. /\ z \in Seq(S) /\ Len(z) = a + b
      /\ \A i \in 1..(a + b) : z[i] = IF i <= a THEN x[i] ELSE y[i - a]
  BY <1>1, <1>2, ConcatShape
<1>4. DOMAIN x = 1..a /\ DOMAIN y = 1..b /\ DOMAIN z = 1..(a + b)
  BY <1>1, <1>3, LenProperties
<1>5. /\ ToSet(x) = {x[i] : i \in 1..a} /\ ToSet(y) = {y[i] : i \in 1..b}
      /\ ToSet(z) = {z[i] : i \in 1..(a + b)}
  BY <1>4 DEF ToSet
<1>6. ASSUME NEW i \in 1..(a + b)
      PROVE  z[i] \in {x[j] : j \in 1..a} \cup {y[j] : j \in 1..b}
  <2>1. CASE i <= a
    <3>1. i \in 1..a /\ z[i] = x[i]
      BY <1>3, <2>1
    <3> QED
      BY <3>1
  <2>2. CASE ~(i <= a)
    <3>1. i - a \in 1..b /\ z[i] = y[i - a]
      BY <1>3, <2>2
    <3> QED
      BY <3>1
  <2> QED
    BY <2>1, <2>2
<1>7. ASSUME NEW i \in 1..a
      PROVE  x[i] \in {z[j] : j \in 1..(a + b)}
  <2>1. i \in 1..(a + b) /\ z[i] = x[i]
    BY <1>3
  <2> QED
    BY <2>1
<1>8. ASSUME NEW i \in 1..b
      PROVE  y[i] \in {z[j] : j \in 1..(a + b)}
  <2>1. /\ i + a \in 1..(a + b) /\ ~(i + a <= a) /\ (i + a) - a = i
    OBVIOUS
  <2>2. z[i + a] = y[i]
    BY <1>3, <2>1
  <2> QED
    BY <2>1, <2>2
<1> QED
  BY <1>2, <1>5, <1>6, <1>7, <1>8

\* A sequence that is increasing and at most a goes on with an increasing one beyond a.
LEMMA IncreasingGoesOn ==
  ASSUME NEW x \in Seq(Nat), NEW y \in Seq(Nat), NEW m \in Nat,
         Increasing(x), Increasing(y),
         \A i \in 1..Len(x) : x[i] <= m, \A i \in 1..Len(y) : y[i] > m
  PROVE  Increasing(x \o y)
<1>1. PICK a \in Nat, b \in Nat : a = Len(x) /\ b = Len(y)
  BY LenProperties
<1>2. PICK z : z = x \o y
  OBVIOUS
<1>3. /\ z \in Seq(Nat) /\ Len(z) = a + b
      /\ \A i \in 1..(a + b) : z[i] = IF i <= a THEN x[i] ELSE y[i - a]
  BY <1>1, <1>2, ConcatShape
<1>4. /\ \A i \in 1..(a - 1) : x[i] < x[i + 1]
      /\ \A i \in 1..(b - 1) : y[i] < y[i + 1]
      /\ \A i \in 1..a : x[i] <= m /\ x[i] \in Nat
      /\ \A i \in 1..b : y[i] > m /\ y[i] \in Nat
  BY <1>1, ElementOfSeq DEF Increasing
<1>5. ASSUME NEW i \in 1..(a + b - 1)
      PROVE  z[i] < z[i + 1]
  <2>1. i \in 1..(a + b) /\ i + 1 \in 1..(a + b)
    OBVIOUS
  <2>2. CASE i < a
    <3>1. i \in 1..(a - 1) /\ z[i] = x[i] /\ z[i + 1] = x[i + 1]
      BY <1>3, <2>1, <2>2
    <3> QED
      BY <1>4, <3>1
  <2>3. CASE i = a
    <3>1. z[i] = x[i] /\ z[i + 1] = y[1] /\ i \in 1..a /\ 1 \in 1..b
      BY <1>3, <2>1, <2>3
    <3>2. x[i] <= m /\ y[1] > m /\ x[i] \in Nat /\ y[1] \in Nat
      BY <1>4, <3>1
    <3> QED
      BY <3>1, <3>2
  <2>4. CASE i > a
    <3>1. i - a \in 1..(b - 1) /\ (i - a) + 1 = (i + 1) - a /\ ~(i <= a) /\ ~(i + 1 <= a)
      BY <2>4
    <3>2. z[i] = y[i - a] /\ z[i + 1] = y[(i + 1) - a]
      BY <1>3, <2>1, <3>1
    <3> QED
      BY <1>4, <3>1, <3>2
  <2> QED
    BY <2>2, <2>3, <2>4
<1> QED
  BY <1>2, <1>3, <1>5 DEF Increasing

\* What comes before in an increasing sequence is increasing.
LEMMA IncreasingBefore ==
  ASSUME NEW x \in Seq(Nat), NEW y \in Seq(Nat), Increasing(x \o y)
  PROVE  Increasing(x)
<1>1. PICK a \in Nat, b \in Nat : a = Len(x) /\ b = Len(y)
  BY LenProperties
<1>2. PICK z : z = x \o y
  OBVIOUS
<1>3. /\ Len(z) = a + b
      /\ \A i \in 1..(a + b) : z[i] = IF i <= a THEN x[i] ELSE y[i - a]
  BY <1>1, <1>2, ConcatShape
<1>4. \A i \in 1..(a + b - 1) : z[i] < z[i + 1]
  BY <1>2, <1>3 DEF Increasing
<1>5. ASSUME NEW i \in 1..(a - 1)
      PROVE  x[i] < x[i + 1]
  <2>1. i \in 1..(a + b - 1) /\ z[i] = x[i] /\ z[i + 1] = x[i + 1]
    BY <1>3
  <2> QED
    BY <1>4, <2>1
<1> QED
  BY <1>1, <1>5 DEF Increasing

-----------------------------------------------------------------------------
(* The invariant about bytes.                                              *)

\* The session's state exists, or will when the mux task gets that far.
Live ==
  registered \/ creator = "idle" \/ \E i \in 1..Len(queue) : queue[i].op = "register"

\* at[i] is where the stream is before command i: the reader's chunks lie in the
\* channel in the order in which they were read, from what was absorbed to what was
\* produced.
Carries(at) ==
  /\ at[Len(queue) + 1] = produced
  /\ \A i \in 1..Len(queue) :
       IF queue[i].op = "output"
       THEN /\ at[i + 1] = at[i] + Len(queue[i].chunk)
            /\ queue[i].chunk = Stream(at[i] + 1, at[i + 1])
       ELSE at[i + 1] = at[i]
  /\ Live => at[1] = absorbed

QueueIsStream == \E at \in [1..(Len(queue) + 1) -> 0..MaxBytes] : Carries(at)

\* A session is registered before anything else is sent about it.
RegisterIsFirst ==
  /\ creator = "idle" =>
       /\ reader = "none" /\ ~listed /\ ~registered
       /\ \A i \in 1..Len(queue) : queue[i].op = "other"
  /\ \A i \in 1..Len(queue) : queue[i].op = "register" =>
       ~registered /\ \A j \in 1..(i - 1) : queue[j].op = "other"

Waiting == QueueIsStream /\ RegisterIsFirst

\* A session that is registered anew finds nothing of an earlier one.
StartsAnew ==
  ~registered => FlowDefault /\ absorbed = 0 /\ log = <<>> /\ outputs = <<>>

\* Bytes 1 to n, each once.
Whole(s, n) == Len(s) = n /\ ToSet(s) = 1..n

\* The chunk that comes after byte n.
Follows(c, n) == c = Stream(n + 1, n + Len(c))

Kept == FlattenSeq(log) \o pending

AbsorbedIsKept == Whole(Kept, absorbed)

OutputChunks == [i \in DOMAIN outputs |-> outputs[i].chunk]

Shown == FlattenSeq(OutputChunks) \o pending

\* What was emitted, and then what waits, is in the order of the stream.
ShownInOrder == Increasing(Shown) /\ ToSet(Shown) \subseteq 1..absorbed

\* Nothing is unread while the session is shown.
HiddenOnly == subscribers > 0 => unreadBytes = 0 /\ unreadChunks = 0 /\ tail = <<>>

\* The ring holds the last bytes absorbed, in chunks that are not empty.
RingIsNewest ==
  NoneEmpty(ring) /\ FlattenSeq(ring) = LastBytes(Stream(1, absorbed), RingCap)

BytesInv ==
  /\ AbsorbedIsKept
  /\ ShownInOrder
  /\ HiddenOnly
  /\ UnreadIsNewest /\ unreadBytes <= absorbed
  /\ RingIsNewest

ByteInv == HistoryInv /\ Waiting /\ StartsAnew /\ BytesInv

-----------------------------------------------------------------------------
(* Types, over the natural numbers.                                        *)

LEMMA ByteIsNat == Byte \subseteq Nat /\ Seq(Byte) \subseteq Seq(Nat)
<1>1. Byte \subseteq Nat
  BY BoundsAssumption DEF Byte
<1> QED
  BY <1>1, SeqMonotonic

LEMMA ChunksAreNat ==
  ASSUME NEW s \in Seq(Chunk)
  PROVE  s \in Seq(Seq(Nat))
  BY ByteIsNat, SeqMonotonic DEF Chunk

LEMMA OutputChunksType ==
  ASSUME NEW s \in Seq(Frame)
  PROVE  [i \in DOMAIN s |-> s[i].chunk] \in Seq(Seq(Nat))
<1>1. PICK n \in Nat : n = Len(s) /\ DOMAIN s = 1..n
  BY LenProperties
<1>2. \A i \in 1..n : s[i] \in Frame
  BY <1>1, ElementOfSeq
<1>3. \A i \in 1..n : s[i].chunk \in Seq(Nat)
  BY <1>2, ByteIsNat DEF Frame, Chunk
<1>4. [i \in 1..n |-> s[i].chunk] \in Seq(Seq(Nat))
  BY <1>3
<1> QED
  BY <1>1, <1>4

\* What the byte lemmas need of TypeOK: every buffer holds natural numbers.
LEMMA ByteTypes ==
  ASSUME TypeOK
  PROVE  /\ log \in Seq(Seq(Nat)) /\ ring \in Seq(Seq(Nat))
         /\ OutputChunks \in Seq(Seq(Nat))
         /\ pending \in Seq(Nat) /\ tail \in Seq(Nat)
         /\ FlattenSeq(log) \in Seq(Nat) /\ FlattenSeq(ring) \in Seq(Nat)
         /\ FlattenSeq(OutputChunks) \in Seq(Nat)
         /\ absorbed \in Nat /\ seq \in Nat /\ unreadBytes \in Nat /\ unreadChunks \in Nat
<1>1. /\ log \in Seq(Chunk) /\ ring \in Seq(Chunk) /\ outputs \in Seq(Frame)
      /\ pending \in Seq(Byte) /\ tail \in Seq(Byte)
      /\ absorbed \in Nat /\ seq \in Nat /\ unreadBytes \in Nat /\ unreadChunks \in Nat
  BY DEF TypeOK, Chunk
<1>2. log \in Seq(Seq(Nat)) /\ ring \in Seq(Seq(Nat)) /\ OutputChunks \in Seq(Seq(Nat))
  BY <1>1, ChunksAreNat, OutputChunksType DEF OutputChunks
<1>3. pending \in Seq(Nat) /\ tail \in Seq(Nat)
  BY <1>1, ByteIsNat
<1> QED
  BY <1>1, <1>2, <1>3, FlattenType

LEMMA ToSetOfStream ==
  ASSUME NEW lo \in Nat \ {0}, NEW hi \in Nat, lo <= hi + 1
  PROVE  ToSet(Stream(lo, hi)) = lo..hi
<1>1. PICK s \in Seq(Nat) : /\ s = Stream(lo, hi) /\ Len(s) = hi - lo + 1
                           /\ \A i \in 1..(hi - lo + 1) : s[i] = lo + i - 1
  BY StreamProperties
<1>2. ToSet(s) = {s[i] : i \in 1..(hi - lo + 1)}
  BY <1>1, LenProperties DEF ToSet
<1>3. \A i \in 1..(hi - lo + 1) : s[i] \in lo..hi
  BY <1>1
<1>4. ASSUME NEW b \in lo..hi
      PROVE  \E i \in 1..(hi - lo + 1) : s[i] = b
  <2>1. b - lo + 1 \in 1..(hi - lo + 1) /\ s[b - lo + 1] = b
    BY <1>1
  <2> QED
    BY <2>1
<1> QED
  BY <1>1, <1>2, <1>3, <1>4

LEMMA StreamIncreases ==
  ASSUME NEW lo \in Nat \ {0}, NEW hi \in Nat, lo <= hi + 1
  PROVE  Increasing(Stream(lo, hi))
<1>1. PICK s \in Seq(Nat) : /\ s = Stream(lo, hi) /\ Len(s) = hi - lo + 1
                           /\ \A i \in 1..(hi - lo + 1) : s[i] = lo + i - 1
  BY StreamProperties
<1>2. \A i \in 1..(hi - lo + 1 - 1) : s[i] < s[i + 1]
  BY <1>1
<1> QED
  BY <1>1, <1>2 DEF Increasing

LEMMA ElementInToSet ==
  ASSUME NEW S, NEW s \in Seq(S), NEW i \in 1..Len(s)
  PROVE  s[i] \in ToSet(s)
  BY LenProperties DEF ToSet

-----------------------------------------------------------------------------
(* What is absorbed next.                                                  *)

LEMMA BytesOfConcat ==
  ASSUME NEW x \in Seq(Nat), NEW y \in Seq(Nat)
  PROVE  /\ x \o y \in Seq(Nat) /\ Len(x \o y) = Len(x) + Len(y)
         /\ ToSet(x \o y) = ToSet(x) \cup ToSet(y)
  BY ConcatProperties, ToSetOfConcat

\* The bytes that arrive are kept behind what waits, or in front of it.
LEMMA WholeGrows ==
  ASSUME NEW f \in Seq(Nat), NEW p \in Seq(Nat), NEW a \in Nat,
         NEW c \in Seq(Nat), Follows(c, a), Whole(f \o p, a)
  PROVE  Whole(f \o (p \o c), a + Len(c)) /\ Whole((f \o c) \o p, a + Len(c))
<1>1. PICK x \in Nat, y \in Nat, l \in Nat : x = Len(f) /\ y = Len(p) /\ l = Len(c)
  BY LenProperties
<1>2. PICK u, v : u = p \o c /\ v = f \o c
  OBVIOUS
<1>3. a + 1 \in Nat \ {0} /\ a + l \in Nat /\ a + 1 <= (a + l) + 1
      /\ (a + l) - (a + 1) + 1 = l
  OBVIOUS
<1>4. l = Len(c) /\ ToSet(c) = (a + 1)..(a + l)
  <2>1. ToSet(Stream(a + 1, a + l)) = (a + 1)..(a + l)
    BY <1>3, ToSetOfStream
  <2> QED
    BY <1>1, <2>1 DEF Follows
<1>5. x + y = a /\ ToSet(f) \cup ToSet(p) = 1..a
  <2>1. Len(f \o p) = Len(f) + Len(p) /\ ToSet(f \o p) = ToSet(f) \cup ToSet(p)
    BY ONLY f \in Seq(Nat), p \in Seq(Nat), BytesOfConcat
  <2> QED
    BY <1>1, <2>1 DEF Whole
<1>6. u \in Seq(Nat) /\ Len(u) = Len(p) + Len(c) /\ ToSet(u) = ToSet(p) \cup ToSet(c)
  BY ONLY <1>2, p \in Seq(Nat), c \in Seq(Nat), BytesOfConcat
<1>7. v \in Seq(Nat) /\ Len(v) = Len(f) + Len(c) /\ ToSet(v) = ToSet(f) \cup ToSet(c)
  BY ONLY <1>2, f \in Seq(Nat), c \in Seq(Nat), BytesOfConcat
<1>8. /\ Len(f \o u) = Len(f) + Len(u) /\ ToSet(f \o u) = ToSet(f) \cup ToSet(u)
      /\ Len(v \o p) = Len(v) + Len(p) /\ ToSet(v \o p) = ToSet(v) \cup ToSet(p)
  BY ONLY <1>6, <1>7, f \in Seq(Nat), p \in Seq(Nat), BytesOfConcat
<1>9. 1..a \cup (a + 1)..(a + l) = 1..(a + l)
  OBVIOUS
<1>10. ToSet(f \o u) = 1..(a + l) /\ ToSet(v \o p) = 1..(a + l)
  <2>1. /\ ToSet(f \o u) = (ToSet(f) \cup ToSet(p)) \cup ToSet(c)
        /\ ToSet(v \o p) = (ToSet(f) \cup ToSet(p)) \cup ToSet(c)
    BY ONLY <1>6, <1>7, <1>8
  <2> QED
    BY <1>4, <1>5, <1>9, <2>1
<1>11. Len(f \o u) = a + l /\ Len(v \o p) = a + l
  <2>1. Len(u) = y + l /\ Len(v) = x + l
    BY ONLY <1>1, <1>4, <1>6, <1>7, Zenon
  <2>2. Len(f \o u) = x + (y + l) /\ Len(v \o p) = (x + l) + y
    BY ONLY <1>1, <1>8, <2>1, Zenon
  <2>3. x + (y + l) = a + l /\ (x + l) + y = a + l
    BY ONLY x \in Nat, y \in Nat, l \in Nat, <1>5
  <2> QED
    BY ONLY <2>2, <2>3, Zenon
<1> QED
  BY <1>1, <1>2, <1>10, <1>11 DEF Whole

\* More bytes wait behind what is in order.
LEMMA OrderGoesOn ==
  ASSUME NEW s \in Seq(Nat), NEW a \in Nat, NEW c \in Seq(Nat), Follows(c, a),
         Increasing(s), ToSet(s) \subseteq 1..a
  PROVE  Increasing(s \o c) /\ ToSet(s \o c) \subseteq 1..(a + Len(c))
<1>1. PICK l \in Nat : l = Len(c) /\ c = Stream(a + 1, a + l)
  BY LenProperties DEF Follows
<1>2. a + 1 \in Nat \ {0} /\ a + l \in Nat /\ a + 1 <= (a + l) + 1
  OBVIOUS
<1>3. Increasing(c) /\ ToSet(c) = (a + 1)..(a + l)
  BY <1>1, <1>2, StreamIncreases, ToSetOfStream
<1>4. \A i \in 1..Len(s) : s[i] <= a
  <2>1. \A i \in 1..Len(s) : s[i] \in ToSet(s)
    BY ElementInToSet
  <2> QED
    BY <2>1
<1>5. \A i \in 1..Len(c) : c[i] > a
  <2>1. \A i \in 1..Len(c) : c[i] \in (a + 1)..(a + l)
    BY <1>3, ElementInToSet
  <2> QED
    BY <2>1
<1>6. Increasing(s \o c)
  BY <1>3, <1>4, <1>5, IncreasingGoesOn
<1>7. ToSet(s \o c) = ToSet(s) \cup ToSet(c)
  BY ToSetOfConcat
<1>8. 1..a \cup (a + 1)..(a + l) = 1..(a + l)
  OBVIOUS
<1> QED
  BY <1>1, <1>3, <1>6, <1>7, <1>8

-----------------------------------------------------------------------------
(* The bytes, action by action.                                            *)

LEMMA KeptIsNat ==
  ASSUME TypeOK
  PROVE  Kept \in Seq(Nat) /\ Shown \in Seq(Nat)
<1>1. PICK f \in Seq(Nat), e \in Seq(Nat), p \in Seq(Nat) :
        f = FlattenSeq(log) /\ e = FlattenSeq(OutputChunks) /\ p = pending
  BY ByteTypes
<1>2. f \o p \in Seq(Nat) /\ e \o p \in Seq(Nat)
  BY ONLY f \in Seq(Nat), e \in Seq(Nat), p \in Seq(Nat), ConcatProperties
<1> QED
  BY <1>1, <1>2 DEF Kept, Shown

\* One more frame is the end of the log.
LEMMA LogGrows ==
  ASSUME TypeOK, NEW c \in Seq(Nat), log' = Append(log, c)
  PROVE  FlattenSeq(log') = FlattenSeq(log) \o c
<1>1. log \in Seq(Seq(Nat))
  BY ByteTypes
<1> QED
  BY <1>1, FlattenAppend

\* Nothing is unread, whatever was absorbed.
LEMMA NothingUnread ==
  ASSUME NEW a \in Nat, NEW q \in Nat, NEW s, NEW cap \in Nat
  PROVE  /\ FlattenSeq(SubSeq(s, q - 0 + 1, q)) = Stream(a - 0 + 1, a)
         /\ <<>> = LastBytes(Stream(a - 0 + 1, a), cap)
<1>1. q - 0 + 1 = q + 1 /\ a - 0 + 1 = a + 1 /\ q + 1 \in Int /\ q \in Int /\ q < q + 1
  OBVIOUS
<1>2. SubSeq(s, q + 1, q) = <<>>
  BY ONLY <1>1, SubSeqEmpty
<1>3. Stream(a + 1, a) = <<>>
  BY StreamEmpty
<1>4. LastBytes(<<>>, cap) = <<>>
  <2>1. <<>> \in Seq(Nat) /\ Len(<<>>) <= cap
    BY EmptySeq
  <2> QED
    BY <2>1, LastOfShort
<1> QED
  BY <1>1, <1>2, <1>3, <1>4, FlattenEmpty

\* A session with nothing unread satisfies UnreadIsNewest.
LEMMA UnreadIsNone ==
  ASSUME TypeOK, TypeOK', unreadBytes' = 0, unreadChunks' = 0, tail' = <<>>
  PROVE  UnreadIsNewest'
<1>1. absorbed' \in Nat /\ seq' \in Nat /\ TailCap \in Nat
  BY BoundsAssumption DEF TypeOK
<1>2. /\ FlattenSeq(SubSeq(log', seq' - 0 + 1, seq')) = Stream(absorbed' - 0 + 1, absorbed')
      /\ <<>> = LastBytes(Stream(absorbed' - 0 + 1, absorbed'), TailCap)
  BY ONLY <1>1, NothingUnread
<1> QED
  BY <1>1, <1>2 DEF UnreadIsNewest

\* The last k chunks of s are the last b of the bytes 1 to a.
EndIs(s, k, b, a) ==
  FlattenSeq(SubSeq(s, Len(s) - k + 1, Len(s))) = Stream(a - b + 1, a)

\* A chunk joins what is unread.
LEMMA UnreadGrows ==
  ASSUME NEW s \in Seq(Seq(Nat)), NEW k \in 0..Len(s), NEW a \in Nat, NEW b \in 0..a,
         NEW c \in Seq(Nat), Follows(c, a), EndIs(s, k, b, a)
  PROVE  EndIs(Append(s, c), k + 1, b + Len(c), a + Len(c))
<1>1. PICK q \in Nat, l \in Nat : q = Len(s) /\ l = Len(c)
  BY LenProperties
<1>2. PICK t : t = Append(s, c)
  OBVIOUS
<1>3. q = Len(s) /\ l = Len(c) /\ t = Append(s, c)
  BY <1>1, <1>2
<1>4. t \in Seq(Seq(Nat)) /\ Len(t) = q + 1 /\ t[q + 1] = c /\ \A i \in 1..q : t[i] = s[i]
  <2>1. /\ Append(s, c) \in Seq(Seq(Nat)) /\ Len(Append(s, c)) = Len(s) + 1
        /\ \A i \in 1..Len(s) : Append(s, c)[i] = s[i]
        /\ Append(s, c)[Len(s) + 1] = c
    BY AppendProperties
  <2> QED
    BY <1>3, <2>1
<1>5. c = Stream(a + 1, a + l) /\ FlattenSeq(SubSeq(s, q - k + 1, q)) = Stream(a - b + 1, a)
  BY <1>3 DEF Follows, EndIs
<1>6. PICK u : u = SubSeq(s, q - k + 1, q)
  OBVIOUS
<1>7. u \in Seq(Seq(Nat)) /\ Len(u) = k /\ \A i \in 1..k : u[i] = s[q - k + i]
  <2>1. \A i \in (q - k + 1)..q : s[i] \in Seq(Nat)
    <3>1. \A i \in (q - k + 1)..q : i \in 1..Len(s)
      BY <1>3
    <3> QED
      BY <3>1, ElementOfSeq
  <2>2. q - k + 1 \in Int /\ q \in Int
    OBVIOUS
  <2>3. /\ SubSeq(s, q - k + 1, q) \in Seq(Seq(Nat))
        /\ Len(SubSeq(s, q - k + 1, q)) =
             (IF q - k + 1 <= q THEN q - (q - k + 1) + 1 ELSE 0)
        /\ \A i \in 1..(q - (q - k + 1) + 1) :
             SubSeq(s, q - k + 1, q)[i] = s[(q - k + 1) + i - 1]
    BY ONLY <2>1, <2>2, SubSeqProperties, SMTT(60)
  <2>4. /\ (IF q - k + 1 <= q THEN q - (q - k + 1) + 1 ELSE 0) = k
        /\ q - (q - k + 1) + 1 = k
        /\ \A i \in 1..k : (q - k + 1) + i - 1 = q - k + i
    OBVIOUS
  <2> QED
    BY <1>6, <2>3, <2>4
<1>8. PICK w : w = SubSeq(t, q - k + 1, q + 1)
  OBVIOUS
<1>9. w \in Seq(Seq(Nat)) /\ Len(w) = k + 1 /\ \A i \in 1..(k + 1) : w[i] = t[q - k + i]
  <2>1. \A i \in (q - k + 1)..(q + 1) : t[i] \in Seq(Nat)
    <3>1. \A i \in (q - k + 1)..(q + 1) : i \in 1..Len(t)
      BY <1>3, <1>4
    <3> QED
      BY <1>4, <3>1, ElementOfSeq
  <2>2. q - k + 1 \in Int /\ q + 1 \in Int
    OBVIOUS
  <2>3. /\ SubSeq(t, q - k + 1, q + 1) \in Seq(Seq(Nat))
        /\ Len(SubSeq(t, q - k + 1, q + 1)) =
             (IF q - k + 1 <= q + 1 THEN (q + 1) - (q - k + 1) + 1 ELSE 0)
        /\ \A i \in 1..((q + 1) - (q - k + 1) + 1) :
             SubSeq(t, q - k + 1, q + 1)[i] = t[(q - k + 1) + i - 1]
    BY ONLY <2>1, <2>2, SubSeqProperties, SMTT(60)
  <2>4. /\ (IF q - k + 1 <= q + 1 THEN (q + 1) - (q - k + 1) + 1 ELSE 0) = k + 1
        /\ (q + 1) - (q - k + 1) + 1 = k + 1
        /\ \A i \in 1..(k + 1) : (q - k + 1) + i - 1 = q - k + i
    OBVIOUS
  <2> QED
    BY <1>8, <2>3, <2>4
<1>10. w = Append(u, c)
  <2>1. PICK v : v = Append(u, c)
    OBVIOUS
  <2>2. /\ v \in Seq(Seq(Nat)) /\ Len(v) = k + 1 /\ v[k + 1] = c
        /\ \A i \in 1..k : v[i] = u[i]
    <3>1. /\ Append(u, c) \in Seq(Seq(Nat)) /\ Len(Append(u, c)) = Len(u) + 1
          /\ \A i \in 1..Len(u) : Append(u, c)[i] = u[i]
          /\ Append(u, c)[Len(u) + 1] = c
      BY <1>7, AppendProperties
    <3> QED
      BY <1>7, <2>1, <3>1
  <2>3. ASSUME NEW i \in 1..(k + 1)
        PROVE  w[i] = v[i]
    <3>1. CASE i = k + 1
      <4>1. q - k + i = q + 1
        BY <3>1
      <4> QED
        BY ONLY <1>4, <1>9, <2>2, <3>1, <4>1, k \in 0..Len(s), q \in Nat
    <3>2. CASE i # k + 1
      <4>1. i \in 1..k /\ q - k + i \in 1..q
        BY <1>3, <3>2
      <4>2. v[i] = s[q - k + i]
        BY <1>7, <2>2, <4>1
      <4>3. w[i] = s[q - k + i]
        BY <1>4, <1>9, <4>1
      <4> QED
        BY <4>2, <4>3
    <3> QED
      BY <3>1, <3>2
  <2>4. \A i \in 1..Len(w) : w[i] = v[i]
    BY <1>9, <2>3
  <2>5. Len(w) = Len(v)
    BY <1>9, <2>2
  <2>6. w = v
    BY ONLY <1>9, <2>2, <2>4, <2>5, SeqEqual
  <2> QED
    BY <2>1, <2>6
<1>11. FlattenSeq(w) = FlattenSeq(u) \o c
  BY <1>7, <1>10, FlattenAppend
<1>12. Stream(a - b + 1, a) \o Stream(a + 1, a + l) = Stream(a - b + 1, a + l)
  <2>1. a - b + 1 \in Nat \ {0} /\ a + l \in Nat /\ a - b + 1 <= a + 1 /\ a <= a + l
    OBVIOUS
  <2> QED
    BY <2>1, StreamGoesOn
<1> QED
  <2>1. FlattenSeq(SubSeq(t, q - k + 1, q + 1)) = Stream(a - b + 1, a + l)
    BY <1>6, <1>8, <1>11, <1>12, <1>5
  <2>2. (q + 1) - (k + 1) + 1 = q - k + 1 /\ (a + l) - (b + l) + 1 = a - b + 1
    OBVIOUS
  <2> QED
    BY <1>3, <1>4, <2>1, <2>2 DEF EndIs

LEMMA BytesUnchanged ==
  ASSUME BytesInv, UNCHANGED <<subscribers, ring, pending, hiddenVars, seq, history>>
  PROVE  BytesInv'
<1>1. OutputChunks' = OutputChunks
  BY DEF OutputChunks, history
<1>2. Kept' = Kept /\ Shown' = Shown
  BY <1>1 DEF Kept, Shown, history
<1> QED
  BY <1>2 DEF BytesInv, AbsorbedIsKept, ShownInOrder, HiddenOnly, UnreadIsNewest,
     RingIsNewest, history, hiddenVars

LEMMA StreamFromOne ==
  ASSUME NEW a \in Nat, NEW c \in Seq(Nat), Follows(c, a)
  PROVE  Stream(1, a) \in Seq(Nat) /\ Stream(1, a) \o c = Stream(1, a + Len(c))
<1>1. Len(c) \in Nat
  BY LenProperties
<1>2. 1 \in Nat \ {0} /\ 1 <= a + 1 /\ a <= a + Len(c) /\ a + Len(c) \in Nat
  BY <1>1
<1>3. Stream(1, a) \in Seq(Nat)
  BY ONLY <1>2, a \in Nat, StreamProperties
<1>4. Stream(1, a) \o Stream(a + 1, a + Len(c)) = Stream(1, a + Len(c))
  BY ONLY <1>2, a \in Nat, StreamGoesOn
<1> QED
  BY <1>3, <1>4 DEF Follows

\* The ring takes a chunk: push_chunk evicts what is too old and nothing else.
LEMMA RingGrows ==
  ASSUME TypeOK, RingIsNewest, NEW c \in Seq(Nat), c # <<>>,
         Follows(c, absorbed),
         ring' \in PushChunk(ring, c, RingCap), absorbed' = absorbed + Len(c)
  PROVE  RingIsNewest'
<1>1. absorbed \in Nat /\ RingCap \in Nat \ {0} /\ ring \in Seq(Seq(Nat))
  BY ByteTypes, BoundsAssumption
<1>2. NoneEmpty(ring) /\ FlattenSeq(ring) = LastBytes(Stream(1, absorbed), RingCap)
  BY DEF RingIsNewest
<1>3. FlattenSeq(ring') = LastBytes(FlattenSeq(ring) \o c, RingCap) /\ NoneEmpty(ring')
  BY <1>1, <1>2, PushKeepsNewest
<1>4. Stream(1, absorbed) \in Seq(Nat) /\ Stream(1, absorbed) \o c = Stream(1, absorbed')
  BY <1>1, StreamFromOne
<1>5. LastBytes(LastBytes(Stream(1, absorbed), RingCap) \o c, RingCap)
        = LastBytes(Stream(1, absorbed) \o c, RingCap)
  BY <1>1, <1>4, LastOfConcat
<1> QED
  BY <1>2, <1>3, <1>4, <1>5 DEF RingIsNewest

\* A chunk is absorbed while the session is shown.
LEMMA BytesVisible ==
  ASSUME TypeOK, TypeOK', BytesInv, NEW c \in Seq(Nat), c # <<>>,
         Follows(c, absorbed), AbsorbOutput(c), AbsorbVisible(c)
  PROVE  BytesInv'
<1>1. PICK f \in Seq(Nat), e \in Seq(Nat), p \in Seq(Nat), a \in Nat, l \in Nat :
        /\ f = FlattenSeq(log) /\ e = FlattenSeq(OutputChunks) /\ p = pending
        /\ a = absorbed /\ l = Len(c)
  BY ByteTypes, LenProperties
<1>2. /\ pending' = p \o c /\ absorbed' = a + l
      /\ ring' \in PushChunk(ring, c, RingCap)
      /\ UNCHANGED <<subscribers, outputs, log, seq, unreadBytes, unreadChunks, tail>>
      /\ subscribers > 0
  BY <1>1, LenProperties DEF AbsorbOutput, AbsorbVisible, hiddenVars
<1>3. Follows(c, a)
  BY <1>1
<1>4. AbsorbedIsKept'
  <2>1. Whole(f \o p, a)
    BY <1>1 DEF BytesInv, AbsorbedIsKept, Kept
  <2>2. Whole(f \o (p \o c), a + Len(c))
    BY <1>3, <2>1, WholeGrows
  <2>3. Kept' = f \o (p \o c)
    BY <1>1, <1>2 DEF Kept
  <2> QED
    BY <1>1, <1>2, <2>2, <2>3 DEF AbsorbedIsKept
<1>5. ShownInOrder'
  <2>1. PICK s : s = e \o p
    OBVIOUS
  <2>2. s \in Seq(Nat)
    BY ONLY <2>1, e \in Seq(Nat), p \in Seq(Nat), ConcatProperties
  <2>3. Increasing(s) /\ ToSet(s) \subseteq 1..a
    BY <1>1, <2>1 DEF BytesInv, ShownInOrder, Shown
  <2>4. Increasing(s \o c) /\ ToSet(s \o c) \subseteq 1..(a + Len(c))
    BY <1>3, <2>2, <2>3, OrderGoesOn
  <2>5. (e \o p) \o c = e \o (p \o c)
    BY ONLY e \in Seq(Nat), p \in Seq(Nat), c \in Seq(Nat), ConcatAssociative, SMTT(60)
  <2>6. OutputChunks' = OutputChunks
    BY <1>2 DEF OutputChunks
  <2>7. Shown' = s \o c
    BY <1>1, <1>2, <2>1, <2>5, <2>6 DEF Shown
  <2> QED
    BY <1>1, <1>2, <2>4, <2>7 DEF ShownInOrder
<1>6. unreadBytes = 0 /\ unreadChunks = 0 /\ tail = <<>>
  BY <1>2 DEF BytesInv, HiddenOnly
<1>7. HiddenOnly'
  BY <1>2, <1>6 DEF HiddenOnly
<1>8. UnreadIsNewest'
  BY <1>2, <1>6, UnreadIsNone
<1>9. RingIsNewest'
  BY <1>1, <1>2, <1>3, RingGrows DEF BytesInv
<1>10. unreadBytes' <= absorbed'
  BY <1>2, <1>6
<1> QED
  BY <1>4, <1>5, <1>7, <1>8, <1>9, <1>10 DEF BytesInv

\* The preview tail goes on.
LEMMA TailGrows ==
  ASSUME NEW s \in Seq(Nat), NEW c \in Seq(Nat), c # <<>>, NEW cap \in Nat
  PROVE  AppendTail(LastBytes(s, cap), c, cap) = LastBytes(s \o c, cap)
<1>1. CASE cap = 0
  <2>1. \A x \in Seq(Nat) : LastBytes(x, 0) = <<>>
    <3>1. TAKE x \in Seq(Nat)
    <3>2. Len(x) \in Nat /\ 0 \in 0..Len(x)
      BY LenProperties
    <3>3. LastBytes(x, 0) \in Seq(Nat) /\ Len(LastBytes(x, 0)) = 0
      BY ONLY <3>2, x \in Seq(Nat), LastIsLong
    <3> QED
      BY ONLY <3>3, EmptySeq
  <2>2. s \o c \in Seq(Nat)
    BY ConcatProperties
  <2>3. AppendTail(LastBytes(s, cap), c, cap) = LastBytes(s, cap)
    BY <1>1 DEF AppendTail
  <2> QED
    BY <1>1, <2>1, <2>2, <2>3
<1>2. CASE cap # 0
  <2>1. AppendTail(LastBytes(s, cap), c, cap) = LastBytes(LastBytes(s, cap) \o c, cap)
    BY <1>2 DEF AppendTail
  <2>2. LastBytes(LastBytes(s, cap) \o c, cap) = LastBytes(s \o c, cap)
    BY LastOfConcat
  <2> QED
    BY <2>1, <2>2
<1> QED
  BY <1>1, <1>2

\* A chunk is absorbed while the session is hidden.
LEMMA BytesHidden ==
  ASSUME TypeOK, TypeOK', HistoryIsNewest, BytesInv, NEW c \in Seq(Nat), c # <<>>,
         Follows(c, absorbed), AbsorbOutput(c), AbsorbHidden(c)
  PROVE  BytesInv'
<1>1. PICK f \in Seq(Nat), p \in Seq(Nat), a \in Nat, q \in Nat, k \in Nat, b \in Nat,
           l \in Nat :
        /\ f = FlattenSeq(log) /\ p = pending /\ a = absorbed /\ q = seq
        /\ k = unreadChunks /\ b = unreadBytes /\ l = Len(c)
  BY ByteTypes, LenProperties
<1>2. /\ pending' = p /\ absorbed' = a + l /\ seq' = q + 1 /\ log' = Append(log, c)
      /\ unreadBytes' = b + l /\ unreadChunks' = k + 1
      /\ tail' = AppendTail(tail, c, TailCap)
      /\ ring' \in PushChunk(ring, c, RingCap)
      /\ UNCHANGED <<subscribers, outputs>>
      /\ subscribers = 0
  BY <1>1 DEF AbsorbOutput, AbsorbHidden, NextFrame
<1>3. Follows(c, a) /\ c = Stream(a + 1, a + l)
  BY <1>1 DEF Follows
<1>4. AbsorbedIsKept'
  <2>1. Whole(f \o p, a)
    BY <1>1 DEF BytesInv, AbsorbedIsKept, Kept
  <2>2. Whole((f \o c) \o p, a + Len(c))
    BY <1>3, <2>1, WholeGrows
  <2>3. FlattenSeq(log') = f \o c
    BY <1>1, <1>2, LogGrows
  <2>4. Kept' = (f \o c) \o p
    BY <1>2, <2>3 DEF Kept
  <2> QED
    BY <1>1, <1>2, <2>2, <2>4 DEF AbsorbedIsKept
<1>5. ShownInOrder'
  <2>1. OutputChunks' = OutputChunks
    BY <1>2 DEF OutputChunks
  <2>2. Shown' = Shown
    BY <1>1, <1>2, <2>1 DEF Shown
  <2>3. 1..a \subseteq 1..(a + l)
    OBVIOUS
  <2> QED
    BY <1>1, <1>2, <2>2, <2>3 DEF ShownInOrder, BytesInv
<1>6. HiddenOnly'
  BY <1>2 DEF HiddenOnly
<1>7. k \in 0..q /\ b \in 0..a
  BY <1>1 DEF BytesInv, UnreadIsNewest
<1>8. UnreadIsNewest'
  <2>1. log \in Seq(Seq(Nat)) /\ q = Len(log)
    BY <1>1, ByteTypes DEF HistoryIsNewest
  <2>2. /\ FlattenSeq(SubSeq(log, q - k + 1, q)) = Stream(a - b + 1, a)
        /\ tail = LastBytes(Stream(a - b + 1, a), TailCap)
    BY <1>1 DEF BytesInv, UnreadIsNewest
  <2>3. FlattenSeq(SubSeq(log', (q + 1) - (k + 1) + 1, q + 1))
          = Stream((a + l) - (b + l) + 1, a + l)
    <3>1. EndIs(log, k, b, a)
      BY <2>1, <2>2 DEF EndIs
    <3>2. EndIs(Append(log, c), k + 1, b + Len(c), a + Len(c))
      BY <1>3, <1>7, <2>1, <3>1, UnreadGrows
    <3>3. Len(Append(log, c)) = q + 1
      BY <2>1, AppendProperties
    <3> QED
      BY <1>1, <1>2, <3>2, <3>3 DEF EndIs
  <2>4. Stream(a - b + 1, a) \in Seq(Nat) /\ Stream(a - b + 1, a) \o c = Stream(a - b + 1, a + l)
    <3>1. a - b + 1 \in Nat \ {0} /\ a + l \in Nat /\ a - b + 1 <= a + 1 /\ a <= a + l
      BY <1>7
    <3> QED
      BY ONLY <1>3, <3>1, a \in Nat, StreamProperties, StreamGoesOn
  <2>5. AppendTail(tail, c, TailCap) = LastBytes(Stream(a - b + 1, a + l), TailCap)
    <3>1. PICK s \in Seq(Nat), z \in Nat : s = Stream(a - b + 1, a) /\ z = TailCap
      BY <2>4, BoundsAssumption
    <3>2. AppendTail(LastBytes(s, z), c, z) = LastBytes(s \o c, z)
      BY ONLY s \in Seq(Nat), c \in Seq(Nat), c # <<>>, z \in Nat, TailGrows
    <3> QED
      BY <2>2, <2>4, <3>1, <3>2
  <2>6. (a + l) - (b + l) + 1 = a - b + 1 /\ k + 1 <= q + 1
    BY <1>7
  <2> QED
    BY <1>2, <2>3, <2>5, <2>6 DEF UnreadIsNewest
<1>9. RingIsNewest'
  BY <1>1, <1>2, <1>3, RingGrows DEF BytesInv
<1>10. unreadBytes' <= absorbed'
  BY <1>2, <1>7
<1> QED
  BY <1>4, <1>5, <1>6, <1>8, <1>9, <1>10 DEF BytesInv

\* A batch leaves pending_visible for the log and for the events.
LEMMA BytesTick ==
  ASSUME TypeOK, TypeOK', BytesInv, OutputTick
  PROVE  BytesInv'
<1>1. PICK f \in Seq(Nat), e \in Seq(Nat), p \in Seq(Nat), m \in Nat :
        /\ f = FlattenSeq(log) /\ e = FlattenSeq(OutputChunks) /\ p = pending
        /\ m = EventMax
  BY ByteTypes, BoundsAssumption
<1>2. PICK b, r : b = FirstBytes(p, m) /\ r = DropBytes(p, Len(FirstBytes(p, m)))
  OBVIOUS
<1>3. b \in Seq(Nat) /\ r \in Seq(Nat)
  <2>1. FirstBytes(p, m) \in Seq(Nat)
    BY FirstBytesProperties
  <2>2. Len(FirstBytes(p, m)) \in Nat
    BY <2>1, LenProperties
  <2>3. DropBytes(p, Len(FirstBytes(p, m))) \in Seq(Nat)
    BY <2>2, DropBytesType
  <2> QED
    BY <1>2, <2>1, <2>3
<1>4. b \o r = p
  <2>1. FirstBytes(p, m) \o DropBytes(p, Len(FirstBytes(p, m))) = p
    BY FirstAndRest
  <2> QED
    BY <1>2, <2>1
<1>5. /\ pending' = r /\ log' = Append(log, b)
      /\ outputs' = Append(outputs, [seq |-> seq + 1, chunk |-> b])
      /\ subscribers > 0
      /\ UNCHANGED <<subscribers, ring, hiddenVars, absorbed>>
  BY <1>1, <1>2 DEF OutputTick, NextFrame, TakeVisibleBatch
<1>6. Kept' = Kept
  <2>1. FlattenSeq(log') = f \o b
    BY <1>1, <1>3, <1>5, LogGrows
  <2>2. (f \o b) \o r = f \o (b \o r)
    BY ONLY <1>3, f \in Seq(Nat), ConcatAssociative, SMTT(60)
  <2> QED
    BY <1>1, <1>4, <1>5, <2>1, <2>2 DEF Kept
<1>7. Shown' = Shown
  <2>1. OutputChunks' = Append(OutputChunks, b)
    <3>1. PICK n \in Nat : n = Len(outputs)
      BY LenProperties DEF TypeOK
    <3>2. PICK w : w = [seq |-> seq + 1, chunk |-> b]
      OBVIOUS
    <3>3. n = Len(outputs) /\ w = [seq |-> seq + 1, chunk |-> b]
      BY <3>1, <3>2
    <3>4. outputs \in Seq(Frame) /\ w.chunk = b /\ outputs' \in Seq(Frame)
      BY <3>3 DEF TypeOK
    <3>5. /\ Len(outputs') = n + 1 /\ outputs'[n + 1] = w
          /\ \A i \in 1..n : outputs'[i] = outputs[i]
      <4>1. outputs' = Append(outputs, w)
        BY <1>5, <3>3
      <4>2. w \in Frame
        BY <1>5, <3>3, <3>4, <4>1, ElementOfSeq, AppendProperties
      <4> QED
        BY <3>3, <3>4, <4>1, <4>2, AppendProperties
    <3>6. DOMAIN outputs = 1..n /\ DOMAIN outputs' = 1..(n + 1)
      BY <3>3, <3>4, <3>5, LenProperties
    <3>7. PICK s \in Seq(Seq(Nat)), t \in Seq(Seq(Nat)) :
            s = OutputChunks /\ t = OutputChunks'
      <4>1. OutputChunks \in Seq(Seq(Nat)) /\ OutputChunks' \in Seq(Seq(Nat))
        BY <3>4, OutputChunksType DEF OutputChunks
      <4> QED
        BY <4>1
    <3>8. s = [i \in 1..n |-> outputs[i].chunk] /\ t = [i \in 1..(n + 1) |-> outputs'[i].chunk]
      BY <3>6, <3>7 DEF OutputChunks
    <3>9. Len(s) = n /\ Len(t) = n + 1
      BY <3>7, <3>8, LenProperties
    <3>10. t[n + 1] = b /\ \A i \in 1..n : t[i] = s[i]
      BY <3>4, <3>5, <3>8
    <3>11. /\ Append(s, b) \in Seq(Seq(Nat)) /\ Len(Append(s, b)) = n + 1
          /\ Append(s, b)[n + 1] = b /\ \A i \in 1..n : Append(s, b)[i] = s[i]
      <4>1. /\ Append(s, b) \in Seq(Seq(Nat)) /\ Len(Append(s, b)) = Len(s) + 1
            /\ Append(s, b)[Len(s) + 1] = b /\ \A i \in 1..Len(s) : Append(s, b)[i] = s[i]
        BY ONLY <1>3, s \in Seq(Seq(Nat)), AppendProperties
      <4> QED
        BY <3>9, <4>1
    <3>12. PICK z : z = Append(s, b)
      OBVIOUS
    <3>13. z \in Seq(Seq(Nat)) /\ Len(z) = Len(t) /\ \A i \in 1..Len(t) : t[i] = z[i]
      <4>1. z \in Seq(Seq(Nat)) /\ Len(z) = n + 1 /\ z[n + 1] = b
            /\ \A i \in 1..n : z[i] = s[i]
        BY ONLY <3>11, <3>12
      <4> QED
        BY ONLY <3>9, <3>10, <4>1, n \in Nat
    <3>14. t = z
      BY ONLY <3>13, t \in Seq(Seq(Nat)), SeqEqual
    <3> QED
      BY <3>7, <3>12, <3>14
  <2>2. OutputChunks \in Seq(Seq(Nat))
    BY ByteTypes
  <2>3. FlattenSeq(OutputChunks') = e \o b
    BY <1>1, <1>3, <2>1, <2>2, FlattenAppend
  <2>4. (e \o b) \o r = e \o (b \o r)
    BY ONLY <1>3, e \in Seq(Nat), ConcatAssociative, SMTT(60)
  <2> QED
    BY <1>1, <1>4, <1>5, <2>3, <2>4 DEF Shown
<1>8. AbsorbedIsKept' /\ ShownInOrder' /\ RingIsNewest'
  BY <1>5, <1>6, <1>7 DEF BytesInv, AbsorbedIsKept, ShownInOrder, RingIsNewest
<1>9. unreadBytes' = 0 /\ unreadChunks' = 0 /\ tail' = <<>>
  BY <1>5 DEF BytesInv, HiddenOnly, hiddenVars
<1>10. HiddenOnly' /\ UnreadIsNewest' /\ unreadBytes' <= absorbed'
  BY <1>9, UnreadIsNone DEF HiddenOnly, TypeOK
<1> QED
  BY <1>8, <1>10 DEF BytesInv

\* What is unread is shown, or reported.
LEMMA BytesRead ==
  ASSUME TypeOK, TypeOK', BytesInv, UNCHANGED <<ring, pending, seq, history>>,
         unreadBytes' = 0, unreadChunks' = 0, tail' = <<>>
  PROVE  BytesInv'
<1>1. HiddenOnly' /\ UnreadIsNewest' /\ unreadBytes' <= absorbed'
  BY UnreadIsNone DEF HiddenOnly, TypeOK
<1>2. OutputChunks' = OutputChunks
  BY DEF OutputChunks, history
<1>3. Kept' = Kept /\ Shown' = Shown
  BY <1>2 DEF Kept, Shown, history
<1>4. AbsorbedIsKept' /\ ShownInOrder' /\ RingIsNewest'
  BY <1>3 DEF BytesInv, AbsorbedIsKept, ShownInOrder, RingIsNewest, history
<1> QED
  BY <1>1, <1>4 DEF BytesInv

\* Showing the session drops what is unread, hiding it drops nothing.
LEMMA BytesVisibility ==
  ASSUME TypeOK, TypeOK', BytesInv, MuxVisibility
  PROVE  BytesInv'
<1>1. PICK n \in {0, 1} : n = Head(queue).subscribers
  BY ReceiveType, CommandFields DEF MuxVisibility, Receive
<1>2. SetVisible(n)
  BY <1>1 DEF MuxVisibility
<1>3. CASE n > 0
  BY <1>2, <1>3, BytesRead DEF SetVisible
<1>4. CASE ~(n > 0)
  <2>1. subscribers' = 0 /\ UNCHANGED <<ring, pending, hiddenVars, seq, history>>
    BY <1>2, <1>4 DEF SetVisible
  <2>2. OutputChunks' = OutputChunks
    BY <2>1 DEF OutputChunks, history
  <2>3. Kept' = Kept /\ Shown' = Shown
    BY <2>1, <2>2 DEF Kept, Shown, history
  <2> QED
    BY <2>1, <2>3 DEF BytesInv, AbsorbedIsKept, ShownInOrder, HiddenOnly,
       UnreadIsNewest, RingIsNewest, history, hiddenVars
<1> QED
  BY <1>3, <1>4

\* There is nothing at first, and nothing after the end.
Nothing ==
  /\ ring = <<>> /\ pending = <<>> /\ unreadBytes = 0 /\ unreadChunks = 0 /\ tail = <<>>
  /\ seq = 0 /\ absorbed = 0 /\ log = <<>> /\ outputs = <<>>

LEMMA NothingIsInOrder == Nothing => BytesInv
<1> SUFFICES ASSUME Nothing PROVE BytesInv
  OBVIOUS
<1>1. /\ ring = <<>> /\ pending = <<>> /\ unreadBytes = 0 /\ unreadChunks = 0 /\ tail = <<>>
      /\ seq = 0 /\ absorbed = 0 /\ log = <<>> /\ outputs = <<>>
  BY DEF Nothing
<1>2. <<>> \in Seq(Nat) /\ Len(<<>>) = 0 /\ DOMAIN <<>> = {}
  OBVIOUS
<1>3. OutputChunks = <<>>
  BY <1>1 DEF OutputChunks
<1>4. <<>> \o <<>> = <<>>
  BY ConcatEmptySeq, <1>2
<1>5. Kept = <<>> /\ Shown = <<>>
  BY <1>1, <1>3, <1>4, FlattenEmpty DEF Kept, Shown
<1>6. ToSet(<<>>) = {}
  BY DEF ToSet
<1>7. AbsorbedIsKept /\ ShownInOrder
  BY <1>1, <1>2, <1>5, <1>6 DEF AbsorbedIsKept, Whole, ShownInOrder, Increasing
<1>8. UnreadIsNewest
  <2>1. 0 \in Nat /\ TailCap \in Nat
    BY BoundsAssumption
  <2>2. /\ FlattenSeq(SubSeq(log, 0 - 0 + 1, 0)) = Stream(0 - 0 + 1, 0)
        /\ <<>> = LastBytes(Stream(0 - 0 + 1, 0), TailCap)
    BY ONLY <2>1, NothingUnread
  <2> QED
    BY <1>1, <2>2 DEF UnreadIsNewest
<1>9. RingIsNewest
  <2>1. Stream(1, 0) = <<>>
    BY StreamEmpty
  <2>2. LastBytes(<<>>, RingCap) = <<>>
    <3>1. RingCap \in Nat /\ Len(<<>>) <= RingCap
      BY <1>2, BoundsAssumption
    <3> QED
      BY <1>2, <3>1, LastOfShort
  <2> QED
    BY <1>1, <1>2, <2>1, <2>2, FlattenEmpty DEF RingIsNewest, NoneEmpty
<1> QED
  BY <1>1, <1>7, <1>8, <1>9 DEF BytesInv, HiddenOnly

-----------------------------------------------------------------------------
(* The channel.                                                            *)

\* The channel after a send, and after a receive.
LEMMA Sent ==
  ASSUME TypeOK, NEW c \in Command, Send(c)
  PROVE  /\ Len(queue) \in Nat /\ Len(queue') = Len(queue) + 1
         /\ \A i \in 1..Len(queue) : queue'[i] = queue[i]
         /\ queue'[Len(queue) + 1] = c
  BY AppendProperties, LenProperties DEF TypeOK, Send

LEMMA Received ==
  ASSUME TypeOK, NEW op, Receive(op)
  PROVE  /\ Len(queue) \in Nat \ {0} /\ Len(queue') = Len(queue) - 1
         /\ Head(queue) = queue[1] /\ queue[1].op = op
         /\ \A i \in 1..Len(queue') : queue'[i] = queue[i + 1]
  BY HeadTailProperties, LenProperties DEF TypeOK, Receive

\* What is sent carries the stream on.
LEMMA StreamSent ==
  ASSUME TypeOK, TypeOK', QueueIsStream, NEW c \in Command, Send(c),
         UNCHANGED absorbed, Live' => Live,
         IF c.op = "output"
         THEN produced' = produced + Len(c.chunk) /\ c.chunk = Stream(produced + 1, produced')
         ELSE produced' = produced
  PROVE  QueueIsStream'
<1>1. PICK at \in [1..(Len(queue) + 1) -> 0..MaxBytes] : Carries(at)
  BY DEF QueueIsStream
<1>2. PICK n \in Nat : n = Len(queue)
  BY LenProperties DEF TypeOK
<1>3. /\ Len(queue') = n + 1 /\ queue'[n + 1] = c
      /\ \A i \in 1..n : queue'[i] = queue[i]
  BY <1>2, Sent
<1> DEFINE to == [i \in 1..(n + 2) |-> IF i <= n + 1 THEN at[i] ELSE produced']
<1>4. produced' \in 0..MaxBytes
  BY DEF TypeOK
<1>5. to \in [1..(n + 2) -> 0..MaxBytes]
  BY <1>1, <1>2, <1>4
<1>6. /\ \A i \in 1..(n + 1) : to[i] = at[i]
      /\ to[n + 2] = produced'
  OBVIOUS
<1>7. PICK h \in [1..(n + 2) -> 0..MaxBytes] :
        h[n + 2] = produced' /\ \A i \in 1..(n + 1) : h[i] = at[i]
  BY <1>5, <1>6
<1> HIDE DEF to
<1>8. ASSUME NEW i \in 1..(n + 1)
      PROVE  IF queue'[i].op = "output"
             THEN /\ h[i + 1] = h[i] + Len(queue'[i].chunk)
                  /\ queue'[i].chunk = Stream(h[i] + 1, h[i + 1])
             ELSE h[i + 1] = h[i]
  <2>1. CASE i = n + 1
    <3>1. h[i] = produced /\ h[i + 1] = produced'
      BY <1>1, <1>2, <1>7, <2>1 DEF Carries
    <3> QED
      BY <1>3, <2>1, <3>1
  <2>2. CASE i # n + 1
    <3>1. i \in 1..n /\ i + 1 \in 1..(n + 1)
      BY <2>2
    <3>2. h[i] = at[i] /\ h[i + 1] = at[i + 1] /\ queue'[i] = queue[i]
      BY <1>3, <1>7, <3>1
    <3> QED
      BY <1>1, <1>2, <3>1, <3>2 DEF Carries
  <2> QED
    BY <2>1, <2>2
<1>9. Live' => h[1] = absorbed'
  BY <1>1, <1>7 DEF Carries
<1>10. Len(queue') + 1 = n + 2 /\ 1..Len(queue') = 1..(n + 1)
  BY <1>3
<1>11. Carries(h)'
  BY <1>7, <1>8, <1>9, <1>10 DEF Carries
<1> QED
  BY <1>7, <1>10, <1>11 DEF QueueIsStream

\* What is received was absorbed, if anything is to be absorbed after it.
LEMMA StreamReceived ==
  ASSUME TypeOK, TypeOK', QueueIsStream, NEW op, Receive(op),
         Live' => Live /\ IF op = "output" THEN absorbed' = absorbed + Len(Head(queue).chunk)
                                           ELSE absorbed' = absorbed
  PROVE  QueueIsStream'
<1>1. PICK at \in [1..(Len(queue) + 1) -> 0..MaxBytes] : Carries(at)
  BY DEF QueueIsStream
<1>2. PICK n \in Nat : n = Len(queue) - 1
  BY Received
<1>3. /\ Len(queue) = n + 1 /\ Len(queue') = n /\ Head(queue) = queue[1] /\ queue[1].op = op
      /\ \A i \in 1..n : queue'[i] = queue[i + 1]
      /\ produced' = produced
  BY <1>2, Received DEF Receive
<1> DEFINE to == [i \in 1..(n + 1) |-> at[i + 1]]
<1>4. to \in [1..(n + 1) -> 0..MaxBytes]
  BY <1>1, <1>3
<1>5. \A i \in 1..(n + 1) : to[i] = at[i + 1]
  OBVIOUS
<1>6. PICK h \in [1..(n + 1) -> 0..MaxBytes] : \A i \in 1..(n + 1) : h[i] = at[i + 1]
  BY <1>4, <1>5
<1> HIDE DEF to
<1>7. ASSUME NEW i \in 1..n
      PROVE  IF queue'[i].op = "output"
             THEN /\ h[i + 1] = h[i] + Len(queue'[i].chunk)
                  /\ queue'[i].chunk = Stream(h[i] + 1, h[i + 1])
             ELSE h[i + 1] = h[i]
  <2>1. i + 1 \in 1..(n + 1) /\ i \in 1..(n + 1)
    OBVIOUS
  <2>2. h[i] = at[i + 1] /\ h[i + 1] = at[(i + 1) + 1] /\ queue'[i] = queue[i + 1]
    BY <1>3, <1>6, <2>1
  <2> QED
    BY <1>1, <1>3, <2>1, <2>2 DEF Carries
<1>8. h[n + 1] = produced'
  <2>1. at[(n + 1) + 1] = produced
    BY <1>1, <1>3 DEF Carries
  <2> QED
    BY <1>3, <1>6, <2>1
<1>9. ASSUME Live' PROVE h[1] = absorbed'
  <2>1. at[1] = absorbed
    BY <1>1, <1>9 DEF Carries
  <2>2. 1 \in 1..(n + 1)
    OBVIOUS
  <2>3. h[1] = at[1 + 1]
    BY ONLY <1>6, <2>2
  <2>4. 1 \in 1..Len(queue) /\ h[1] = at[1 + 1]
    BY <1>3, <2>2, <2>3
  <2>5. IF queue[1].op = "output" THEN at[1 + 1] = at[1] + Len(queue[1].chunk)
                                  ELSE at[1 + 1] = at[1]
    BY <1>1, <2>4 DEF Carries
  <2> QED
    BY <1>3, <1>9, <2>1, <2>4, <2>5
<1> QED
  BY <1>3, <1>6, <1>7, <1>8, <1>9 DEF QueueIsStream, Carries

\* The next chunk of a registered session is the one that was read next.
LEMMA NextChunkFollows ==
  ASSUME TypeOK, QueueIsStream, registered, Receive("output")
  PROVE  Follows(Head(queue).chunk, absorbed)
<1>1. PICK at \in [1..(Len(queue) + 1) -> 0..MaxBytes] : Carries(at)
  BY DEF QueueIsStream
<1>2. 1 \in 1..Len(queue) /\ Head(queue) = queue[1] /\ queue[1].op = "output"
  BY Received
<1>3. at[1] = absorbed /\ at[1 + 1] = at[1] + Len(queue[1].chunk)
      /\ queue[1].chunk = Stream(at[1] + 1, at[1 + 1])
  BY <1>1, <1>2 DEF Carries, Live
<1> QED
  BY <1>2, <1>3 DEF Follows

LEMMA StreamUnchanged ==
  ASSUME QueueIsStream, UNCHANGED <<queue, produced, absorbed>>, Live' => Live
  PROVE  QueueIsStream'
  BY DEF QueueIsStream, Carries

-----------------------------------------------------------------------------
(* Who is registered when.                                                 *)

LEMMA FirstUnchanged ==
  ASSUME RegisterIsFirst, UNCHANGED <<queue, registered>>,
         creator' = "idle" => UNCHANGED <<creator, reader, listed>>
  PROVE  RegisterIsFirst' /\ (Live' => Live)
  BY DEF RegisterIsFirst, Live

\* Anything but a registration is sent.
LEMMA FirstSent ==
  ASSUME TypeOK, RegisterIsFirst, NEW c \in Command, Send(c), c.op # "register",
         UNCHANGED registered,
         creator' = "idle" => c.op = "other" /\ UNCHANGED <<creator, reader, listed>>
  PROVE  RegisterIsFirst' /\ (Live' => Live)
<1>1. PICK n \in Nat : n = Len(queue)
  BY LenProperties DEF TypeOK
<1>2. /\ Len(queue') = n + 1 /\ queue'[n + 1] = c
      /\ \A i \in 1..n : queue'[i] = queue[i]
  BY <1>1, Sent
<1>3. ASSUME NEW i \in 1..(n + 1), queue'[i].op = "register"
      PROVE  i \in 1..n /\ queue[i].op = "register" /\ \A j \in 1..(i - 1) : queue'[j] = queue[j]
  <2>1. i # n + 1
    BY <1>2, <1>3
  <2>2. i \in 1..n
    BY <2>1
  <2>3. \A j \in 1..(i - 1) : j \in 1..n
    BY <2>2
  <2> QED
    BY <1>2, <1>3, <2>2, <2>3
<1>4. Live' => Live
  BY <1>1, <1>2, <1>3 DEF Live
<1>5. ASSUME creator' = "idle"
      PROVE  /\ reader' = "none" /\ ~listed' /\ ~registered'
             /\ \A i \in 1..(n + 1) : queue'[i].op = "other"
  <2>1. /\ reader' = "none" /\ ~listed' /\ ~registered'
        /\ \A i \in 1..n : queue[i].op = "other"
    BY <1>1, <1>5 DEF RegisterIsFirst
  <2>2. ASSUME NEW i \in 1..(n + 1) PROVE queue'[i].op = "other"
    <3>1. CASE i = n + 1
      BY <1>2, <1>5, <3>1
    <3>2. CASE i # n + 1
      <4>1. i \in 1..n
        BY <3>2
      <4> QED
        BY <1>2, <2>1, <4>1
    <3> QED
      BY <3>1, <3>2
  <2> QED
    BY <2>1, <2>2
<1>6. ASSUME NEW i \in 1..(n + 1), queue'[i].op = "register"
      PROVE  ~registered' /\ \A j \in 1..(i - 1) : queue'[j].op = "other"
  BY <1>1, <1>3, <1>6 DEF RegisterIsFirst
<1> QED
  BY <1>2, <1>4, <1>5, <1>6 DEF RegisterIsFirst

\* The registration is sent.
LEMMA FirstRegister ==
  ASSUME TypeOK, RegisterIsFirst, CreateRegister
  PROVE  RegisterIsFirst' /\ Live
<1>1. PICK n \in Nat : n = Len(queue)
  BY LenProperties DEF TypeOK
<1>2. /\ Len(queue') = n + 1 /\ queue'[n + 1].op = "register"
      /\ \A i \in 1..n : queue'[i] = queue[i]
  BY <1>1, Sent, CommandTypes DEF CreateRegister, Register
<1>3. creator = "idle" /\ creator' = "registered" /\ registered' = registered
  BY DEF CreateRegister, flow
<1>4. ~registered /\ \A i \in 1..n : queue[i].op = "other"
  BY <1>1, <1>3 DEF RegisterIsFirst
<1>5. ASSUME NEW i \in 1..(n + 1), NEW j \in 1..(i - 1)
      PROVE  queue'[j].op = "other"
  <2>1. j \in 1..n
    OBVIOUS
  <2> QED
    BY <1>2, <1>4, <2>1
<1> QED
  BY <1>2, <1>3, <1>4, <1>5 DEF RegisterIsFirst, Live

\* A command is received.
LEMMA FirstReceived ==
  ASSUME TypeOK, RegisterIsFirst, NEW op, Receive(op),
         registered' => registered \/ op = "register"
  PROVE  /\ RegisterIsFirst'
         /\ Live' => Live
         /\ op \notin {"other", "register"} /\ ~registered' => ~Live'
<1>1. PICK n \in Nat : n = Len(queue) - 1
  BY Received
<1>2. /\ Len(queue) = n + 1 /\ Len(queue') = n /\ queue[1].op = op
      /\ \A i \in 1..n : queue'[i] = queue[i + 1]
      /\ UNCHANGED <<creator, reader, listed>>
  BY <1>1, Received DEF Receive, provider
<1>3. creator = "idle" =>
        /\ reader = "none" /\ ~listed /\ ~registered /\ op = "other"
        /\ \A i \in 1..(n + 1) : queue[i].op = "other"
  BY <1>2 DEF RegisterIsFirst
<1>4. ASSUME creator' = "idle"
      PROVE  /\ reader' = "none" /\ ~listed' /\ ~registered'
             /\ \A i \in 1..n : queue'[i].op = "other"
  <2>1. \A i \in 1..n : i + 1 \in 1..(n + 1)
    OBVIOUS
  <2> QED
    BY <1>2, <1>3, <1>4, <2>1
<1>5. ASSUME NEW i \in 1..n, queue'[i].op = "register"
      PROVE  /\ op = "other" /\ ~registered /\ queue[i + 1].op = "register"
             /\ i + 1 \in 1..(n + 1)
             /\ \A j \in 1..(i - 1) : queue'[j].op = "other"
  <2>1. i + 1 \in 1..(n + 1) /\ 1 \in 1..((i + 1) - 1) /\ queue[i + 1].op = "register"
    BY <1>2, <1>5
  <2>2. ~registered /\ \A j \in 1..((i + 1) - 1) : queue[j].op = "other"
    BY <1>2, <2>1 DEF RegisterIsFirst
  <2>3. ASSUME NEW j \in 1..(i - 1) PROVE queue'[j].op = "other"
    <3>1. j \in 1..n /\ j + 1 \in 1..((i + 1) - 1)
      OBVIOUS
    <3> QED
      BY <1>2, <2>2, <3>1
  <2> QED
    BY <1>2, <2>1, <2>2, <2>3
<1>6. RegisterIsFirst'
  BY <1>2, <1>4, <1>5 DEF RegisterIsFirst
<1>7. Live' => Live
  <2>1. CASE op = "register"
    <3>1. 1 \in 1..Len(queue)
      BY <1>2
    <3> QED
      BY <1>2, <2>1, <3>1 DEF Live
  <2>2. CASE op # "register"
    BY <1>2, <1>5, <2>2 DEF Live
  <2> QED
    BY <2>1, <2>2
<1>8. op \notin {"other", "register"} /\ ~registered' => ~Live'
  BY <1>2, <1>3, <1>5 DEF Live
<1> QED
  BY <1>6, <1>7, <1>8

-----------------------------------------------------------------------------
(* Every step, and what follows.                                           *)

\* Steps that neither send nor receive.
LEMMA WaitingKept ==
  ASSUME Waiting, UNCHANGED <<queue, produced, absorbed, registered>>,
         creator' = "idle" => UNCHANGED <<creator, reader, listed>>
  PROVE  Waiting'
<1>1. RegisterIsFirst' /\ (Live' => Live)
  BY FirstUnchanged DEF Waiting
<1> QED
  BY <1>1, StreamUnchanged DEF Waiting

\* A command is sent, in the place where the stream is.
LEMMA WaitingSent ==
  ASSUME TypeOK, TypeOK', Waiting, NEW c \in Command, Send(c), c.op # "register",
         UNCHANGED <<registered, absorbed>>,
         creator' = "idle" => c.op = "other" /\ UNCHANGED <<creator, reader, listed>>,
         IF c.op = "output"
         THEN produced' = produced + Len(c.chunk) /\ c.chunk = Stream(produced + 1, produced')
         ELSE produced' = produced
  PROVE  Waiting'
<1>1. RegisterIsFirst' /\ (Live' => Live)
  BY FirstSent DEF Waiting
<1> QED
  BY <1>1, StreamSent DEF Waiting

\* The threads and the callers leave the mux task's state alone.
LEMMA FlowUnchanged ==
  ASSUME StartsAnew, BytesInv, UNCHANGED <<flow, history>>
  PROVE  StartsAnew' /\ BytesInv'
<1>1. UNCHANGED <<registered, subscribers, ring, frames, pending, hiddenVars, seq, history>>
      /\ UNCHANGED <<unreadBytes, unreadChunks, tail, absorbed, log, outputs>>
  BY DEF flow, hiddenVars, history
<1>2. BytesInv'
  BY <1>1, BytesUnchanged
<1>3. StartsAnew'
  BY <1>1 DEF StartsAnew, FlowDefault
<1> QED
  BY <1>2, <1>3

\* The thread of create_session, the reader thread and the other callers.
LEMMA ProviderStep ==
  ASSUME TypeOK, TypeOK', Waiting, StartsAnew, BytesInv,
         \/ CreateRegister \/ CreateFail \/ CreateInsert
         \/ \E n \in 1..ReadMax : Read(n)
         \/ EofUnregister \/ ReaderRemove \/ ChildExit
         \/ KillUnregister \/ KillChild
         \/ \E n \in {0, 1} : RequestVisibility(n)
         \/ OtherCommand
  PROVE  Waiting' /\ StartsAnew' /\ BytesInv'
<1> DEFINE Started == creator' # "idle"
<1>1. UNCHANGED <<flow, history>>
  BY DEF CreateRegister, CreateFail, CreateInsert, Read, EofUnregister, ReaderRemove,
     ChildExit, KillUnregister, KillChild, RequestVisibility, OtherCommand
<1>2. StartsAnew' /\ BytesInv' /\ UNCHANGED <<registered, absorbed>>
  BY <1>1, FlowUnchanged DEF flow, history
<1>3. reader # "none" \/ listed => creator # "idle"
  BY DEF Waiting, RegisterIsFirst
<1>4. CASE CreateRegister
  <2>1. RegisterIsFirst' /\ Live
    BY <1>4, FirstRegister DEF Waiting
  <2>2. Register \in Command /\ Send(Register) /\ Register.op = "register" /\ UNCHANGED produced
    BY <1>4, CommandTypes DEF CreateRegister, Register
  <2>3. QueueIsStream'
    BY <1>2, <2>1, <2>2, StreamSent DEF Waiting
  <2> QED
    BY <1>2, <2>1, <2>3 DEF Waiting
<1>5. CASE CreateFail \/ CreateInsert \/ ReaderRemove \/ ChildExit \/ KillChild
  <2>1. creator' = "idle" => UNCHANGED <<creator, reader, listed>>
    BY <1>3, <1>5 DEF CreateFail, CreateInsert, ReaderRemove, ChildExit, KillChild
  <2>2. UNCHANGED <<queue, produced>>
    BY <1>5 DEF CreateFail, CreateInsert, ReaderRemove, ChildExit, KillChild
  <2> QED
    BY <1>2, <2>1, <2>2, WaitingKept
<1>6. ASSUME NEW n \in 1..ReadMax, Read(n)
      PROVE  Waiting'
  <2>1. PICK c : c = [i \in 1..n |-> produced + i]
    OBVIOUS
  <2>2. c \in Chunk /\ Len(c) = n
    <3>1. c \in [1..n -> Byte] /\ n \in Nat
      BY <1>6, <2>1, BoundsAssumption DEF Read, TypeOK, Byte
    <3>2. c \in Seq(Byte)
      BY <3>1, SeqDef
    <3> QED
      BY <3>1, <3>2, LenProperties DEF Chunk
  <2>3. PICK k : k = OutputChunk(c)
    OBVIOUS
  <2>4. k \in Command /\ k.op = "output" /\ k.chunk = c
    BY <2>2, <2>3, CommandTypes DEF OutputChunk
  <2>5. Send(k) /\ produced' = produced + n /\ UNCHANGED creator /\ reader = "reading"
    BY <1>6, <2>1, <2>3 DEF Read, provider
  <2>6. c = Stream(produced + 1, produced + n)
    <3>1. PICK q \in Nat, m \in Nat : q = produced /\ m = n
      BY DEF TypeOK
    <3>2. (q + m) - (q + 1) + 1 = m /\ \A i \in 1..m : (q + 1) + i - 1 = q + i
      OBVIOUS
    <3>3. Stream(q + 1, q + m) = [i \in 1..m |-> (q + 1) + i - 1]
      BY <3>2 DEF Stream
    <3> QED
      BY <2>1, <3>1, <3>2, <3>3
  <2> QED
    BY <1>2, <1>3, <2>2, <2>4, <2>5, <2>6, WaitingSent
<1>7. CASE EofUnregister
  <2>1. PICK c \in Command : c = Unregister
    BY CommandTypes
  <2>2. Send(c) /\ c.op = "unregister" /\ UNCHANGED <<creator, produced>> /\ reader # "none"
    BY <1>7, <2>1 DEF EofUnregister, Unregister
  <2> QED
    BY <1>2, <1>3, <2>2, WaitingSent
<1>8. CASE KillUnregister
  <2>1. UNCHANGED <<creator, produced>> /\ listed
    BY <1>8 DEF KillUnregister
  <2>2. CASE HasRoom
    <3>1. PICK c \in Command : c = Unregister
      BY CommandTypes
    <3>2. Send(c) /\ c.op = "unregister"
      BY <1>8, <2>2, <3>1 DEF KillUnregister, Unregister
    <3> QED
      BY <1>2, <1>3, <2>1, <3>2, WaitingSent
  <2>3. CASE ~HasRoom
    <3>1. UNCHANGED queue
      BY <1>8, <2>3 DEF KillUnregister
    <3> QED
      BY <1>2, <1>3, <2>1, <3>1, WaitingKept
  <2> QED
    BY <2>2, <2>3
<1>9. ASSUME NEW n \in {0, 1}, RequestVisibility(n)
      PROVE  Waiting'
  <2>1. PICK c \in Command : c = SetVisibility(n)
    BY CommandTypes
  <2>2. Send(c) /\ c.op = "visibility" /\ UNCHANGED <<creator, produced>> /\ creator = "done"
    BY <1>9, <2>1 DEF RequestVisibility, SetVisibility, provider
  <2> QED
    BY <1>2, <2>2, WaitingSent
<1>10. CASE OtherCommand
  <2>1. PICK c \in Command : c = OtherSession
    BY CommandTypes
  <2>2. Send(c) /\ c.op = "other" /\ UNCHANGED <<creator, reader, listed, produced>>
    BY <1>10, <2>1 DEF OtherCommand, OtherSession, provider
  <2> QED
    BY <1>2, <2>2, WaitingSent
<1> QED
  BY <1>2, <1>4, <1>5, <1>6, <1>7, <1>8, <1>9, <1>10

\* A command is received, and absorbed when it is output of a registered session.
LEMMA WaitingReceived ==
  ASSUME TypeOK, TypeOK', Waiting, NEW op, Receive(op),
         registered' => registered \/ op = "register",
         \/ ~registered' /\ op \notin {"other", "register"}
         \/ absorbed' = IF op = "output" THEN absorbed + Len(Head(queue).chunk) ELSE absorbed
  PROVE  Waiting'
<1>1. /\ RegisterIsFirst'
      /\ Live' => Live
      /\ op \notin {"other", "register"} /\ ~registered' => ~Live'
  BY FirstReceived DEF Waiting
<1>2. Live' => Live /\ IF op = "output" THEN absorbed' = absorbed + Len(Head(queue).chunk)
                                           ELSE absorbed' = absorbed
  BY <1>1
<1>3. QueueIsStream'
  BY <1>2, StreamReceived DEF Waiting
<1> QED
  BY <1>1, <1>3 DEF Waiting

\* The mux task.
LEMMA MuxStep ==
  ASSUME TypeOK, TypeOK', ChunksFit, HistoryIsNewest, Waiting, StartsAnew, BytesInv,
         Mux \/ OutputTick \/ HiddenMetaTick
  PROVE  Waiting' /\ StartsAnew' /\ BytesInv'
<1>1. CASE MuxRegister
  <2>1. UNCHANGED <<subscribers, ring, pending, hiddenVars, seq, history, absorbed>>
    BY <1>1 DEF MuxRegister, history
  <2>2. BytesInv'
    BY <2>1, BytesUnchanged
  <2>3. Receive("register") /\ registered'
    BY <1>1 DEF MuxRegister
  <2>4. Waiting'
    BY <2>1, <2>3, WaitingReceived
  <2> QED
    BY <2>2, <2>3, <2>4 DEF StartsAnew
<1>2. CASE MuxUnregister
  <2>1. Receive("unregister") /\ ~registered'
    BY <1>2 DEF MuxUnregister
  <2>2. Waiting'
    BY <2>1, WaitingReceived
  <2>3. StartsAnew'
    BY <1>2 DEF MuxUnregister, StartsAnew, FlowDefault
  <2>4. BytesInv'
    <3>1. /\ ring' = <<>> /\ pending' = <<>> /\ unreadBytes' = 0 /\ unreadChunks' = 0
          /\ tail' = <<>> /\ seq' = 0 /\ absorbed' = 0 /\ log' = <<>> /\ outputs' = <<>>
      BY <1>2 DEF MuxUnregister
    <3>2. Nothing'
      BY <3>1 DEF Nothing
    <3>3. Nothing' => BytesInv'
      BY NothingIsInOrder, PTL
    <3> QED
      BY <3>2, <3>3
  <2> QED
    BY <2>2, <2>3, <2>4
<1>3. CASE MuxOutput
  <2>1. PICK c : c = Head(queue).chunk
    OBVIOUS
  <2>2. Receive("output") /\ registered /\ AbsorbOutput(c) /\ registered'
    BY <1>3, <2>1 DEF MuxOutput, AbsorbOutput
  <2>3. c \in Chunk /\ Len(c) \in 1..ReadMax
    BY <2>1, <2>2, ReceiveType, CommandFields, ChunksFitReceive DEF Receive
  <2>4. c \in Seq(Nat) /\ c # <<>>
    BY <2>3, ByteIsNat DEF Chunk
  <2>5. Follows(c, absorbed)
    BY <2>1, <2>2, NextChunkFollows DEF Waiting
  <2>6. absorbed' = absorbed + Len(c) /\ (AbsorbVisible(c) \/ AbsorbHidden(c))
    BY <2>2 DEF AbsorbOutput
  <2>7. BytesInv'
    BY <2>2, <2>4, <2>5, <2>6, BytesVisible, BytesHidden
  <2>8. Waiting'
    BY <2>1, <2>2, <2>6, WaitingReceived
  <2> QED
    BY <2>2, <2>7, <2>8 DEF StartsAnew
<1>4. CASE MuxVisibility
  <2>1. Receive("visibility") /\ registered /\ registered' /\ absorbed' = absorbed
    BY <1>4 DEF MuxVisibility, SetVisible, history
  <2>2. Waiting'
    BY <2>1, WaitingReceived
  <2> QED
    BY <1>4, <2>1, <2>2, BytesVisibility DEF StartsAnew
<1>5. CASE MuxIgnore
  <2>1. UNCHANGED <<flow, history>>
    BY <1>5 DEF MuxIgnore
  <2>2. StartsAnew' /\ BytesInv' /\ UNCHANGED <<registered, absorbed>>
    BY <2>1, FlowUnchanged DEF flow, history
  <2>3. CASE Receive("other")
    BY <2>2, <2>3, WaitingReceived
  <2>4. CASE ~registered /\ Receive("output")
    BY <2>2, <2>4, WaitingReceived
  <2>5. CASE ~registered /\ Receive("visibility")
    BY <2>2, <2>5, WaitingReceived
  <2> QED
    BY <1>5, <2>2, <2>3, <2>4, <2>5 DEF MuxIgnore
<1>6. CASE OutputTick \/ HiddenMetaTick
  <2>1. registered /\ UNCHANGED <<registered, queue, produced, absorbed, creator, reader, listed>>
    BY <1>6 DEF OutputTick, HiddenMetaTick, provider, history
  <2>2. Waiting' /\ StartsAnew'
    BY <2>1, WaitingKept DEF StartsAnew
  <2>3. CASE OutputTick
    BY <2>2, <2>3, BytesTick
  <2>4. CASE HiddenMetaTick
    <3>1. BytesInv'
      BY <2>4, BytesRead DEF HiddenMetaTick
    <3> QED
      BY <2>2, <3>1
  <2> QED
    BY <1>6, <2>2, <2>3, <2>4
<1> QED
  BY <1>1, <1>2, <1>3, <1>4, <1>5, <1>6 DEF Mux

LEMMA BytesAtFirst == Init => Waiting /\ StartsAnew /\ BytesInv
<1> SUFFICES ASSUME Init PROVE Waiting /\ StartsAnew /\ BytesInv
  OBVIOUS
<1>1. queue = <<>> /\ produced = 0 /\ absorbed = 0 /\ Len(queue) = 0
  BY DEF Init
<1>2. PICK at : at = [i \in 1..1 |-> 0]
  OBVIOUS
<1>3. at \in [1..1 -> 0..MaxBytes] /\ at[1] = 0
  BY <1>2, BoundsAssumption
<1>4. at \in [1..(Len(queue) + 1) -> 0..MaxBytes] /\ Carries(at)
  BY <1>1, <1>3 DEF Carries
<1>5. QueueIsStream
  BY <1>4 DEF QueueIsStream
<1>6. RegisterIsFirst
  BY <1>1 DEF Init, RegisterIsFirst
<1>7. StartsAnew
  BY DEF Init, StartsAnew
<1>8. Nothing
  BY DEF Init, FlowDefault, Nothing
<1> QED
  BY <1>5, <1>6, <1>7, <1>8, NothingIsInOrder DEF Waiting

LEMMA ByteStep ==
  HistoryInv /\ HistoryInv' /\ Waiting /\ StartsAnew /\ BytesInv /\ [Next]_vars
    => Waiting' /\ StartsAnew' /\ BytesInv'
<1> SUFFICES ASSUME HistoryInv, HistoryInv', Waiting, StartsAnew, BytesInv, [Next]_vars
             PROVE  Waiting' /\ StartsAnew' /\ BytesInv'
  OBVIOUS
<1>1. TypeOK /\ TypeOK' /\ ChunksFit /\ HistoryIsNewest
  BY DEF HistoryInv
<1>2. CASE \/ CreateRegister \/ CreateFail \/ CreateInsert
           \/ \E n \in 1..ReadMax : Read(n)
           \/ EofUnregister \/ ReaderRemove \/ ChildExit
           \/ KillUnregister \/ KillChild
           \/ \E n \in {0, 1} : RequestVisibility(n)
           \/ OtherCommand
  BY <1>1, <1>2, ProviderStep
<1>3. CASE Mux \/ OutputTick \/ HiddenMetaTick
  BY <1>1, <1>3, MuxStep
<1>4. CASE UNCHANGED vars
  <2>1. /\ UNCHANGED <<flow, history>>
        /\ UNCHANGED <<queue, produced, absorbed, registered, creator, reader, listed>>
    BY <1>4 DEF vars, flow, history, provider
  <2> QED
    BY <2>1, FlowUnchanged, WaitingKept
<1> QED
  BY <1>2, <1>3, <1>4 DEF Next

\* The invariant about bytes: where each byte of the stream is, in the channel, in
\* the session's buffers and in the events.
THEOREM BytesCorrect == Spec => []ByteInv
<1>1. HistoryInv /\ HistoryInv' /\ Waiting /\ StartsAnew /\ BytesInv /\ [Next]_vars
        => Waiting' /\ StartsAnew' /\ BytesInv'
  BY ByteStep
<1> QED
  BY <1>1, BytesAtFirst, HistoryCorrect, PTL DEF Spec, ByteInv

\* What a snapshot returns of a ring that holds the newest bytes.
LEMMA SnapshotOfRing ==
  ASSUME TypeOK, BytesInv
  PROVE  SnapshotIsNewest
<1> SUFFICES ASSUME NEW max \in 1..(RingCap + 1)
             PROVE  LET bytes == Snapshot(max).chunk
                    IN  /\ bytes = LastBytes(Stream(1, absorbed), Len(bytes))
                        /\ Len(bytes) <= max
                        /\ absorbed > 0 => bytes # <<>>
                        /\ max >= RingCap => Len(bytes) = MinOf(RingCap, absorbed)
  BY DEF SnapshotIsNewest
<1>1. PICK r \in Seq(Seq(Nat)), f \in Seq(Nat), a \in Nat, R \in Nat \ {0} :
        r = ring /\ f = FlattenSeq(ring) /\ a = absorbed /\ R = RingCap
  BY ByteTypes, BoundsAssumption
<1>2. PICK b : b = Snapshot(max).chunk
  OBVIOUS
<1>3. max \in Nat \ {0}
  BY BoundsAssumption
<1>4. NoneEmpty(r) /\ f = LastBytes(Stream(1, a), R) /\ f = FlattenSeq(r)
  BY <1>1 DEF BytesInv, RingIsNewest
<1>5. /\ RingSnapshot(r, max) = LastBytes(FlattenSeq(r), Len(RingSnapshot(r, max)))
      /\ Len(RingSnapshot(r, max)) \in 0..max
      /\ Len(RingSnapshot(r, max)) <= Len(FlattenSeq(r))
      /\ FlattenSeq(r) # <<>> => RingSnapshot(r, max) # <<>>
      /\ max >= Len(FlattenSeq(r)) => RingSnapshot(r, max) = FlattenSeq(r)
  BY ONLY <1>3, <1>4, r \in Seq(Seq(Nat)), SnapshotIsEnd
<1>6. b = RingSnapshot(r, max)
  BY <1>1, <1>2 DEF Snapshot
<1>7. PICK n : n = Len(b)
  OBVIOUS
<1>8. /\ b = LastBytes(f, n) /\ n \in 0..max /\ n <= Len(f)
      /\ f # <<>> => b # <<>>
      /\ max >= Len(f) => b = f
  BY ONLY <1>4, <1>5, <1>6, <1>7
<1>9. PICK s \in Seq(Nat) : s = Stream(1, a) /\ Len(s) = a
  <2>1. 1 \in Nat \ {0} /\ 1 <= a + 1 /\ a - 1 + 1 = a
    OBVIOUS
  <2> QED
    BY <2>1, StreamProperties
<1>10. Len(f) = MinOf(R, a)
  BY <1>4, <1>9, LastBytesProperties
<1>11. MinOf(R, a) <= R /\ MinOf(R, a) \in Nat /\ (a > 0 => MinOf(R, a) > 0)
  BY DEF MinOf
<1>12. b = LastBytes(s, n)
  <2>1. n \in 0..R
    BY <1>8, <1>10, <1>11
  <2>2. LastBytes(LastBytes(s, R), n) = LastBytes(s, n)
    BY <2>1, LastOfLast
  <2> QED
    BY <1>4, <1>8, <1>9, <2>2
<1>13. a > 0 => b # <<>>
  <2>1. a > 0 => f # <<>>
    BY <1>10, <1>11, EmptySeq
  <2> QED
    BY <1>8, <2>1
<1>14. max >= R => n = MinOf(R, a)
  BY <1>3, <1>7, <1>8, <1>10, <1>11
<1>15. n <= max
  BY <1>8
<1> QED
  BY <1>1, <1>2, <1>7, <1>9, <1>12, <1>13, <1>14, <1>15

\* absorb_output and the output tick: every absorbed byte is in one frame or waits in
\* pending_visible, once, and the Output events are in stream order.
THEOREM EachByteOnceInOrderCorrect == Spec => []EachByteOnceInOrder
<1>1. ByteInv => EachByteOnceInOrder
  <2> SUFFICES ASSUME ByteInv PROVE EachByteOnceInOrder
    OBVIOUS
  <2>1. TypeOK /\ BytesInv
    BY DEF ByteInv, HistoryInv
  <2>2. PICK e \in Seq(Nat), p \in Seq(Nat) : e = FlattenSeq(OutputChunks) /\ p = pending
    BY <2>1, ByteTypes
  <2>3. Increasing(e \o p)
    BY <2>1, <2>2 DEF BytesInv, ShownInOrder, Shown
  <2>4. Increasing(e)
    BY <2>3, IncreasingBefore
  <2>5. Len(Kept) = absorbed /\ ToSet(Kept) = 1..absorbed
    BY <2>1 DEF BytesInv, AbsorbedIsKept, Whole
  <2> QED
    BY <2>2, <2>4, <2>5 DEF EachByteOnceInOrder, Kept, OutputChunks
<1> QED
  BY <1>1, BytesCorrect, PTL

\* The Meta event and read_session_snapshot: the unread counters and the preview tail
\* describe the last bytes absorbed, and a snapshot of any size is the end of the stream.
THEOREM LatestIsKeptCorrect == Spec => []LatestIsKept
<1>1. ByteInv => LatestIsKept
  BY SnapshotOfRing DEF ByteInv, HistoryInv, BytesInv, LatestIsKept
<1> QED
  BY <1>1, BytesCorrect, PTL
=============================================================================
