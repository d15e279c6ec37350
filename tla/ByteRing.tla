------------------------------ MODULE ByteRing ------------------------------
(***************************************************************************)
(* Byte-bounded buffers of crates/gt-terminal/src/lib.rs.  A chunk is a    *)
(* sequence of bytes, a ring is a sequence of chunks, oldest first.  The   *)
(* operators keep the chunk boundaries: ByteRingBuffer::snapshot walks     *)
(* chunk by chunk, and what it returns depends on them.                    *)
(***************************************************************************)
EXTENDS Integers, Sequences, SequencesExt

MinOf(a, b) == IF a <= b THEN a ELSE b

\* size_bytes of a ring, frames_bytes of the frames' chunks.
Size(chunks) == Len(FlattenSeq(chunks))

FirstBytes(s, n) == SubSeq(s, 1, MinOf(n, Len(s)))
LastBytes(s, n)  == SubSeq(s, Len(s) - MinOf(n, Len(s)) + 1, Len(s))
DropBytes(s, n)  == SubSeq(s, n + 1, Len(s))

-----------------------------------------------------------------------------
(* push_chunk.  Over capacity, its loop pops the front chunks that lie     *)
(* wholly in the overflow and cuts the next one: k chunks and c bytes go,  *)
(* and exactly cap bytes stay.  Both operators are the set of the one      *)
(* possible result.                                                        *)

Cut(ring, k, c) ==
  <<DropBytes(ring[k + 1], c)>> \o SubSeq(ring, k + 2, Len(ring))

\* Mutant: the chunk that is only partly in the overflow goes too.
TrimBug(ring, cap) ==
  {SubSeq(ring, k + 1, Len(ring)) :
     k \in {n \in 0..Len(ring) :
             /\ Size(SubSeq(ring, n + 1, Len(ring))) <= cap
             /\ \A j \in 0..(n - 1) :
                  Size(SubSeq(ring, j + 1, Len(ring))) > cap}}

Trim(ring, cap) ==
  IF Size(ring) <= cap THEN {ring}
  ELSE {Cut(ring, at[1], at[2]) :
          at \in {kc \in (0..(Len(ring) - 1)) \X (0..cap) :
                   /\ kc[2] < Len(ring[kc[1] + 1])
                   /\ Size(Cut(ring, kc[1], kc[2])) = cap}}

PushChunk(ring, chunk, cap) ==
  IF chunk = <<>> \/ cap = 0 THEN {ring}
  ELSE IF Len(chunk) >= cap THEN {<<LastBytes(chunk, cap)>>}
  ELSE Trim(Append(ring, chunk), cap)

(***************************************************************************)
(* ByteRingBuffer::snapshot.  The reverse loop selects the newest chunk    *)
(* and goes on to older ones only while the bytes NOT selected are more    *)
(* than max; the selection is then cut to its last max bytes.              *)
(***************************************************************************)
Selected(ring, max) ==
  LET first == CHOOSE k \in 1..Len(ring) :
                 /\ Size(SubSeq(ring, 1, k - 1)) <= max
                 /\ \A j \in (k + 1)..Len(ring) :
                      Size(SubSeq(ring, 1, j - 1)) > max
  IN  SubSeq(ring, first, Len(ring))

RingSnapshot(ring, max) ==
  IF max >= Size(ring) THEN FlattenSeq(ring)
  ELSE LastBytes(FlattenSeq(Selected(ring, max)), max)

\* append_tail: the same bound on a plain byte buffer.
AppendTail(tail, chunk, cap) ==
  IF cap = 0 \/ chunk = <<>> THEN tail ELSE LastBytes(tail \o chunk, cap)
=============================================================================
