---------------------------- MODULE RecoveryLog -----------------------------
(***************************************************************************)
(* What a terminal session promises to a renderer that recovers output: a  *)
(* numbered log that grows at its end and forgets only from its front, and *)
(* never its newest entry.  An abstraction of SessionFlowState's frames;   *)
(* it says nothing of bytes, visibility or batches.                        *)
(***************************************************************************)
EXTENDS Naturals, Sequences

CONSTANT Entry

VARIABLES
  entries,  \* every entry of the session, entry n at index n
  first     \* the oldest entry still held; Len(entries) + 1 when none is

vars == <<entries, first>>

TypeOK ==
  /\ entries \in Seq(Entry)
  /\ first \in 1..(Len(entries) + 1)

Init == entries = <<>> /\ first = 1

\* One more entry, and room made for it at the front.
Grow ==
  /\ Len(entries') = Len(entries) + 1
  /\ SubSeq(entries', 1, Len(entries)) = entries
  /\ entries'[Len(entries')] \in Entry
  /\ first' \in first..Len(entries')

\* The session ends and its history goes with it.
Close == entries' = <<>> /\ first' = 1

Next == Grow \/ Close

Spec == Init /\ [][Next]_vars

\* A reader that has everything up to after can go on without a gap.
Covers(after) == first <= after + 1

\* The newest entry is always held.
NewestHeld == entries # <<>> => first <= Len(entries)
=============================================================================
