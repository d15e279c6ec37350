--------------------------- MODULE TaskBus_proofs ---------------------------
(***************************************************************************)
(* Theorems about the task service, for any agents, calls and length of    *)
(* the log: no number is given twice, a task that was written is recorded, *)
(* and a message leaves the log only for a reason.                         *)
(***************************************************************************)
EXTENDS TaskBus, SequenceTheorems, FiniteSetTheorems, TLAPS

-----------------------------------------------------------------------------
(* The invariant.                                                          *)

\* The numbers that the messages of a sequence bear, each with its channel.
Numbers(s) == {<<s[i].to, s[i].seq>> : i \in 1..Len(s)}

Distinct(s) ==
  \A i, j \in 1..Len(s) : s[i].to = s[j].to /\ s[i].seq = s[j].seq => i = j

\* The number a call drew for the task that it is about to write.
Writing(c) == IF At(c, "write") THEN {<<Target(c), calls[c].seq>>} ELSE {}

\* The numbers in the hands of a call.
Held(c) == Numbers(calls[c].kept) \cup Writing(c)

\* The numbers that were drawn.
Drawn == {k \in Agent \X Nat : k[2] \in 1..channelSeq[k[1]]}

\* A call that draws or writes has a target, and only a task is written.
HasTarget ==
  \A c \in Caller :
    /\ calls[c].pc \in {"seq", "write"} => calls[c].todo # <<>>
    /\ At(c, "write") => calls[c].type = "instruction"

\* A call bears each of its numbers once.
HeldOnce ==
  \A c \in Caller : Distinct(calls[c].kept) /\ Writing(c) \cap Numbers(calls[c].kept) = {}

\* What one call holds, no other call does, nor the log.
HeldApart ==
  /\ \A c \in Caller : Held(c) \cap Numbers(messages) = {}
  /\ \A c \in Caller : \A d \in Caller \ {c} : Held(c) \cap Held(d) = {}

\* A number that is borne or held was drawn.
HeldIsDrawn == Numbers(messages) \in SUBSET Drawn /\ \A c \in Caller : Held(c) \in SUBSET Drawn

Numbering ==
  /\ HasTarget
  /\ Distinct(messages)
  /\ HeldOnce
  /\ HeldApart
  /\ HeldIsDrawn

BInv == TypeOK /\ Numbering /\ WrittenIsRecorded

-----------------------------------------------------------------------------
(* The operators on sequences.                                             *)

\* The numbers of a set up to one of them.
Upto(S, i) == {j \in S : j <= i}

LEMMA UptoGrows ==
  ASSUME NEW S \in SUBSET Nat, NEW i \in S, NEW j \in S
  PROVE  /\ i <= j => Upto(S, i) \in SUBSET Upto(S, j)
         /\ i < j => j \in Upto(S, j) /\ j \notin Upto(S, i)
         /\ i \in Upto(S, i) /\ (i \in Upto(S, j) => i <= j)
         /\ i <= j \/ j < i
  <1>1. i \in Nat /\ j \in Nat /\ \A x \in S : x \in Nat
    OBVIOUS
  <1>2. ASSUME i <= j
        PROVE  \A x \in Upto(S, i) : x \in Upto(S, j)
    <2>. TAKE x \in Upto(S, i)
    <2>1. x \in S /\ x \in Nat /\ x <= i
      BY <1>1 DEF Upto
    <2>2. x <= j
      BY <1>1, <1>2, <2>1
    <2>. QED
      BY <2>1, <2>2 DEF Upto
  <1>3. i <= j => Upto(S, i) \in SUBSET Upto(S, j)
    BY <1>2
  <1>4. j \in Upto(S, j) /\ i \in Upto(S, i)
    BY <1>1 DEF Upto
  <1>5. i < j => j \notin Upto(S, i)
    BY <1>1 DEF Upto
  <1>6. i \in Upto(S, j) => i <= j
    BY DEF Upto
  <1>7. i <= j \/ j < i
    BY <1>1
  <1>. QED
    BY <1>3, <1>4, <1>5, <1>6, <1>7

\* They are as many as there are numbers up to it: from one to all.
LEMMA UptoCounts ==
  ASSUME NEW S \in SUBSET Nat, IsFiniteSet(S), NEW i \in S
  PROVE  IsFiniteSet(Upto(S, i)) /\ Cardinality(Upto(S, i)) \in 1..Cardinality(S)
  <1>1. Upto(S, i) \in SUBSET S /\ i \in Upto(S, i)
    BY UptoGrows DEF Upto
  <1>2. IsFiniteSet(Upto(S, i)) /\ Cardinality(Upto(S, i)) <= Cardinality(S)
    BY <1>1, FS_Subset
  <1>3. Cardinality(Upto(S, i)) # 0
    BY <1>1, <1>2, FS_EmptySet
  <1>4. Cardinality(Upto(S, i)) \in Nat /\ Cardinality(S) \in Nat
    BY <1>2, FS_CardinalityType
  <1>. QED
    BY <1>2, <1>3, <1>4

LEMMA UptoIsInjective ==
  ASSUME NEW S \in SUBSET Nat, IsFiniteSet(S), NEW i \in S, NEW j \in S,
         Cardinality(Upto(S, i)) = Cardinality(Upto(S, j))
  PROVE  i = j
  <1>1. ASSUME NEW x \in S, NEW y \in S, x < y
        PROVE  Cardinality(Upto(S, x)) # Cardinality(Upto(S, y))
    <2>1. Upto(S, x) \in SUBSET Upto(S, y) /\ y \in Upto(S, y) /\ y \notin Upto(S, x)
      BY <1>1, UptoGrows
    <2>2. IsFiniteSet(Upto(S, y))
      BY UptoCounts
    <2>. QED
      BY <2>1, <2>2, FS_Subset
  <1>2. i \in Nat /\ j \in Nat
    OBVIOUS
  <1>3. i = j \/ i < j \/ j < i
    BY <1>2
  <1>. QED
    BY <1>1, <1>3

\* The k-th number of a finite set of them is there, and has k - 1 before it.
LEMMA KthProperties ==
  ASSUME NEW S \in SUBSET Nat, IsFiniteSet(S), NEW k \in 1..Cardinality(S)
  PROVE  Kth(S, k) \in S /\ Cardinality(Upto(S, Kth(S, k))) = k
  <1> DEFINE rank == [i \in S |-> Cardinality(Upto(S, i))]
  <1>1. rank \in [S -> 1..Cardinality(S)]
    BY UptoCounts
  <1>2. \A i, j \in S : rank[i] = rank[j] => i = j
    BY UptoIsInjective
  <1>3. rank \in Injection(S, 1..Cardinality(S))
    BY <1>1, <1>2 DEF Injection, IsInjective
  <1>4. Cardinality(S) \in Nat
    BY FS_CardinalityType
  <1>5. IsFiniteSet(1..Cardinality(S)) /\ Cardinality(1..Cardinality(S)) = Cardinality(S)
    BY <1>4, FS_Interval
  <1>6. rank \in Surjection(S, 1..Cardinality(S))
    BY <1>3, <1>5, FS_Injection
  <1>7. \E i \in S : Cardinality(Upto(S, i)) = k
    BY <1>6 DEF Surjection
  <1>. QED
    BY <1>7 DEF Kth, Upto

\* What retain returns: a sequence of the messages that stay, each once, in their order.
LEMMA WithoutProperties ==
  ASSUME NEW s \in Seq(Message), NEW a
  PROVE  /\ Without(s, a) \in Seq(Message) /\ Len(Without(s, a)) <= Len(s)
         /\ \E place \in [1..Len(Without(s, a)) -> 1..Len(s)] :
              /\ \A k \in 1..Len(Without(s, a)) : Without(s, a)[k] = s[place[k]]
              /\ \A k, l \in 1..Len(Without(s, a)) : k < l => place[k] < place[l]
              /\ \A i \in 1..Len(s) : ~Involves(s[i], a) =>
                   \E k \in 1..Len(Without(s, a)) : place[k] = i
  <1> DEFINE S == {i \in 1..Len(s) : ~Involves(s[i], a)}
             n == Cardinality(S)
             place == [k \in 1..n |-> Kth(S, k)]
  <1>0. Len(s) \in Nat /\ \A i \in 1..Len(s) : s[i] \in Message
    BY LenProperties, ElementOfSeq
  <1>1. IsFiniteSet(1..Len(s)) /\ Cardinality(1..Len(s)) = Len(s)
    BY <1>0, FS_Interval
  <1>2. S \in SUBSET (1..Len(s)) /\ S \in SUBSET Nat
    BY <1>0
  <1>3. IsFiniteSet(S) /\ n <= Len(s) /\ n \in Nat
    BY <1>1, <1>2, FS_Subset, FS_CardinalityType
  <1>4. \A i \in 1..Len(s) : ~Involves(s[i], a) => i \in S
    OBVIOUS
  <1>5. Without(s, a) = [k \in 1..n |-> s[Kth(S, k)]]
    BY DEF Without
  <1> HIDE DEF S
  <1>6. \A k \in 1..n : Kth(S, k) \in S /\ Cardinality(Upto(S, Kth(S, k))) = k
    BY <1>2, <1>3, KthProperties
  <1>7. \A k \in 1..n : s[Kth(S, k)] \in Message
    BY <1>0, <1>2, <1>6
  <1>8. Without(s, a) \in [1..n -> Message]
    BY <1>5, <1>7
  <1>9. Without(s, a) \in Seq(Message) /\ Len(Without(s, a)) = n
    BY <1>3, <1>8
  <1>10. place \in [1..n -> 1..Len(s)] /\ \A k \in 1..n : Without(s, a)[k] = s[place[k]]
    BY <1>2, <1>5, <1>6
  <1>11. \A k, l \in 1..n : k < l => place[k] < place[l]
    <2>. SUFFICES ASSUME NEW k \in 1..n, NEW l \in 1..n, k < l, ~(Kth(S, k) < Kth(S, l))
                  PROVE  FALSE
      OBVIOUS
    <2>1. Kth(S, k) \in S /\ Kth(S, l) \in S
      BY <1>6
    <2>2. Upto(S, Kth(S, l)) \in SUBSET Upto(S, Kth(S, k))
      BY <1>2, <2>1, UptoGrows
    <2>3. Cardinality(Upto(S, Kth(S, l))) <= Cardinality(Upto(S, Kth(S, k)))
      BY <1>2, <1>3, <2>1, <2>2, UptoCounts, FS_Subset
    <2>. QED
      BY <1>6, <2>3
  <1>12. ASSUME NEW i \in 1..Len(s), ~Involves(s[i], a)
         PROVE  \E k \in 1..n : place[k] = i
    <2>1. i \in S
      BY <1>4, <1>12
    <2>2. PICK k \in 1..n : k = Cardinality(Upto(S, i))
      BY <1>2, <1>3, <2>1, UptoCounts
    <2>3. Kth(S, k) \in S /\ Cardinality(Upto(S, Kth(S, k))) = Cardinality(Upto(S, i))
      BY <1>6, <2>2
    <2>4. PICK x \in S : x = Kth(S, k) /\ Cardinality(Upto(S, x)) = Cardinality(Upto(S, i))
      BY <2>3
    <2>5. x = i
      BY <1>2, <1>3, <2>1, <2>4, UptoIsInjective
    <2>. QED
      BY <2>4, <2>5
  <1> HIDE DEF n, place
  <1>13. Len(Without(s, a)) = n
    BY <1>9
  <1>14. place \in [1..Len(Without(s, a)) -> 1..Len(s)]
    BY <1>10, <1>13
  <1>15. \A k \in 1..Len(Without(s, a)) : Without(s, a)[k] = s[place[k]]
    BY <1>10, <1>13
  <1>16. \A k, l \in 1..Len(Without(s, a)) : k < l => place[k] < place[l]
    BY <1>11, <1>13
  <1>17. \A i \in 1..Len(s) : ~Involves(s[i], a) =>
           \E k \in 1..Len(Without(s, a)) : place[k] = i
    BY <1>12, <1>13
  <1>. QED
    BY <1>3, <1>9, <1>13, <1>14, <1>15, <1>16, <1>17

\* The latest n messages of a log, once it is longer.
LEMMA LastOfProperties ==
  ASSUME NEW s \in Seq(Message), NEW n \in Nat
  PROVE  /\ LastOf(s, n) \in Seq(Message) /\ Len(LastOf(s, n)) <= n
         /\ Len(s) <= n => LastOf(s, n) = s
         /\ Len(s) > n => /\ Len(LastOf(s, n)) = n
                          /\ \A k \in 1..n : LastOf(s, n)[k] = s[k + (Len(s) - n)]
  <1>0. Len(s) \in Nat /\ \A i \in 1..Len(s) : s[i] \in Message
    BY LenProperties, ElementOfSeq
  <1>1. CASE Len(s) <= n
    BY <1>0, <1>1 DEF LastOf
  <1>2. CASE Len(s) > n
    <2> DEFINE first == Len(s) - n + 1
    <2>1. first \in Int /\ Len(s) \in Int /\ LastOf(s, n) = SubSeq(s, first, Len(s))
      BY <1>0, <1>2 DEF LastOf
    <2>2. \A i \in first..Len(s) : s[i] \in Message
      BY <1>0, <1>2
    <2>3. Len(s) - first + 1 = n /\ first <= Len(s) + 1 /\ \A k \in 1..n : first + k - 1 = k + (Len(s) - n)
      BY <1>0, <1>2
    <2>4. first <= Len(s) \/ n = 0
      BY <1>0, <1>2
    <2> HIDE DEF first
    <2>5. /\ SubSeq(s, first, Len(s)) \in Seq(Message)
          /\ Len(SubSeq(s, first, Len(s))) = IF first <= Len(s) THEN Len(s) - first + 1 ELSE 0
          /\ \A i \in 1..Len(s) - first + 1 : SubSeq(s, first, Len(s))[i] = s[first + i - 1]
      BY <2>1, <2>2, SubSeqProperties
    <2>. QED
      BY <1>0, <1>2, <2>1, <2>3, <2>4, <2>5
  <1>. QED
    BY <1>0, <1>1, <1>2

LEMMA NumbersOfAppend ==
  ASSUME NEW s \in Seq(Message), NEW m \in Message
  PROVE  /\ Numbers(Append(s, m)) = Numbers(s) \cup {<<m.to, m.seq>>}
         /\ Distinct(s) /\ <<m.to, m.seq>> \notin Numbers(s) => Distinct(Append(s, m))
  <1> DEFINE t == Append(s, m)
  <1>1. /\ Len(s) \in Nat /\ Len(t) = Len(s) + 1
        /\ \A i \in 1..Len(s) : t[i] = s[i]
        /\ t[Len(s) + 1] = m
    BY AppendProperties, LenProperties
  <1>2. 1..Len(t) = 1..Len(s) \cup {Len(s) + 1}
    BY <1>1
  <1> HIDE DEF t
  <1>3. Numbers(t) = Numbers(s) \cup {<<m.to, m.seq>>}
    BY <1>1, <1>2 DEF Numbers
  <1>4. ASSUME Distinct(s), <<m.to, m.seq>> \notin Numbers(s)
        PROVE  Distinct(t)
    <2>. SUFFICES ASSUME NEW i \in 1..Len(t), NEW j \in 1..Len(t),
                         t[i].to = t[j].to, t[i].seq = t[j].seq
                  PROVE  i = j
      BY DEF Distinct
    <2>1. \A k \in 1..Len(s) : ~(t[k].to = m.to /\ t[k].seq = m.seq)
      BY <1>1, <1>4 DEF Numbers
    <2>2. CASE i \in 1..Len(s) /\ j \in 1..Len(s)
      BY <1>1, <1>4, <2>2 DEF Distinct
    <2>3. CASE i = Len(s) + 1 \/ j = Len(s) + 1
      BY <1>1, <1>2, <2>1, <2>3
    <2>. QED
      BY <1>2, <2>2, <2>3
  <1>. QED
    BY <1>3, <1>4 DEF t

LEMMA NumbersOfConcat ==
  ASSUME NEW s \in Seq(Message), NEW u \in Seq(Message)
  PROVE  /\ Numbers(s \o u) = Numbers(s) \cup Numbers(u)
         /\ ToSet(s \o u) = ToSet(s) \cup ToSet(u)
         /\ Distinct(s) /\ Distinct(u) /\ Numbers(s) \cap Numbers(u) = {} => Distinct(s \o u)
  <1> DEFINE t == s \o u
  <1>1. /\ Len(s) \in Nat /\ Len(u) \in Nat /\ t \in Seq(Message)
        /\ Len(t) = Len(s) + Len(u)
        /\ \A i \in 1..Len(t) : t[i] = IF i <= Len(s) THEN s[i] ELSE u[i - Len(s)]
    BY ConcatProperties, LenProperties
  <1>2. DOMAIN t = 1..Len(t) /\ DOMAIN s = 1..Len(s) /\ DOMAIN u = 1..Len(u)
    BY <1>1, LenProperties
  <1> HIDE DEF t
  <1>3. \A i \in 1..Len(s) : i \in 1..Len(t) /\ t[i] = s[i]
    BY <1>1
  <1>4. \A i \in 1..Len(u) : i + Len(s) \in 1..Len(t) /\ t[i + Len(s)] = u[i]
    BY <1>1
  <1>5. \A i \in 1..Len(t) : \/ i \in 1..Len(s) /\ t[i] = s[i]
                             \/ i - Len(s) \in 1..Len(u) /\ t[i] = u[i - Len(s)]
    BY <1>1
  <1>6. Numbers(t) = Numbers(s) \cup Numbers(u)
    BY <1>3, <1>4, <1>5 DEF Numbers
  <1>7. ToSet(t) = ToSet(s) \cup ToSet(u)
    <2>1. /\ ToSet(t) = {t[i] : i \in 1..Len(t)}
          /\ ToSet(s) = {s[i] : i \in 1..Len(s)}
          /\ ToSet(u) = {u[i] : i \in 1..Len(u)}
      BY <1>2 DEF ToSet
    <2>2. \A m \in ToSet(t) : m \in ToSet(s) \cup ToSet(u)
      BY <1>5, <2>1
    <2>3. \A m \in ToSet(s) \cup ToSet(u) : m \in ToSet(t)
      BY <1>3, <1>4, <2>1
    <2>. QED
      BY <2>2, <2>3
  <1>8. ASSUME Distinct(s), Distinct(u), Numbers(s) \cap Numbers(u) = {}
        PROVE  Distinct(t)
    <2>. SUFFICES ASSUME NEW i \in 1..Len(t), NEW j \in 1..Len(t),
                         t[i].to = t[j].to, t[i].seq = t[j].seq
                  PROVE  i = j
      BY DEF Distinct
    <2>1. \A k \in 1..Len(s), l \in 1..Len(u) : ~(s[k].to = u[l].to /\ s[k].seq = u[l].seq)
      BY <1>8 DEF Numbers
    <2>2. CASE i \in 1..Len(s) /\ j \in 1..Len(s)
      BY <1>3, <1>8, <2>2 DEF Distinct
    <2>3. CASE i - Len(s) \in 1..Len(u) /\ j - Len(s) \in 1..Len(u)
      <3>1. t[i] = u[i - Len(s)] /\ t[j] = u[j - Len(s)]
        BY <1>1, <2>3
      <3>2. i - Len(s) = j - Len(s)
        BY <1>8, <2>3, <3>1 DEF Distinct
      <3>. QED
        BY <1>1, <3>2
    <2>4. CASE ~(i \in 1..Len(s) /\ j \in 1..Len(s))
             /\ ~(i - Len(s) \in 1..Len(u) /\ j - Len(s) \in 1..Len(u))
      BY <1>5, <2>1, <2>4
    <2>. QED
      BY <2>2, <2>3, <2>4
  <1>. QED
    BY <1>6, <1>7, <1>8 DEF t

\* A sequence of some messages of another, each once, bears fewer numbers, once if they were.
LEMMA NumbersOfPick ==
  ASSUME NEW s \in Seq(Message), NEW t \in Seq(Message),
         NEW place \in [1..Len(t) -> 1..Len(s)],
         \A k \in 1..Len(t) : t[k] = s[place[k]],
         \A k, l \in 1..Len(t) : k < l => place[k] < place[l]
  PROVE  Numbers(t) \in SUBSET Numbers(s) /\ (Distinct(s) => Distinct(t))
  <1>1. Numbers(t) \in SUBSET Numbers(s)
    BY DEF Numbers
  <1>2. \A k, l \in 1..Len(t) : place[k] = place[l] => k = l
    <2>. SUFFICES ASSUME NEW k \in 1..Len(t), NEW l \in 1..Len(t), place[k] = place[l], k # l
                  PROVE  FALSE
      OBVIOUS
    <2>1. k < l \/ l < k
      OBVIOUS
    <2>2. place[k] \in 1..Len(s) /\ place[l] \in 1..Len(s)
      OBVIOUS
    <2>. QED
      BY <2>1, <2>2
  <1>3. ASSUME Distinct(s)
        PROVE  Distinct(t)
    BY <1>2, <1>3 DEF Distinct
  <1>. QED
    BY <1>1, <1>3

-----------------------------------------------------------------------------
(* What each step does to the call that takes it.                          *)

OthersStay(c) ==
  calls' \in [Caller -> Call] /\ \A d \in Caller \ {c} : calls'[d] = calls[d]

LEMMA CallFields ==
  ASSUME TypeOK, NEW c \in Caller
  PROVE  /\ calls[c] \in Call
         /\ calls[c].type \in {"instruction", "reply"} /\ calls[c].from \in Agent \cup {Human}
         /\ calls[c].todo \in Seq(Agent) /\ calls[c].kept \in Seq(Message)
         /\ calls[c].task \in Nat /\ calls[c].seq \in Nat
         /\ calls[c].todo # <<>> => Target(c) \in Agent /\ Tail(calls[c].todo) \in Seq(Agent)
  <1>1. calls[c] \in Call
    BY DEF TypeOK
  <1>2. /\ calls[c].type \in {"instruction", "reply"} /\ calls[c].from \in Agent \cup {Human}
        /\ calls[c].todo \in Seq(Agent) /\ calls[c].kept \in Seq(Message)
        /\ calls[c].task \in Nat /\ calls[c].seq \in Nat
    BY <1>1 DEF Call
  <1>3. calls[c].todo # <<>> => Target(c) \in Agent /\ Tail(calls[c].todo) \in Seq(Agent)
    BY <1>2, HeadTailProperties DEF Target
  <1>. QED
    BY <1>1, <1>2, <1>3

LEMMA IdleFields ==
  /\ Idle \in Call /\ Idle.pc = "idle" /\ Idle.kept = <<>> /\ Idle.todo = <<>>
  /\ Idle.type = "instruction" /\ Idle.task = 0 /\ Idle.seq = 0 /\ Idle.from = Human
  <1>1. <<>> \in Seq(Message) /\ <<>> \in Seq(Agent)
    BY EmptySeq
  <1>. QED
    BY <1>1 DEF Idle, Call

LEMMA BeginMoves ==
  ASSUME TypeOK, NEW c \in Caller, NEW type \in {"instruction", "reply"},
         NEW from \in Agent \cup {Human}, NEW todo \in Seq(Agent), NEW task \in Nat,
         Begin(c, type, from, todo, task)
  PROVE  OthersStay(c) /\ calls'[c].pc = "check" /\ calls'[c].kept = <<>> /\ calls[c] = Idle
  <1> DEFINE r == [Idle EXCEPT !.pc = "check", !.type = type, !.from = from,
                               !.todo = todo, !.task = task]
  <1>1. r \in Call /\ r.pc = "check" /\ r.kept = <<>>
    BY IdleFields DEF Call
  <1>2. calls' = [calls EXCEPT ![c] = r] /\ calls[c] = Idle
    BY DEF Begin
  <1> HIDE DEF r
  <1>. QED
    BY <1>1, <1>2 DEF TypeOK, OthersStay

LEMMA CheckMoves ==
  ASSUME TypeOK, NEW c \in Caller, Check(c)
  PROVE  /\ OthersStay(c) /\ taskIds' \in Nat
         /\ calls[c].pc = "check" /\ calls'[c].pc \in {"check", "seq"}
         /\ calls'[c].kept = calls[c].kept
         /\ calls'[c].pc = "seq" => calls'[c].todo # <<>>
  <1> DEFINE task == IF calls[c].type = "instruction" THEN taskIds' ELSE calls[c].task
             pc == IF Target(c) \in online THEN "seq" ELSE "check"
             todo == IF Target(c) \in online THEN calls[c].todo ELSE Tail(calls[c].todo)
             r == [calls[c] EXCEPT !.task = task, !.pc = pc, !.todo = todo]
  <1>1. taskIds' \in Nat /\ calls[c].todo # <<>> /\ calls[c].pc = "check"
    BY DEF TypeOK, Check, At
  <1>2. task \in Nat /\ pc \in {"check", "seq"} /\ todo \in Seq(Agent)
    BY <1>1, CallFields
  <1>3. pc = "seq" => todo # <<>>
    BY <1>1
  <1>4. calls' = [calls EXCEPT ![c] = r]
    BY DEF TypeOK, Check
  <1> HIDE DEF task, pc, todo
  <1>5. r \in Call /\ r.pc = pc /\ r.todo = todo /\ r.kept = calls[c].kept
    BY <1>2, CallFields DEF Call
  <1> HIDE DEF r
  <1>. QED
    BY <1>1, <1>2, <1>3, <1>4, <1>5 DEF TypeOK, OthersStay

LEMMA KeepMoves ==
  ASSUME TypeOK, NEW c \in Caller, calls[c].todo # <<>>, NEW m \in Message, Keep(c, m)
  PROVE  /\ OthersStay(c) /\ calls'[c].pc = "check"
         /\ calls'[c].kept = Append(calls[c].kept, m)
  <1> DEFINE kept == Append(calls[c].kept, m)
             todo == Tail(calls[c].todo)
             r == [calls[c] EXCEPT !.kept = kept, !.todo = todo, !.pc = "check"]
  <1>1. kept \in Seq(Message) /\ todo \in Seq(Agent)
    BY CallFields, AppendProperties
  <1>2. calls' = [calls EXCEPT ![c] = r]
    BY DEF TypeOK, Keep
  <1> HIDE DEF kept, todo
  <1>3. r \in Call /\ r.pc = "check" /\ r.kept = kept
    BY <1>1, CallFields DEF Call
  <1> HIDE DEF r
  <1>. QED
    BY <1>2, <1>3 DEF TypeOK, OthersStay, kept

LEMMA MessageFields ==
  ASSUME TypeOK, NEW c \in Caller, calls[c].todo # <<>>, NEW n \in Nat
  PROVE  /\ MessageOf(c, n) \in Message
         /\ MessageOf(c, n).to = Target(c) /\ MessageOf(c, n).seq = n
         /\ MessageOf(c, n).task = calls[c].task /\ MessageOf(c, n).type = calls[c].type
  BY CallFields DEF MessageOf, Message

LEMMA DrawMoves ==
  ASSUME TypeOK, HasTarget, NEW c \in Caller, NextChannelSeq(c)
  PROVE  /\ OthersStay(c) /\ Target(c) \in Agent
         /\ channelSeq' = [channelSeq EXCEPT ![Target(c)] = channelSeq[Target(c)] + 1]
         /\ channelSeq' \in [Agent -> Nat]
         /\ \/ /\ calls'[c].pc = "write" /\ calls'[c].type = "instruction"
               /\ calls'[c].todo = calls[c].todo /\ calls[c].todo # <<>>
               /\ calls'[c].seq = channelSeq[Target(c)] + 1
               /\ calls'[c].kept = calls[c].kept
            \/ /\ calls'[c].pc = "check"
               /\ calls'[c].kept = Append(calls[c].kept, MessageOf(c, channelSeq[Target(c)] + 1))
  <1> DEFINE n == channelSeq[Target(c)] + 1
  <1>1. calls[c].todo # <<>> /\ Target(c) \in Agent
    BY CallFields DEF HasTarget, NextChannelSeq, At
  <1>2. channelSeq' = [channelSeq EXCEPT ![Target(c)] = n] /\ n \in Nat
    BY <1>1 DEF NextChannelSeq, TypeOK
  <1>3. channelSeq' \in [Agent -> Nat] /\ channelSeq'[Target(c)] = n
    BY <1>1, <1>2 DEF TypeOK
  <1> HIDE DEF n
  <1>4. CASE calls[c].type = "instruction"
    <2> DEFINE r == [calls[c] EXCEPT !.seq = n, !.pc = "write"]
    <2>1. calls' = [calls EXCEPT ![c] = r]
      BY <1>3, <1>4 DEF NextChannelSeq, TypeOK
    <2>2. /\ r \in Call /\ r.pc = "write" /\ r.seq = n /\ r.type = "instruction"
          /\ r.todo = calls[c].todo /\ r.kept = calls[c].kept
      BY <1>2, <1>4, CallFields DEF Call
    <2> HIDE DEF r
    <2>3. OthersStay(c) /\ calls'[c] = r
      BY <2>1, <2>2 DEF TypeOK, OthersStay
    <2>. QED
      BY <1>1, <1>2, <1>3, <2>2, <2>3 DEF n
  <1>5. CASE calls[c].type # "instruction"
    <2>1. Keep(c, MessageOf(c, n))
      BY <1>3, <1>5 DEF NextChannelSeq
    <2>2. MessageOf(c, n) \in Message
      BY <1>1, <1>2, MessageFields
    <2>3. OthersStay(c) /\ calls'[c].pc = "check" /\ calls'[c].kept = Append(calls[c].kept, MessageOf(c, n))
      BY <1>1, <2>1, <2>2, KeepMoves
    <2>. QED
      BY <1>1, <1>2, <1>3, <2>3 DEF n
  <1>. QED
    BY <1>4, <1>5

LEMMA WriteMoves ==
  ASSUME TypeOK, HasTarget, NEW c \in Caller, WriteTerminal(c)
  PROVE  /\ OthersStay(c) /\ At(c, "write") /\ calls[c].type = "instruction"
         /\ MessageOf(c, calls[c].seq) \in Message
         /\ calls'[c].pc = "check"
         /\ calls'[c].kept = Append(calls[c].kept, MessageOf(c, calls[c].seq))
  <1>1. calls[c].todo # <<>> /\ calls[c].type = "instruction" /\ At(c, "write")
    BY DEF HasTarget, WriteTerminal, At
  <1>2. MessageOf(c, calls[c].seq) \in Message
    BY <1>1, CallFields, MessageFields
  <1>3. Keep(c, MessageOf(c, calls[c].seq))
    BY DEF WriteTerminal
  <1>. QED
    BY <1>1, <1>2, <1>3, KeepMoves

LEMMA FailMoves ==
  ASSUME TypeOK, HasTarget, NEW c \in Caller, WriteFails(c)
  PROVE  OthersStay(c) /\ calls'[c].pc = "check" /\ calls'[c].kept = calls[c].kept
  <1> DEFINE todo == Tail(calls[c].todo)
             r == [calls[c] EXCEPT !.todo = todo, !.pc = "check"]
  <1>1. todo \in Seq(Agent)
    BY CallFields DEF HasTarget, WriteFails, At
  <1>2. calls' = [calls EXCEPT ![c] = r]
    BY DEF TypeOK, WriteFails
  <1> HIDE DEF todo
  <1>3. r \in Call /\ r.pc = "check" /\ r.kept = calls[c].kept
    BY <1>1, CallFields DEF Call
  <1> HIDE DEF r
  <1>. QED
    BY <1>2, <1>3 DEF TypeOK, OthersStay

\* All that were there, and those of the call.
All(c) == messages \o calls[c].kept

LEMMA StoreMoves ==
  ASSUME TypeOK, NEW c \in Caller, Store(c)
  PROVE  /\ OthersStay(c) /\ calls[c].pc = "check" /\ calls'[c].pc = "idle" /\ calls'[c].kept = <<>>
         /\ messages' = LastOf(All(c), MaxMessages)
         /\ forgotten' = forgotten \cup (Instructions(All(c)) \ Instructions(messages'))
         /\ All(c) \in Seq(Message)
  <1>1. All(c) \in Seq(Message)
    BY CallFields, ConcatProperties DEF All, TypeOK
  <1>2. calls' = [calls EXCEPT ![c] = Idle] /\ calls[c].pc = "check"
    BY DEF Store, At
  <1>3. OthersStay(c) /\ calls'[c] = Idle
    BY <1>2, IdleFields DEF OthersStay, TypeOK
  <1>4. /\ messages' = LastOf(All(c), MaxMessages)
        /\ forgotten' = forgotten \cup (Instructions(All(c)) \ Instructions(messages'))
    BY DEF Store, All
  <1>. QED
    BY <1>1, <1>2, <1>3, <1>4, IdleFields

-----------------------------------------------------------------------------
(* Type correctness.                                                       *)

LEMMA InstructionsAreNumbered ==
  ASSUME NEW s \in Seq(Message)
  PROVE  Instructions(s) \in SUBSET Nat /\ ToSet(s) = {s[i] : i \in 1..Len(s)}
  <1>1. DOMAIN s = 1..Len(s) /\ \A i \in 1..Len(s) : s[i] \in Message
    BY LenProperties, ElementOfSeq
  <1>2. ToSet(s) = {s[i] : i \in 1..Len(s)}
    BY <1>1 DEF ToSet
  <1>3. \A m \in ToSet(s) : m.task \in Nat
    BY <1>1, <1>2 DEF Message
  <1>. QED
    BY <1>2, <1>3 DEF Instructions

LEMMA TargetsAreSequences == \A targets \in Targets : targets \in Seq(Agent)
  BY BoundsAssumption DEF Targets

LEMMA TypeInit == Init => TypeOK
  <1>. SUFFICES ASSUME Init
                PROVE  TypeOK
    OBVIOUS
  <1>1. messages \in Seq(Message) /\ Len(messages) = 0
    BY EmptySeq DEF Init
  <1>. QED
    BY <1>1, IdleFields, BoundsAssumption DEF Init, TypeOK

LEMMA PurgeKeepsType ==
  ASSUME TypeOK, NEW a \in Agent, Purge(a)
  PROVE  messages' \in Seq(Message) /\ Len(messages') <= MaxMessages /\ forgotten' \subseteq Nat
  <1>1. messages' \in Seq(Message) /\ Len(messages') <= Len(messages)
    BY WithoutProperties DEF Purge, TypeOK
  <1>2. Len(messages') \in Nat /\ Len(messages) \in Nat /\ Len(messages) <= MaxMessages
    BY <1>1, LenProperties DEF TypeOK
  <1>3. Instructions(messages) \in SUBSET Nat
    BY InstructionsAreNumbered DEF TypeOK
  <1>4. MaxMessages \in Nat
    BY BoundsAssumption
  <1>5. Len(messages') <= MaxMessages
    BY <1>1, <1>2, <1>4
  <1>6. forgotten' \subseteq Nat
    BY <1>3 DEF Purge, TypeOK
  <1>. QED
    BY <1>1, <1>5, <1>6

LEMMA StoreKeepsType ==
  ASSUME TypeOK, NEW c \in Caller, Store(c)
  PROVE  messages' \in Seq(Message) /\ Len(messages') <= MaxMessages /\ forgotten' \subseteq Nat
  <1>1. /\ messages' = LastOf(All(c), MaxMessages) /\ All(c) \in Seq(Message)
        /\ forgotten' = forgotten \cup (Instructions(All(c)) \ Instructions(messages'))
    BY StoreMoves
  <1>2. MaxMessages \in Nat /\ Len(All(c)) \in Nat
    BY <1>1, LenProperties, BoundsAssumption
  <1>3. messages' \in Seq(Message) /\ Len(messages') <= MaxMessages
    <2>1. PICK s \in Seq(Message) : s = All(c)
      BY <1>1
    <2>2. Len(s) \in Nat /\ (Len(s) <= MaxMessages \/ Len(s) > MaxMessages)
      BY <1>2, <2>1
    <2>3. LastOf(s, MaxMessages) \in Seq(Message) /\ Len(LastOf(s, MaxMessages)) <= MaxMessages
      BY <1>2, <2>2, LastOfProperties
    <2>. QED
      BY <1>1, <2>1, <2>3
  <1>4. Instructions(All(c)) \in SUBSET Nat
    BY <1>1, InstructionsAreNumbered
  <1>. QED
    BY <1>1, <1>3, <1>4 DEF TypeOK

LEMMA TypeStep == TypeOK /\ HasTarget /\ [Next]_vars => TypeOK'
  <1>. SUFFICES ASSUME TypeOK, HasTarget, [Next]_vars
                PROVE  TypeOK'
    OBVIOUS
  <1>1. CASE UNCHANGED vars
    BY <1>1 DEF vars, bus, TypeOK
  <1>2. ASSUME NEW a \in Agent, RegisterRuntime(a)
        PROVE  TypeOK'
    BY <1>2 DEF RegisterRuntime, TypeOK
  <1>3. ASSUME NEW a \in Agent, UnregisterRuntime(a)
        PROVE  TypeOK'
    <2>1. messages' \in Seq(Message) /\ Len(messages') <= MaxMessages /\ forgotten' \subseteq Nat
      BY <1>3, PurgeKeepsType DEF UnregisterRuntime
    <2>. QED
      BY <1>3, <2>1 DEF UnregisterRuntime, TypeOK
  <1>4. ASSUME NEW c \in Caller, NEW type \in {"instruction", "reply"},
               NEW from \in Agent \cup {Human}, NEW todo \in Seq(Agent), NEW task \in Nat,
               Begin(c, type, from, todo, task)
        PROVE  TypeOK'
    <2>1. calls' \in [Caller -> Call]
      BY <1>4, BeginMoves DEF OthersStay
    <2>2. started' \in 0..MaxCalls
      BY <1>4, BoundsAssumption DEF Begin, TypeOK
    <2>. QED
      BY <1>4, <2>1, <2>2 DEF Begin, bus, TypeOK
  <1>5. ASSUME NEW c \in Caller, Check(c)
        PROVE  TypeOK'
    <2>1. calls' \in [Caller -> Call] /\ taskIds' \in Nat
      BY <1>5, CheckMoves DEF OthersStay
    <2>. QED
      BY <1>5, <2>1 DEF Check, bus, TypeOK
  <1>6. ASSUME NEW c \in Caller, NextChannelSeq(c)
        PROVE  TypeOK'
    <2>1. calls' \in [Caller -> Call] /\ channelSeq' \in [Agent -> Nat]
      BY <1>6, DrawMoves DEF OthersStay
    <2>. QED
      BY <1>6, <2>1 DEF NextChannelSeq, TypeOK
  <1>7. ASSUME NEW c \in Caller, WriteTerminal(c)
        PROVE  TypeOK'
    <2>1. calls' \in [Caller -> Call]
      BY <1>7, WriteMoves DEF OthersStay
    <2>2. calls[c].task \in Nat
      BY CallFields
    <2>3. terminal' \in [Agent -> SUBSET Nat]
      BY <1>7, <2>2 DEF WriteTerminal, TypeOK
    <2>. QED
      BY <1>7, <2>1, <2>3 DEF WriteTerminal, bus, TypeOK
  <1>8. ASSUME NEW c \in Caller, WriteFails(c)
        PROVE  TypeOK'
    <2>1. calls' \in [Caller -> Call]
      BY <1>8, FailMoves DEF OthersStay
    <2>. QED
      BY <1>8, <2>1 DEF WriteFails, bus, TypeOK
  <1>9. ASSUME NEW c \in Caller, Store(c)
        PROVE  TypeOK'
    <2>1. calls' \in [Caller -> Call]
      BY <1>9, StoreMoves DEF OthersStay
    <2>2. messages' \in Seq(Message) /\ Len(messages') <= MaxMessages /\ forgotten' \subseteq Nat
      BY <1>9, StoreKeepsType
    <2>. QED
      BY <1>9, <2>1, <2>2 DEF Store, TypeOK
  <1>10. ASSUME NEW c \in Caller, NEW from \in Agent \cup {Human}, NEW targets \in Targets,
                DispatchBatch(c, from, targets)
         PROVE  TypeOK'
    BY <1>4, <1>10, TargetsAreSequences DEF DispatchBatch
  <1>11. ASSUME NEW c \in Caller, NEW a \in Agent, NEW to \in Agent, NEW task \in terminal[a],
                Publish(c, a, to, task)
         PROVE  TypeOK'
    <2>1. <<to>> \in Seq(Agent) /\ task \in Nat
      BY DEF TypeOK
    <2>. QED
      BY <1>4, <1>11, <2>1 DEF Publish
  <1>. QED
    BY <1>1, <1>2, <1>3, <1>5, <1>6, <1>7, <1>8, <1>9, <1>10, <1>11 DEF Next, CallStep

-----------------------------------------------------------------------------
(* No number is borne twice.                                               *)

LEMMA NumberingInit == Init => Numbering
  <1>. SUFFICES ASSUME Init
                PROVE  Numbering
    OBVIOUS
  <1>1. Numbers(<<>>) = {} /\ Distinct(<<>>)
    BY DEF Numbers, Distinct
  <1>2. messages = <<>> /\ \A c \in Caller : calls[c].kept = <<>> /\ calls[c].pc = "idle"
    BY IdleFields DEF Init
  <1>3. \A c \in Caller : Writing(c) = {} /\ Held(c) = {}
    BY <1>1, <1>2 DEF Writing, Held, At
  <1>4. HasTarget /\ HeldOnce
    BY <1>1, <1>2, <1>3 DEF HasTarget, HeldOnce, At
  <1>5. HeldApart /\ HeldIsDrawn /\ Distinct(messages)
    BY <1>1, <1>2, <1>3 DEF HeldApart, HeldIsDrawn
  <1>. QED
    BY <1>4, <1>5 DEF Numbering

\* A step of a call that brings no number but new ones, and leaves it and the log
\* with each number once, keeps the numbering.
LEMMA NumberingKept ==
  ASSUME TypeOK, Numbering, NEW c \in Caller, OthersStay(c),
         NEW new, new \cap Drawn = {}, Drawn \cup new \in SUBSET Drawn',
         NEW held, held = Held(c)',
         held \in SUBSET (Held(c) \cup Numbers(messages) \cup new),
         Numbers(messages') \in SUBSET (Held(c) \cup Numbers(messages) \cup new),
         held \cap Numbers(messages') = {},
         Distinct(messages'), Distinct(calls'[c].kept),
         Writing(c)' \cap Numbers(calls'[c].kept) = {},
         calls'[c].pc \in {"seq", "write"} => calls'[c].todo # <<>>,
         calls'[c].pc = "write" => calls'[c].type = "instruction"
  PROVE  Numbering'
  <1>1. \A d \in Caller \ {c} : calls'[d] = calls[d]
    BY DEF OthersStay
  <1>2. HasTarget'
    BY <1>1 DEF Numbering, HasTarget, At
  <1>3. \A d \in Caller \ {c} : Writing(d)' = Writing(d) /\ Held(d)' = Held(d)
    BY <1>1 DEF Writing, Held, At, Target
  <1>4. HeldOnce'
    BY <1>1, <1>3 DEF Numbering, HeldOnce
  <1>5. /\ \A d \in Caller : Held(d) \cap Numbers(messages) = {} /\ Held(d) \in SUBSET Drawn
        /\ \A d \in Caller \ {c} : Held(d) \cap Held(c) = {}
        /\ \A d \in Caller : \A e \in Caller \ {d} : Held(d) \cap Held(e) = {}
        /\ Numbers(messages) \in SUBSET Drawn
    BY DEF Numbering, HeldApart, HeldIsDrawn
  <1>6. \A d \in Caller \ {c} : Held(d) \cap (Held(c) \cup Numbers(messages) \cup new) = {}
    BY <1>5
  <1>7. \A d \in Caller \ {c} : Held(d)' \cap held = {} /\ Held(d)' \cap Numbers(messages') = {}
    BY <1>3, <1>6
  <1>8. \A d \in Caller : Held(d)' \cap Numbers(messages') = {}
    BY <1>7
  <1>9. \A d \in Caller : \A e \in Caller \ {d} : Held(d)' \cap Held(e)' = {}
    BY <1>3, <1>5, <1>7
  <1>10. \A d \in Caller : Held(d)' \in SUBSET Drawn'
    BY <1>3, <1>5
  <1>11. Numbers(messages') \in SUBSET Drawn'
    BY <1>5
  <1>12. HeldApart' /\ HeldIsDrawn'
    BY <1>8, <1>9, <1>10, <1>11 DEF HeldApart, HeldIsDrawn
  <1>. QED
    BY <1>2, <1>4, <1>12 DEF Numbering

\* A step that brings no number and leaves the log alone.
LEMMA NumberingDropped ==
  ASSUME TypeOK, Numbering, NEW c \in Caller, OthersStay(c), UNCHANGED <<messages, channelSeq>>,
         calls'[c].kept = calls[c].kept \/ calls'[c].kept = <<>>,
         calls'[c].pc # "write", calls'[c].pc = "seq" => calls'[c].todo # <<>>
  PROVE  Numbering'
  <1> DEFINE held == Held(c)'
  <1>1. Writing(c)' = {} /\ held = Numbers(calls'[c].kept)
    BY DEF Writing, Held, At
  <1>2. Numbers(<<>>) = {} /\ Distinct(<<>>)
    BY DEF Numbers, Distinct
  <1>3. held \in SUBSET Held(c) /\ Distinct(calls'[c].kept)
    BY <1>1, <1>2 DEF Held, Numbering, HeldOnce
  <1>4. held \cap Numbers(messages') = {} /\ Distinct(messages')
    BY <1>3 DEF Numbering, HeldApart
  <1>5. Drawn' = Drawn
    BY DEF Drawn
  <1> HIDE DEF held
  <1>6. held = Held(c)'
    BY DEF held
  <1>. QED
    BY <1>1, <1>3, <1>4, <1>5, <1>6, NumberingKept

\* The number that a call draws is new.
LEMMA NumberingDraw ==
  ASSUME TypeOK, Numbering, NEW c \in Caller, NextChannelSeq(c)
  PROVE  Numbering'
  <1> DEFINE n == channelSeq[Target(c)] + 1
             k == <<Target(c), n>>
             held == Held(c)'
  <1>1. OthersStay(c) /\ Target(c) \in Agent /\ channelSeq' = [channelSeq EXCEPT ![Target(c)] = n]
    BY DrawMoves DEF Numbering
  <1>2. messages' = messages /\ n \in Nat /\ n > channelSeq[Target(c)]
    BY <1>1 DEF NextChannelSeq, TypeOK
  <1>3. k \notin Drawn
    BY <1>1, <1>2 DEF Drawn, TypeOK
  <1>4. k \in Drawn'
    BY <1>1, <1>2 DEF Drawn, TypeOK
  <1>5. \A j \in Drawn : j \in Drawn'
    BY <1>1 DEF Drawn, TypeOK
  <1>6. Held(c) \in SUBSET Drawn /\ Numbers(messages) \in SUBSET Drawn
    BY DEF Numbering, HeldIsDrawn
  <1>7. k \notin Held(c) /\ k \notin Numbers(messages) /\ Held(c) \cap Numbers(messages) = {}
    BY <1>3, <1>6 DEF Numbering, HeldApart
  <1>8. Distinct(calls[c].kept) /\ Distinct(messages') /\ Numbers(calls[c].kept) \in SUBSET Held(c)
    BY <1>2 DEF Numbering, HeldOnce, Held
  <1>9. /\ Distinct(calls'[c].kept) /\ held \in SUBSET (Held(c) \cup {k})
        /\ Writing(c)' \cap Numbers(calls'[c].kept) = {}
        /\ calls'[c].pc \in {"seq", "write"} => calls'[c].todo # <<>>
        /\ calls'[c].pc = "write" => calls'[c].type = "instruction"
    <2>1. CASE /\ calls'[c].pc = "write" /\ calls'[c].type = "instruction"
               /\ calls'[c].todo = calls[c].todo /\ calls[c].todo # <<>>
               /\ calls'[c].seq = n /\ calls'[c].kept = calls[c].kept
      <3>1. Writing(c)' = {k}
        BY <2>1 DEF Writing, At, Target
      <3>2. held = Numbers(calls[c].kept) \cup {k}
        BY <2>1, <3>1 DEF Held
      <3>. QED
        BY <1>7, <1>8, <2>1, <3>1, <3>2
    <2>2. CASE calls'[c].pc = "check" /\ calls'[c].kept = Append(calls[c].kept, MessageOf(c, n))
      <3>1. calls[c].todo # <<>> /\ calls[c].kept \in Seq(Message)
        BY CallFields DEF Numbering, HasTarget, NextChannelSeq, At
      <3>2. PICK m \in Message : m = MessageOf(c, n) /\ <<m.to, m.seq>> = k
        BY <1>2, <3>1, MessageFields
      <3>3. /\ Numbers(calls'[c].kept) = Numbers(calls[c].kept) \cup {k}
            /\ Distinct(calls'[c].kept)
        BY <1>7, <1>8, <2>2, <3>1, <3>2, NumbersOfAppend
      <3>4. Writing(c)' = {}
        BY <2>2 DEF Writing, At
      <3>. QED
        BY <1>8, <2>2, <3>3, <3>4 DEF Held
    <2>. QED
      BY <2>1, <2>2, DrawMoves DEF Numbering
  <1> HIDE DEF k, held
  <1>10. held \cap Numbers(messages') = {}
    BY <1>2, <1>7, <1>9
  <1>11. {k} \cap Drawn = {} /\ Drawn \cup {k} \in SUBSET Drawn'
    BY <1>3, <1>4, <1>5
  <1>12. /\ held \in SUBSET (Held(c) \cup Numbers(messages) \cup {k})
         /\ Numbers(messages') \in SUBSET (Held(c) \cup Numbers(messages) \cup {k})
    BY <1>2, <1>9
  <1>13. held = Held(c)'
    BY DEF held
  <1>. QED
    BY <1>1, <1>8, <1>9, <1>10, <1>11, <1>12, <1>13, NumberingKept

\* What was drawn to be written is now borne.
LEMMA NumberingWrite ==
  ASSUME TypeOK, Numbering, NEW c \in Caller, WriteTerminal(c)
  PROVE  Numbering'
  <1> DEFINE k == <<Target(c), calls[c].seq>>
             held == Held(c)'
  <1>1. /\ OthersStay(c) /\ At(c, "write") /\ calls'[c].pc = "check"
        /\ calls'[c].kept = Append(calls[c].kept, MessageOf(c, calls[c].seq))
    BY WriteMoves DEF Numbering
  <1>2. UNCHANGED <<messages, channelSeq>>
    BY DEF WriteTerminal, bus
  <1>3. Writing(c) = {k} /\ Writing(c)' = {}
    BY <1>1 DEF Writing, At
  <1>4. calls[c].todo # <<>> /\ calls[c].kept \in Seq(Message) /\ calls[c].seq \in Nat
    BY <1>1, CallFields DEF Numbering, HasTarget, At
  <1>5. PICK m \in Message : m = MessageOf(c, calls[c].seq) /\ <<m.to, m.seq>> = k
    BY <1>4, MessageFields
  <1>6. Distinct(calls[c].kept) /\ k \notin Numbers(calls[c].kept)
    BY <1>3 DEF Numbering, HeldOnce
  <1>7. Numbers(calls'[c].kept) = Numbers(calls[c].kept) \cup {k} /\ Distinct(calls'[c].kept)
    BY <1>1, <1>4, <1>5, <1>6, NumbersOfAppend
  <1>8. held = Held(c)
    BY <1>3, <1>7 DEF Held
  <1>9. held \cap Numbers(messages') = {} /\ Distinct(messages') /\ Drawn' = Drawn
    BY <1>2, <1>8 DEF Numbering, HeldApart, Drawn
  <1> HIDE DEF held
  <1>10. held = Held(c)'
    BY DEF held
  <1>. QED
    BY <1>1, <1>2, <1>3, <1>7, <1>8, <1>9, <1>10, NumberingKept

LEMMA NumbersOfLast ==
  ASSUME NEW s \in Seq(Message), NEW n \in Nat
  PROVE  Numbers(LastOf(s, n)) \in SUBSET Numbers(s) /\ (Distinct(s) => Distinct(LastOf(s, n)))
  <1>0. Len(s) \in Nat
    BY LenProperties
  <1>1. CASE Len(s) <= n
    <2>1. LastOf(s, n) = s
      BY <1>1, LastOfProperties
    <2>. QED
      BY <2>1
  <1>2. CASE Len(s) > n
    <2> DEFINE drop == Len(s) - n
               place == [k \in 1..n |-> k + drop]
    <2>1. PICK t \in Seq(Message) : /\ t = LastOf(s, n) /\ Len(t) = n
                                    /\ \A k \in 1..n : t[k] = s[k + drop]
      BY <1>2, LastOfProperties
    <2>2. place \in [1..Len(t) -> 1..Len(s)] /\ \A k \in 1..Len(t) : t[k] = s[place[k]]
      BY <1>0, <1>2, <2>1
    <2>3. \A k, l \in 1..Len(t) : k < l => place[k] < place[l]
      BY <1>0, <1>2, <2>1
    <2> HIDE DEF place
    <2>4. Numbers(t) \in SUBSET Numbers(s) /\ (Distinct(s) => Distinct(t))
      BY <2>2, <2>3, NumbersOfPick
    <2>. QED
      BY <2>1, <2>4
  <1>. QED
    BY <1>0, <1>1, <1>2

LEMMA NumbersOfWithout ==
  ASSUME NEW s \in Seq(Message), NEW a
  PROVE  Numbers(Without(s, a)) \in SUBSET Numbers(s) /\ (Distinct(s) => Distinct(Without(s, a)))
  <1>1. PICK t \in Seq(Message) : t = Without(s, a)
    BY WithoutProperties
  <1>2. PICK place \in [1..Len(t) -> 1..Len(s)] :
          /\ \A k \in 1..Len(t) : t[k] = s[place[k]]
          /\ \A k, l \in 1..Len(t) : k < l => place[k] < place[l]
    BY <1>1, WithoutProperties
  <1>. QED
    BY <1>1, <1>2, NumbersOfPick

\* The log and the messages of a call, together, bear each number once.
LEMMA AllIsDistinct ==
  ASSUME TypeOK, Numbering, NEW c \in Caller
  PROVE  /\ All(c) \in Seq(Message) /\ Distinct(All(c))
         /\ Numbers(All(c)) = Numbers(messages) \cup Numbers(calls[c].kept)
  <1>1. messages \in Seq(Message) /\ calls[c].kept \in Seq(Message)
    BY CallFields DEF TypeOK
  <1>2. /\ Distinct(messages) /\ Distinct(calls[c].kept)
        /\ Numbers(messages) \cap Numbers(calls[c].kept) = {}
    BY DEF Numbering, HeldOnce, HeldApart, Held
  <1>. QED
    BY <1>1, <1>2, NumbersOfConcat, ConcatProperties DEF All

LEMMA NumberingStore ==
  ASSUME TypeOK, Numbering, NEW c \in Caller, Store(c)
  PROVE  Numbering'
  <1> DEFINE held == Held(c)'
  <1>1. /\ OthersStay(c) /\ calls'[c].pc = "idle" /\ calls'[c].kept = <<>>
        /\ messages' = LastOf(All(c), MaxMessages)
    BY StoreMoves
  <1>2. Numbers(<<>>) = {} /\ Distinct(<<>>)
    BY DEF Numbers, Distinct
  <1>3. Writing(c)' = {} /\ held = {}
    BY <1>1, <1>2 DEF Writing, Held, At
  <1>4. Distinct(messages') /\ Numbers(messages') \in SUBSET Numbers(All(c))
    BY <1>1, AllIsDistinct, NumbersOfLast, BoundsAssumption
  <1>5. Numbers(messages') \in SUBSET (Held(c) \cup Numbers(messages))
    BY <1>4, AllIsDistinct DEF Held
  <1>6. Drawn' = Drawn
    BY DEF Store, Drawn
  <1> HIDE DEF held
  <1>7. held = Held(c)'
    BY DEF held
  <1>. QED
    BY <1>1, <1>2, <1>3, <1>4, <1>5, <1>6, <1>7, NumberingKept

LEMMA NumberingPurge ==
  ASSUME TypeOK, Numbering, NEW a \in Agent, Purge(a), UNCHANGED <<channelSeq, calls>>
  PROVE  Numbering'
  <1>1. Distinct(messages') /\ Numbers(messages') \in SUBSET Numbers(messages)
    BY NumbersOfWithout DEF Purge, TypeOK, Numbering
  <1>2. \A c \in Caller : Held(c)' = Held(c) /\ Writing(c)' = Writing(c)
    BY DEF Held, Writing, At, Target
  <1>3. HasTarget' /\ HeldOnce'
    BY <1>2 DEF Numbering, HasTarget, HeldOnce, At
  <1>4. HeldApart'
    BY <1>1, <1>2 DEF Numbering, HeldApart
  <1>5. Drawn' = Drawn
    BY DEF Drawn
  <1>6. HeldIsDrawn'
    BY <1>1, <1>2, <1>5 DEF Numbering, HeldIsDrawn
  <1>. QED
    BY <1>1, <1>3, <1>4, <1>6 DEF Numbering

LEMMA NumberingStays ==
  ASSUME Numbering, UNCHANGED <<messages, channelSeq, calls>>
  PROVE  Numbering'
  BY DEF Numbering, HasTarget, HeldOnce, HeldApart, HeldIsDrawn, Held, Writing, Drawn, At, Target

LEMMA NumberingStep == TypeOK /\ Numbering /\ [Next]_vars => Numbering'
  <1>. SUFFICES ASSUME TypeOK, Numbering, [Next]_vars
                PROVE  Numbering'
    OBVIOUS
  <1>1. CASE UNCHANGED vars
    BY <1>1, NumberingStays DEF vars, bus
  <1>2. ASSUME NEW a \in Agent, RegisterRuntime(a)
        PROVE  Numbering'
    BY <1>2, NumberingStays DEF RegisterRuntime
  <1>3. ASSUME NEW a \in Agent, UnregisterRuntime(a)
        PROVE  Numbering'
    BY <1>3, NumberingPurge DEF UnregisterRuntime
  <1>4. ASSUME NEW c \in Caller, NEW type \in {"instruction", "reply"},
               NEW from \in Agent \cup {Human}, NEW todo \in Seq(Agent), NEW task \in Nat,
               Begin(c, type, from, todo, task)
        PROVE  Numbering'
    BY <1>4, BeginMoves, NumberingDropped DEF Begin, bus
  <1>5. ASSUME NEW c \in Caller, Check(c)
        PROVE  Numbering'
    BY <1>5, CheckMoves, NumberingDropped DEF Check, bus
  <1>6. ASSUME NEW c \in Caller, NextChannelSeq(c)
        PROVE  Numbering'
    BY <1>6, NumberingDraw
  <1>7. ASSUME NEW c \in Caller, WriteTerminal(c)
        PROVE  Numbering'
    BY <1>7, NumberingWrite
  <1>8. ASSUME NEW c \in Caller, WriteFails(c)
        PROVE  Numbering'
    BY <1>8, FailMoves, NumberingDropped DEF WriteFails, bus, Numbering
  <1>9. ASSUME NEW c \in Caller, Store(c)
        PROVE  Numbering'
    BY <1>9, NumberingStore
  <1>10. ASSUME NEW c \in Caller, NEW from \in Agent \cup {Human}, NEW targets \in Targets,
                DispatchBatch(c, from, targets)
         PROVE  Numbering'
    BY <1>4, <1>10, TargetsAreSequences DEF DispatchBatch
  <1>11. ASSUME NEW c \in Caller, NEW a \in Agent, NEW to \in Agent, NEW task \in terminal[a],
                Publish(c, a, to, task)
         PROVE  Numbering'
    <2>1. <<to>> \in Seq(Agent) /\ task \in Nat
      BY DEF TypeOK
    <2>. QED
      BY <1>4, <1>11, <2>1 DEF Publish
  <1>. QED
    BY <1>1, <1>2, <1>3, <1>5, <1>6, <1>7, <1>8, <1>9, <1>10, <1>11 DEF Next, CallStep

-----------------------------------------------------------------------------
(* What was written is recorded.                                           *)

LEMMA InstructionsOf ==
  ASSUME NEW s \in Seq(Message)
  PROVE  \A task : task \in Instructions(s) <=>
           \E i \in 1..Len(s) : s[i].type = "instruction" /\ s[i].task = task
  BY InstructionsAreNumbered DEF Instructions

LEMMA InstructionsOfConcat ==
  ASSUME NEW s \in Seq(Message), NEW u \in Seq(Message)
  PROVE  Instructions(s \o u) = Instructions(s) \cup Instructions(u)
  BY NumbersOfConcat DEF Instructions

LEMMA InstructionsGrow ==
  ASSUME NEW s \in Seq(Message), NEW m \in Message
  PROVE  /\ Instructions(s) \in SUBSET Instructions(Append(s, m))
         /\ m.type = "instruction" => m.task \in Instructions(Append(s, m))
  <1>2. Append(s, m) \in Seq(Message) /\ Len(s) \in Nat /\ Len(Append(s, m)) = Len(s) + 1
    BY AppendProperties, LenProperties
  <1>3. /\ \A i \in 1..Len(s) : i \in 1..Len(Append(s, m)) /\ Append(s, m)[i] = s[i]
        /\ Len(s) + 1 \in 1..Len(Append(s, m)) /\ Append(s, m)[Len(s) + 1] = m
    BY <1>2, AppendProperties
  <1>4. ASSUME NEW task \in Instructions(s)
        PROVE  task \in Instructions(Append(s, m))
    <2>1. PICK i \in 1..Len(s) : s[i].type = "instruction" /\ s[i].task = task
      BY InstructionsOf
    <2>2. PICK t \in Seq(Message) : t = Append(s, m)
      BY <1>2
    <2>3. i \in 1..Len(t) /\ t[i].type = "instruction" /\ t[i].task = task
      BY <1>3, <2>1, <2>2
    <2>. QED
      BY <2>2, <2>3, InstructionsOf
  <1>5. m.type = "instruction" => m.task \in Instructions(Append(s, m))
    BY <1>2, <1>3, InstructionsOf
  <1>. QED
    BY <1>4, <1>5

\* A step that loses nothing of the log, nor of what the call holds, and writes nothing.
LEMMA RecordedKept ==
  ASSUME WrittenIsRecorded, UNCHANGED terminal, NEW c \in Caller, OthersStay(c),
         Instructions(messages) \cup forgotten \in SUBSET (Instructions(messages') \cup forgotten'),
         Instructions(calls[c].kept) \in SUBSET
           (Instructions(messages') \cup forgotten' \cup Instructions(calls'[c].kept))
  PROVE  WrittenIsRecorded'
  <1>. SUFFICES ASSUME NEW a \in Agent, NEW task \in terminal[a]
                PROVE  \/ task \in Instructions(messages') \cup forgotten'
                       \/ \E d \in Caller : task \in Instructions(calls'[d].kept)
    BY DEF WrittenIsRecorded
  <1>1. \/ task \in Instructions(messages) \cup forgotten
        \/ \E d \in Caller : task \in Instructions(calls[d].kept)
    BY DEF WrittenIsRecorded
  <1>2. CASE task \in Instructions(messages) \cup forgotten
    BY <1>2
  <1>3. ASSUME NEW d \in Caller, task \in Instructions(calls[d].kept)
        PROVE  \/ task \in Instructions(messages') \cup forgotten'
               \/ \E e \in Caller : task \in Instructions(calls'[e].kept)
    BY <1>3 DEF OthersStay
  <1>. QED
    BY <1>1, <1>2, <1>3

LEMMA RecordedStep == TypeOK /\ Numbering /\ WrittenIsRecorded /\ [Next]_vars => WrittenIsRecorded'
  <1>. SUFFICES ASSUME TypeOK, Numbering, WrittenIsRecorded, [Next]_vars
                PROVE  WrittenIsRecorded'
    OBVIOUS
  <1>0. HasTarget
    BY DEF Numbering
  <1>1. CASE UNCHANGED <<messages, calls, terminal, forgotten>>
    BY <1>1 DEF WrittenIsRecorded
  <1>2. ASSUME NEW a \in Agent, UnregisterRuntime(a)
        PROVE  WrittenIsRecorded'
    <2>1. /\ Instructions(messages) \in SUBSET (Instructions(messages') \cup forgotten')
          /\ forgotten \in SUBSET forgotten'
      BY <1>2 DEF UnregisterRuntime, Purge
    <2>2. UNCHANGED <<calls, terminal>>
      BY <1>2 DEF UnregisterRuntime
    <2>. QED
      BY <2>1, <2>2 DEF WrittenIsRecorded
  <1>3. ASSUME NEW c \in Caller, NEW type \in {"instruction", "reply"},
               NEW from \in Agent \cup {Human}, NEW todo \in Seq(Agent), NEW task \in Nat,
               Begin(c, type, from, todo, task)
        PROVE  WrittenIsRecorded'
    <2>1. OthersStay(c) /\ calls'[c].kept = <<>> /\ calls[c].kept = <<>>
      BY <1>3, BeginMoves, IdleFields
    <2>. QED
      BY <1>3, <2>1, RecordedKept DEF Begin, bus
  <1>4. ASSUME NEW c \in Caller, Check(c)
        PROVE  WrittenIsRecorded'
    BY <1>4, CheckMoves, RecordedKept DEF Check, bus
  <1>5. ASSUME NEW c \in Caller, NextChannelSeq(c)
        PROVE  WrittenIsRecorded'
    <2>1. OthersStay(c) /\ UNCHANGED <<messages, terminal, forgotten>>
      BY <1>0, <1>5, DrawMoves DEF NextChannelSeq
    <2>2. Instructions(calls[c].kept) \in SUBSET Instructions(calls'[c].kept)
      <3>1. CASE calls'[c].kept = calls[c].kept
        BY <3>1
      <3>2. CASE calls'[c].kept = Append(calls[c].kept, MessageOf(c, channelSeq[Target(c)] + 1))
        <4>1. calls[c].todo # <<>> /\ Target(c) \in Agent /\ calls[c].kept \in Seq(Message)
          BY <1>0, <1>5, CallFields DEF HasTarget, NextChannelSeq, At
        <4>2. MessageOf(c, channelSeq[Target(c)] + 1) \in Message
          BY <4>1, MessageFields DEF TypeOK
        <4>. QED
          BY <3>2, <4>1, <4>2, InstructionsGrow
      <3>. QED
        BY <1>0, <1>5, <3>1, <3>2, DrawMoves
    <2>. QED
      BY <2>1, <2>2, RecordedKept
  <1>6. ASSUME NEW c \in Caller, WriteTerminal(c)
        PROVE  WrittenIsRecorded'
    <2>1. /\ OthersStay(c) /\ calls[c].type = "instruction"
          /\ MessageOf(c, calls[c].seq) \in Message
          /\ calls'[c].kept = Append(calls[c].kept, MessageOf(c, calls[c].seq))
      BY <1>0, <1>6, WriteMoves
    <2>2. calls[c].todo # <<>> /\ calls[c].kept \in Seq(Message) /\ calls[c].seq \in Nat
      BY <1>0, <1>6, CallFields DEF HasTarget, WriteTerminal, At
    <2>3. PICK m \in Message : /\ m = MessageOf(c, calls[c].seq)
                               /\ m.type = "instruction" /\ m.task = calls[c].task
      BY <2>1, <2>2, MessageFields
    <2>4. /\ Instructions(calls[c].kept) \in SUBSET Instructions(calls'[c].kept)
          /\ calls[c].task \in Instructions(calls'[c].kept)
      BY <2>1, <2>2, <2>3, InstructionsGrow
    <2>5. /\ UNCHANGED <<messages, forgotten>>
          /\ \A a \in Agent : terminal'[a] \in SUBSET (terminal[a] \cup {calls[c].task})
      BY <1>6 DEF WriteTerminal, bus, TypeOK
    <2>. SUFFICES ASSUME NEW a \in Agent, NEW task \in terminal'[a]
                  PROVE  \/ task \in Instructions(messages') \cup forgotten'
                         \/ \E d \in Caller : task \in Instructions(calls'[d].kept)
      BY DEF WrittenIsRecorded
    <2>6. CASE task = calls[c].task
      BY <2>4, <2>6
    <2>7. CASE task \in terminal[a]
      <3>1. \/ task \in Instructions(messages) \cup forgotten
            \/ \E d \in Caller : task \in Instructions(calls[d].kept)
        BY <2>7 DEF WrittenIsRecorded
      <3>2. \A d \in Caller : Instructions(calls[d].kept) \in SUBSET Instructions(calls'[d].kept)
        BY <2>1, <2>4 DEF OthersStay
      <3>. QED
        BY <2>5, <3>1, <3>2
    <2>. QED
      BY <2>5, <2>6, <2>7
  <1>7. ASSUME NEW c \in Caller, WriteFails(c)
        PROVE  WrittenIsRecorded'
    BY <1>0, <1>7, FailMoves, RecordedKept DEF WriteFails, bus
  <1>8. ASSUME NEW c \in Caller, Store(c)
        PROVE  WrittenIsRecorded'
    <2>1. /\ OthersStay(c) /\ UNCHANGED terminal
          /\ forgotten' = forgotten \cup (Instructions(All(c)) \ Instructions(messages'))
      BY <1>8, StoreMoves DEF Store
    <2>2. Instructions(All(c)) = Instructions(messages) \cup Instructions(calls[c].kept)
      BY CallFields, InstructionsOfConcat DEF All, TypeOK
    <2>. QED
      BY <2>1, <2>2, RecordedKept
  <1>9. ASSUME NEW c \in Caller, NEW from \in Agent \cup {Human}, NEW targets \in Targets,
               DispatchBatch(c, from, targets)
        PROVE  WrittenIsRecorded'
    BY <1>3, <1>9, TargetsAreSequences DEF DispatchBatch
  <1>10. ASSUME NEW c \in Caller, NEW a \in Agent, NEW to \in Agent, NEW task \in terminal[a],
                Publish(c, a, to, task)
         PROVE  WrittenIsRecorded'
    <2>1. <<to>> \in Seq(Agent) /\ task \in Nat
      BY DEF TypeOK
    <2>. QED
      BY <1>3, <1>10, <2>1 DEF Publish
  <1>11. ASSUME NEW a \in Agent, RegisterRuntime(a)
         PROVE  WrittenIsRecorded'
    BY <1>1, <1>11 DEF RegisterRuntime
  <1>12. CASE UNCHANGED vars
    BY <1>1, <1>12 DEF vars, bus
  <1>. QED
    BY <1>2, <1>4, <1>5, <1>6, <1>7, <1>8, <1>9, <1>10, <1>11, <1>12 DEF Next, CallStep

-----------------------------------------------------------------------------
(* The theorems.                                                           *)

LEMMA RecordedInit == Init => WrittenIsRecorded
  BY DEF Init, WrittenIsRecorded

\* The model's variables stay in their types.
THEOREM TypeCorrect == Spec => []TypeOK
  <1>1. Init => TypeOK /\ Numbering
    BY TypeInit, NumberingInit
  <1>2. TypeOK /\ Numbering /\ [Next]_vars => (TypeOK /\ Numbering)'
    BY TypeStep, NumberingStep DEF Numbering
  <1>. QED
    BY <1>1, <1>2, PTL DEF Spec

\* Over every length of the log and every number of agents and calls: each number is
\* held in one place, and each task that was written is found in one.
THEOREM BInvCorrect == Spec => []BInv
  <1>1. Init => BInv
    BY TypeInit, NumberingInit, RecordedInit DEF BInv
  <1>2. BInv /\ [Next]_vars => BInv'
    BY TypeStep, NumberingStep, RecordedStep DEF BInv, Numbering
  <1>. QED
    BY <1>1, <1>2, PTL DEF Spec

LEMMA DistinctIsInjective ==
  ASSUME NEW s \in Seq(Message), Distinct(s)
  PROVE  IsInjective([i \in DOMAIN s |-> <<s[i].to, s[i].seq>>])
  <1>1. DOMAIN s = 1..Len(s)
    BY LenProperties
  <1>. QED
    BY <1>1 DEF IsInjective, Distinct

LEMMA UniqueByBInv == BInv => SequenceIsUnique
  <1>. SUFFICES ASSUME BInv
                PROVE  SequenceIsUnique
    OBVIOUS
  <1> DEFINE numbered(s) == [i \in DOMAIN s |-> <<s[i].to, s[i].seq>>]
  <1>0. TypeOK /\ Numbering /\ messages \in Seq(Message)
    BY DEF BInv, TypeOK
  <1>1. IsInjective(numbered(messages))
    BY <1>0, DistinctIsInjective DEF Numbering
  <1>2. ASSUME NEW c \in Caller
        PROVE  IsInjective(numbered(messages \o calls[c].kept))
    BY <1>0, AllIsDistinct, DistinctIsInjective DEF All
  <1>3. ASSUME NEW c \in Caller, NEW d \in Caller \ {c}
        PROVE  IsInjective(numbered(calls[c].kept \o calls[d].kept))
    <2>1. calls[c].kept \in Seq(Message) /\ calls[d].kept \in Seq(Message)
      BY <1>0, CallFields
    <2>2. /\ Distinct(calls[c].kept) /\ Distinct(calls[d].kept)
          /\ Numbers(calls[c].kept) \cap Numbers(calls[d].kept) = {}
      BY <1>0 DEF Numbering, HeldOnce, HeldApart, Held
    <2>. QED
      BY <2>1, <2>2, NumbersOfConcat, ConcatProperties, DistinctIsInjective
  <1>4. ASSUME NEW c \in Caller, NEW m \in ToSet(messages \o calls[c].kept)
        PROVE  m.seq \in 1..channelSeq[m.to]
    <2>1. PICK s \in Seq(Message) :
            s = All(c) /\ Numbers(s) = Numbers(messages) \cup Numbers(calls[c].kept)
      BY <1>0, AllIsDistinct
    <2>2. PICK i \in 1..Len(s) : m = s[i]
      BY <2>1, InstructionsAreNumbered DEF All
    <2>3. <<m.to, m.seq>> \in Numbers(s)
      BY <2>2 DEF Numbers
    <2>4. <<m.to, m.seq>> \in Drawn
      BY <1>0, <2>1, <2>3 DEF Numbering, HeldIsDrawn, Held
    <2>. QED
      BY <2>4 DEF Drawn
  <1>. QED
    BY <1>1, <1>2, <1>3, <1>4 DEF SequenceIsUnique

\* No two messages of a channel ever bear the same number, stored or on their way, though
\* a number is drawn in a critical section of its own (next_channel_seq), the terminal is
\* written after it and the message is stored last (store_channel_messages).
THEOREM SequenceIsUniqueCorrect == Spec => []SequenceIsUnique
  BY BInvCorrect, UniqueByBInv, PTL

\* A task that reached a terminal is in the log, or was there, or will be: dispatch_batch
\* keeps the message of every target it wrote to, whatever becomes of the others.
THEOREM WrittenIsRecordedCorrect == Spec => []WrittenIsRecorded
  <1>1. BInv => WrittenIsRecorded
    BY DEF BInv
  <1>. QED
    BY <1>1, BInvCorrect, PTL

-----------------------------------------------------------------------------
(* What leaves the log.                                                    *)

LEMMA PrefixByElements ==
  ASSUME NEW p \in Seq(Message), NEW t \in Seq(Message), Len(p) <= Len(t),
         \A k \in 1..Len(p) : p[k] = t[k]
  PROVE  IsPrefix(p, t)
  <1>1. Len(p) \in Nat /\ Len(t) \in Nat
    BY LenProperties
  <1>2. \A k \in 1..Len(p) : p[k] \in Message /\ t[k] \in Message
    BY <1>1, ElementOfSeq
  <1>3. PICK n \in Nat : n = Len(p)
    BY <1>1
  <1>4. /\ SubSeq(p, 1, n) \in Seq(Message) /\ SubSeq(t, 1, n) \in Seq(Message)
        /\ Len(SubSeq(p, 1, n)) = n /\ Len(SubSeq(t, 1, n)) = n
        /\ \A k \in 1..n : SubSeq(p, 1, n)[k] = p[k] /\ SubSeq(t, 1, n)[k] = t[k]
    BY <1>2, <1>3, SubSeqProperties
  <1>5. SubSeq(p, 1, n) = SubSeq(t, 1, n)
    BY <1>3, <1>4, SeqEqual
  <1>. QED
    BY <1>3, <1>5 DEF IsPrefix

\* A sequence cut in two: the first n of it, and the others.
LEMMA CutProperties ==
  ASSUME NEW s \in Seq(Message), NEW n \in 0..Len(s)
  PROVE  /\ ToSet(SubSeq(s, 1, n)) = {s[i] : i \in 1..n}
         /\ SubSeq(s, n + 1, Len(s)) \in Seq(Message)
         /\ Len(SubSeq(s, n + 1, Len(s))) = Len(s) - n
         /\ \A k \in 1..Len(s) - n : SubSeq(s, n + 1, Len(s))[k] = s[n + k]
  <1>1. Len(s) \in Nat /\ n \in Nat /\ n <= Len(s) /\ \A i \in 1..Len(s) : s[i] \in Message
    BY LenProperties, ElementOfSeq
  <1>2. /\ SubSeq(s, 1, n) \in Seq(Message) /\ Len(SubSeq(s, 1, n)) = n
        /\ \A k \in 1..n : SubSeq(s, 1, n)[k] = s[k]
    <2>1. \A i \in 1..n : s[i] \in Message
      BY <1>1
    <2>2. 1 \in Int /\ n \in Int /\ n - 1 + 1 = n /\ (1 <= n \/ n = 0)
      BY <1>1
    <2>3. /\ SubSeq(s, 1, n) \in Seq(Message)
          /\ Len(SubSeq(s, 1, n)) = IF 1 <= n THEN n - 1 + 1 ELSE 0
          /\ \A k \in 1..n - 1 + 1 : SubSeq(s, 1, n)[k] = s[1 + k - 1]
      BY <2>1, <2>2, SubSeqProperties
    <2>. QED
      BY <2>2, <2>3
  <1>3. ToSet(SubSeq(s, 1, n)) = {s[i] : i \in 1..n}
    <2>1. PICK t \in Seq(Message) : /\ t = SubSeq(s, 1, n) /\ Len(t) = n
                                    /\ \A k \in 1..n : t[k] = s[k]
      BY <1>2
    <2>2. ToSet(t) = {t[i] : i \in 1..n}
      BY <2>1, InstructionsAreNumbered
    <2>3. {t[i] : i \in 1..n} = {s[i] : i \in 1..n}
      BY <2>1
    <2>. QED
      BY <2>1, <2>2, <2>3
  <1>4. /\ SubSeq(s, n + 1, Len(s)) \in Seq(Message)
        /\ Len(SubSeq(s, n + 1, Len(s))) = Len(s) - n
        /\ \A k \in 1..Len(s) - n : SubSeq(s, n + 1, Len(s))[k] = s[n + k]
    <2>1. PICK f \in Int : f = n + 1
      BY <1>1
    <2>2. (f <= Len(s) \/ Len(s) - n = 0) /\ Len(s) \in Int
      BY <1>1, <2>1
    <2>3. \A i \in f..Len(s) : s[i] \in Message
      BY <1>1, <2>1
    <2>4. /\ SubSeq(s, f, Len(s)) \in Seq(Message)
          /\ Len(SubSeq(s, f, Len(s))) = IF f <= Len(s) THEN Len(s) - f + 1 ELSE 0
          /\ \A k \in 1..Len(s) - f + 1 : SubSeq(s, f, Len(s))[k] = s[f + k - 1]
      BY <2>2, <2>3, SubSeqProperties
    <2>5. Len(s) - f + 1 = Len(s) - n /\ \A k \in 1..Len(s) - n : f + k - 1 = n + k
      BY <1>1, <2>1
    <2>. QED
      BY <1>1, <2>1, <2>2, <2>4, <2>5
  <1>. QED
    BY <1>3, <1>4

\* A step that purges an agent takes only messages of it.
LEMMA PurgeLeaves ==
  ASSUME TypeOK, NEW a \in Agent, Purge(a), NEW m \in ToSet(messages) \ ToSet(messages')
  PROVE  Involves(m, a)
  <1>0. messages \in Seq(Message) /\ messages' = Without(messages, a)
    BY DEF TypeOK, Purge
  <1>1. PICK i \in 1..Len(messages) : m = messages[i]
    BY <1>0, InstructionsAreNumbered
  <1>2. PICK t \in Seq(Message) : t = messages'
    BY <1>0, WithoutProperties
  <1>3. ASSUME ~Involves(messages[i], a)
        PROVE  FALSE
    <2>1. PICK k \in 1..Len(t) : t[k] = messages[i]
      BY <1>0, <1>2, <1>3, WithoutProperties
    <2>. QED
      BY <1>1, <1>2, <2>1, InstructionsAreNumbered
  <1>. QED
    BY <1>1, <1>3

\* What leaves s is the oldest of it, and the log t is full without it.
TakesTheOldest(s, t, left, max) ==
  /\ Len(t) = max
  /\ \E n \in 1..Len(s) : /\ left = ToSet(SubSeq(s, 1, n))
                          /\ IsPrefix(SubSeq(s, n + 1, Len(s)), t)

LEMMA RoomLeaves ==
  ASSUME NEW s \in Seq(Message), NEW u \in Seq(Message), NEW all \in Seq(Message),
         all = s \o u, Distinct(all), NEW max \in Nat \ {0}, NEW t, t = LastOf(all, max),
         NEW left, left = ToSet(s) \ ToSet(t), left # {}
  PROVE  TakesTheOldest(s, t, left, max)
  <1> DEFINE drop == Len(all) - max
             n == IF drop <= Len(s) THEN drop ELSE Len(s)
  <1>1. /\ Len(s) \in Nat /\ Len(u) \in Nat /\ Len(all) = Len(s) + Len(u)
        /\ \A i \in 1..Len(s) : all[i] = s[i]
    BY ConcatProperties, LenProperties
  <1>2. t \in Seq(Message)
    BY LastOfProperties
  <1>3. /\ ToSet(s) = {s[i] : i \in 1..Len(s)}
        /\ ToSet(t) = {t[i] : i \in 1..Len(t)}
    BY <1>2, InstructionsAreNumbered
  <1>4. Len(all) > max
    <2>. SUFFICES ASSUME Len(all) <= max
                  PROVE  FALSE
      BY <1>1
    <2>1. t = all
      BY LastOfProperties
    <2>2. \A i \in 1..Len(s) : i \in 1..Len(t) /\ t[i] = s[i]
      BY <1>1, <2>1
    <2>. QED
      BY <1>3, <2>2
  <1>5. Len(t) = max /\ \A k \in 1..max : t[k] = all[k + drop]
    BY <1>4, LastOfProperties
  <1>6. drop \in Nat /\ drop >= 1 /\ Len(all) = max + drop
    BY <1>1, <1>4
  <1>7. PICK j \in 1..Len(s) : TRUE
    BY <1>3
  <1>8. n \in 1..Len(s) /\ n \in 0..Len(s)
    BY <1>1, <1>6, <1>7
  <1>9. \A i \in 1..n : i \in 1..Len(s) /\ i <= drop
    BY <1>1, <1>6, <1>8
  <1>10. \A i \in 1..Len(s) : i \notin 1..n => i - drop \in 1..max /\ i - drop + drop = i /\ n = drop
    BY <1>1, <1>6, <1>8
  <1>11. n = drop \/ Len(s) - n = 0
    BY <1>1, <1>6
  <1> HIDE DEF drop, n
  <1>12. \A i \in 1..n : s[i] \in left
    <2>. TAKE i \in 1..n
    <2>1. s[i] \in ToSet(s) /\ i \in 1..Len(s) /\ i <= drop
      BY <1>3, <1>9
    <2>2. ASSUME NEW k \in 1..max, t[k] = s[i]
          PROVE  FALSE
      <3>1. k + drop \in 1..Len(all) /\ i \in 1..Len(all) /\ k + drop # i
        BY <1>1, <1>6, <2>1
      <3>2. all[k + drop] = all[i]
        BY <1>1, <1>5, <2>1, <2>2
      <3>. QED
        BY <3>1, <3>2 DEF Distinct
    <2>. QED
      BY <1>3, <1>5, <2>1, <2>2
  <1>13. \A m \in left : m \in {s[i] : i \in 1..n}
    <2>. TAKE m \in left
    <2>1. PICK i \in 1..Len(s) : m = s[i]
      BY <1>3
    <2>2. ASSUME i \notin 1..n
          PROVE  FALSE
      <3>1. i - drop \in 1..max /\ t[i - drop] = all[i]
        BY <1>5, <1>10, <2>2
      <3>2. t[i - drop] = m
        BY <1>1, <2>1, <3>1
      <3>. QED
        BY <1>3, <1>5, <3>1, <3>2
    <2>. QED
      BY <2>1, <2>2
  <1>14. left = ToSet(SubSeq(s, 1, n))
    BY <1>8, <1>12, <1>13, CutProperties
  <1>15. IsPrefix(SubSeq(s, n + 1, Len(s)), t)
    <2>1. PICK p \in Seq(Message) : /\ p = SubSeq(s, n + 1, Len(s)) /\ Len(p) = Len(s) - n
                                    /\ \A k \in 1..Len(s) - n : p[k] = s[n + k]
      BY <1>8, CutProperties
    <2>2. Len(p) <= Len(t)
      BY <1>1, <1>5, <1>6, <1>8, <1>11, <2>1
    <2>3. \A k \in 1..Len(p) : p[k] = t[k]
      <3>. TAKE k \in 1..Len(p)
      <3>1. n = drop /\ n + k \in 1..Len(s) /\ k \in 1..max /\ n + k = k + drop
        BY <1>1, <1>5, <1>6, <1>8, <1>11, <2>1, <2>2
      <3>2. p[k] = s[n + k]
        BY <2>1
      <3>. QED
        BY <1>1, <1>5, <3>1, <3>2
    <2>. QED
      BY <1>2, <2>1, <2>2, <2>3, PrefixByElements
  <1>. QED
    BY <1>5, <1>8, <1>14, <1>15 DEF TakesTheOldest

\* What LeavesForAReason says of a step.
LeavesStep ==
  /\ Len(messages') <= MaxMessages
  /\ LET left == ToSet(messages) \ ToSet(messages')
     IN  left # {} =>
           \/ \E a \in Agent \ online' : \A m \in left : Involves(m, a)
           \/ /\ Len(messages') = MaxMessages
              /\ \E n \in 1..Len(messages) :
                   /\ left = ToSet(SubSeq(messages, 1, n))
                   /\ IsPrefix(SubSeq(messages, n + 1, Len(messages)), messages')

LEMMA LeavesByBInv == BInv /\ [Next]_vars => LeavesStep
  <1>. SUFFICES ASSUME BInv, [Next]_vars
                PROVE  LeavesStep
    OBVIOUS
  <1>0. TypeOK /\ Numbering
    BY DEF BInv
  <1>1. Len(messages') <= MaxMessages
    BY <1>0, TypeStep DEF Numbering, TypeOK
  <1>2. CASE messages' = messages
    BY <1>1, <1>2 DEF LeavesStep
  <1>3. ASSUME NEW a \in Agent, UnregisterRuntime(a)
        PROVE  LeavesStep
    <2>1. a \in Agent \ online' /\ Purge(a)
      BY <1>3 DEF UnregisterRuntime
    <2>. QED
      BY <1>0, <1>1, <2>1, PurgeLeaves DEF LeavesStep
  <1>4. ASSUME NEW c \in Caller, Store(c)
        PROVE  LeavesStep
    <2>1. messages' = LastOf(All(c), MaxMessages) /\ All(c) = messages \o calls[c].kept
      BY <1>0, <1>4, StoreMoves DEF All
    <2>2. /\ All(c) \in Seq(Message) /\ Distinct(All(c))
          /\ messages \in Seq(Message) /\ calls[c].kept \in Seq(Message)
      BY <1>0, AllIsDistinct, CallFields DEF TypeOK
    <2> DEFINE t == messages'
               left == ToSet(messages) \ ToSet(messages')
    <2>3. PICK all \in Seq(Message), u \in Seq(Message) :
            /\ all = messages \o u /\ Distinct(all)
            /\ left = ToSet(messages) \ ToSet(t) /\ t = LastOf(all, MaxMessages)
      BY <2>1, <2>2
    <2> HIDE DEF t, left
    <2>4. ASSUME left # {}
          PROVE  TakesTheOldest(messages, t, left, MaxMessages)
      BY <2>2, <2>3, <2>4, RoomLeaves, BoundsAssumption
    <2>. QED
      BY <1>1, <2>4 DEF LeavesStep, TakesTheOldest, t, left
  <1>. QED
    BY <1>2, <1>3, <1>4
    DEF Next, CallStep, RegisterRuntime, DispatchBatch, Publish, Begin, Check,
        NextChannelSeq, WriteTerminal, WriteFails, vars, bus

\* A message leaves the log only with an agent of it that is gone (unregister_runtime), or
\* as one of the oldest of a log that stays full (store_channel_messages).
THEOREM LeavesForAReasonCorrect == Spec => LeavesForAReason
  <1>1. BInv /\ [Next]_vars => [LeavesStep]_vars
    BY LeavesByBInv
  <1>. QED
    BY <1>1, BInvCorrect, PTL DEF Spec, LeavesForAReason, LeavesStep

=============================================================================
