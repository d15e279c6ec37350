------------------------------ MODULE TaskBus ------------------------------
(***************************************************************************)
(* How tasks and replies travel between the agents of a workspace:         *)
(* TaskService of crates/gt-task/src/lib.rs.  dispatch_batch writes a task *)
(* to the terminal of each target and keeps a message of it; publish keeps *)
(* a status or a handover that an agent sends back.  The calls run on the  *)
(* window's and on the bridge's threads.  Each of them looks up a runtime, *)
(* draws a sequence number, writes to a terminal and stores its messages   *)
(* in critical sections of their own: one step is one of these.            *)
(*                                                                         *)
(* Channels are direct: a message's channel is named by its target.  A     *)
(* "reply" is a message of type Status or Handover.                        *)
(***************************************************************************)
EXTENDS Integers, Sequences, FiniteSets, SequencesExt

CONSTANTS
  Agent,        \* the agents of the workspace
  Human,        \* the sender of a task that no agent dispatched
  Caller,       \* bound of the model: calls at once
  MaxMessages,  \* MAX_CHANNEL_MESSAGES, 512
  MaxCalls,     \* bound of the model: calls ever made
  MaxTargets    \* bound of the model: targets of a batch

ASSUME HumanAssumption == Human \notin Agent

ASSUME BoundsAssumption ==
  MaxMessages \in Nat \ {0} /\ MaxCalls \in Nat /\ MaxTargets \in Nat \ {0}

VARIABLES
  online,      \* agents with a runtime
  channelSeq,  \* channel_seq
  messages,    \* channel_messages, oldest first
  taskIds,     \* task ids drawn from id_counter
  calls,       \* the calls in progress
  terminal,    \* the tasks that reached the terminal of an agent
  started,     \* history: calls made
  forgotten    \* history: tasks whose instruction was purged or evicted

bus == <<online, channelSeq, messages>>
vars == <<bus, taskIds, calls, terminal, started, forgotten>>

Message == [to : Agent, seq : Nat, from : Agent \cup {Human}, task : Nat,
            type : {"instruction", "reply"}]

\* The last field of the call is message_events.
Call == [pc : {"idle", "check", "seq", "write"},
         type : {"instruction", "reply"}, from : Agent \cup {Human},
         todo : Seq(Agent), task : Nat, seq : Nat, kept : Seq(Message)]

Idle == [pc |-> "idle", type |-> "instruction", from |-> Human, todo |-> <<>>,
         task |-> 0, seq |-> 0, kept |-> <<>>]

TypeOK ==
  /\ online \subseteq Agent
  /\ channelSeq \in [Agent -> Nat]
  /\ messages \in Seq(Message) /\ Len(messages) <= MaxMessages
  /\ taskIds \in Nat
  /\ calls \in [Caller -> Call]
  /\ terminal \in [Agent -> SUBSET Nat]
  /\ started \in 0..MaxCalls
  /\ forgotten \subseteq Nat

Init ==
  /\ online = {}
  /\ channelSeq = [a \in Agent |-> 0]
  /\ messages = <<>>
  /\ taskIds = 0
  /\ calls = [c \in Caller |-> Idle]
  /\ terminal = [a \in Agent |-> {}]
  /\ started = 0 /\ forgotten = {}

-----------------------------------------------------------------------------
(* The runtimes.                                                           *)

Instructions(s) == {m.task : m \in {n \in ToSet(s) : n.type = "instruction"}}

Involves(m, a) == m.to = a \/ m.from = a

\* The k-th of a finite set of numbers.
Kth(S, k) == CHOOSE i \in S : Cardinality({j \in S : j <= i}) = k

\* retain: the messages that do not involve the agent, in their order.
Without(s, a) ==
  LET places == {i \in 1..Len(s) : ~Involves(s[i], a)}
  IN  [k \in 1..Cardinality(places) |-> s[Kth(places, k)]]

\* purge_agent_messages_locked.
Purge(a) ==
  /\ messages' = Without(messages, a)
  /\ forgotten' = forgotten \cup (Instructions(messages) \ Instructions(messages'))

RegisterRuntime(a) ==
  /\ online' = online \cup {a}
  /\ UNCHANGED <<channelSeq, messages, taskIds, calls, terminal, started, forgotten>>

\* unregister_runtime of a registered agent, or a registration that says offline.
UnregisterRuntime(a) ==
  /\ online' = online \ {a}
  /\ Purge(a)
  /\ UNCHANGED <<channelSeq, taskIds, calls, terminal, started>>

-----------------------------------------------------------------------------
(* The calls.                                                              *)

\* The targets as normalize_agent_ids leaves them.
Targets == UNION {{s \in [1..n -> Agent] : IsInjective(s)} : n \in 1..MaxTargets}

Begin(c, type, from, todo, task) ==
  /\ calls[c] = Idle /\ started < MaxCalls
  /\ calls' = [calls EXCEPT ![c] = [Idle EXCEPT !.pc = "check", !.type = type,
                                      !.from = from, !.todo = todo, !.task = task]]
  /\ started' = started + 1
  /\ UNCHANGED <<bus, taskIds, terminal, forgotten>>

DispatchBatch(c, from, targets) == Begin(c, "instruction", from, targets, 0)

\* An agent that has a task in its terminal answers it, to whom it likes.
Publish(c, a, to, task) ==
  /\ task \in terminal[a]
  /\ Begin(c, "reply", a, <<to>>, task)

At(c, pc) == calls[c].pc = pc

Target(c) == Head(calls[c].todo)

\* Mutant: the call waits for a target that is offline.
CheckBug(c) ==
  /\ At(c, "check") /\ calls[c].todo # <<>>
  /\ Target(c) \in online
  /\ taskIds' = IF calls[c].type = "instruction" THEN taskIds + 1 ELSE taskIds
  /\ calls' = [calls EXCEPT
       ![c].task = IF calls[c].type = "instruction" THEN taskIds' ELSE @,
       ![c].pc = "seq"]
  /\ UNCHANGED <<bus, terminal, started, forgotten>>

\* The next target: a task id is drawn, and the target is passed over unless
\* it has a runtime.
Check(c) ==
  /\ At(c, "check") /\ calls[c].todo # <<>>
  /\ taskIds' = IF calls[c].type = "instruction" THEN taskIds + 1 ELSE taskIds
  /\ calls' = [calls EXCEPT
       ![c].task = IF calls[c].type = "instruction" THEN taskIds' ELSE @,
       ![c].pc = IF Target(c) \in online THEN "seq" ELSE "check",
       ![c].todo = IF Target(c) \in online THEN @ ELSE Tail(@)]
  /\ UNCHANGED <<bus, terminal, started, forgotten>>

MessageOf(c, n) ==
  [to |-> Target(c), seq |-> n, from |-> calls[c].from, task |-> calls[c].task,
   type |-> calls[c].type]

\* The target is done with.
Keep(c, m) ==
  calls' = [calls EXCEPT ![c].kept = Append(@, m), ![c].todo = Tail(@),
                         ![c].pc = "check"]

\* Mutant: the number is taken from the messages that are there.
NextChannelSeqBug(c) ==
  /\ At(c, "seq")
  /\ channelSeq' = [channelSeq EXCEPT ![Target(c)] =
       Len(SelectSeq(messages, LAMBDA m : m.to = Target(c))) + 1]
  /\ IF calls[c].type = "instruction"
     THEN calls' = [calls EXCEPT ![c].seq = channelSeq'[Target(c)], ![c].pc = "write"]
     ELSE Keep(c, MessageOf(c, channelSeq'[Target(c)]))
  /\ UNCHANGED <<online, messages, taskIds, terminal, started, forgotten>>

\* A published message needs nothing more; a task must be written.
NextChannelSeq(c) ==
  /\ At(c, "seq")
  /\ channelSeq' = [channelSeq EXCEPT ![Target(c)] = @ + 1]
  /\ IF calls[c].type = "instruction"
     THEN calls' = [calls EXCEPT ![c].seq = channelSeq'[Target(c)], ![c].pc = "write"]
     ELSE Keep(c, MessageOf(c, channelSeq'[Target(c)]))
  /\ UNCHANGED <<online, messages, taskIds, terminal, started, forgotten>>

\* The session of the runtime that was looked up gets the task.
WriteTerminal(c) ==
  /\ At(c, "write")
  /\ terminal' = [terminal EXCEPT ![Target(c)] = @ \cup {calls[c].task}]
  /\ Keep(c, MessageOf(c, calls[c].seq))
  /\ UNCHANGED <<bus, taskIds, started, forgotten>>

\* Mutant: a write that fails ends the batch.
WriteFailsBug(c) ==
  /\ At(c, "write")
  /\ calls' = [calls EXCEPT ![c] = Idle]
  /\ UNCHANGED <<bus, taskIds, terminal, started, forgotten>>

\* The target failed; the batch goes on.
WriteFails(c) ==
  /\ At(c, "write")
  /\ calls' = [calls EXCEPT ![c].todo = Tail(@), ![c].pc = "check"]
  /\ UNCHANGED <<bus, taskIds, terminal, started, forgotten>>

LastOf(s, n) == IF Len(s) > n THEN SubSeq(s, Len(s) - n + 1, Len(s)) ELSE s

\* Mutant: one message too many is drained.
StoreBug(c) ==
  /\ At(c, "check") /\ calls[c].todo = <<>>
  /\ LET all == messages \o calls[c].kept
     IN  /\ messages' = LastOf(all, MaxMessages - 1)
         /\ forgotten' = forgotten \cup (Instructions(all) \ Instructions(messages'))
  /\ calls' = [calls EXCEPT ![c] = Idle]
  /\ UNCHANGED <<online, channelSeq, taskIds, terminal, started>>

\* store_channel_messages, and the call returns.
Store(c) ==
  /\ At(c, "check") /\ calls[c].todo = <<>>
  /\ LET all == messages \o calls[c].kept
     IN  /\ messages' = LastOf(all, MaxMessages)
         /\ forgotten' = forgotten \cup (Instructions(all) \ Instructions(messages'))
  /\ calls' = [calls EXCEPT ![c] = Idle]
  /\ UNCHANGED <<online, channelSeq, taskIds, terminal, started>>

CallStep(c) ==
  Check(c) \/ NextChannelSeq(c) \/ WriteTerminal(c) \/ WriteFails(c) \/ Store(c)

Next ==
  \/ \E a \in Agent : RegisterRuntime(a) \/ UnregisterRuntime(a)
  \/ \E c \in Caller :
       \/ \E from \in Agent \cup {Human}, targets \in Targets :
            DispatchBatch(c, from, targets)
       \/ \E a, to \in Agent : \E task \in terminal[a] : Publish(c, a, to, task)
       \/ CallStep(c)

Spec == Init /\ [][Next]_vars

(* A call that began runs to its end.                                      *)
FairSpec == Spec /\ \A c \in Caller : WF_vars(CallStep(c))

-----------------------------------------------------------------------------

\* No two messages of a channel ever bear the same number, whether they are stored
\* or in the hands of a call, and none bears one that was not drawn.
SequenceIsUnique ==
  LET numbered(s) == [i \in DOMAIN s |-> <<s[i].to, s[i].seq>>]
  IN  /\ IsInjective(numbered(messages))
      /\ \A c \in Caller :
           /\ IsInjective(numbered(messages \o calls[c].kept))
           /\ \A d \in Caller \ {c} : IsInjective(numbered(calls[c].kept \o calls[d].kept))
      /\ \A c \in Caller :
           \A m \in ToSet(messages \o calls[c].kept) : m.seq \in 1..channelSeq[m.to]

\* A task that reached a terminal has its message in the log, or on its way there,
\* or had it there: one failing target does not lose the others.
WrittenIsRecorded ==
  \A a \in Agent : \A task \in terminal[a] :
    \/ task \in Instructions(messages) \cup forgotten
    \/ \E c \in Caller : task \in Instructions(calls[c].kept)

\* A stored message leaves the log only when an agent of it loses its runtime, or
\* to make room: then the log is full, which it never exceeds, and what left is
\* older than what stays.
LeavesForAReason ==
  [][/\ Len(messages') <= MaxMessages
     /\ LET left == ToSet(messages) \ ToSet(messages')
        IN  left # {} =>
              \/ \E a \in Agent \ online' : \A m \in left : Involves(m, a)
              \/ /\ Len(messages') = MaxMessages
                 /\ \E n \in 1..Len(messages) :
                      /\ left = ToSet(SubSeq(messages, 1, n))
                      /\ IsPrefix(SubSeq(messages, n + 1, Len(messages)), messages')]_vars

\* The messages of a batch do not stay with its call, whatever becomes of its other
\* targets: with WrittenIsRecorded, a task that reached a terminal is listed in the
\* end, though the next target is offline or its terminal rejects the task.
KeptIsStored == \A c \in Caller : []<>(calls[c].kept = <<>>)
=============================================================================
