--------------------- MODULE ExternalReplyRelay_proofs ---------------------
(***************************************************************************)
(* Theorems about the reply relay, for any number of messages and any      *)
(* prompts.  The worker changes the session that it finds after a          *)
(* delivery.  The invariant that makes this harmless says whose that       *)
(* session is: the one whose text the worker holds, or one that was bound  *)
(* since.                                                                  *)
(***************************************************************************)
EXTENDS ExternalReplyRelay, TLAPS

Replies == {"preview", "final", "task"}

Carries(kinds) == worker.hand # Nothing /\ worker.hand.kind \in kinds

\* A session is of a message that has no final reply yet.
SessionIsOpen == Bound => fate[relay.id] # "replied"

\* The session that a delivery will find is the one whose text is delivered, or a
\* message's that was bound meanwhile.
HandIsOwn ==
  Carries(Replies) /\ Bound => relay.id = worker.hand.id \/ relay.id \in raced

\* The message that the preview on its way will edit was sent for the same reply.
PreviewInHandIsOwn ==
  Carries({"preview"}) =>
    worker.hand.preview \in {None, worker.hand.id} \/ worker.hand.id \in raced

Facts ==
  /\ SessionIsOpen
  /\ HandIsOwn
  /\ PreviewInHandIsOwn
  /\ OnlyARaceRemoves
  /\ PreviewIsOwn
  /\ RepliedOnce

RInv == TypeOK /\ Facts

-----------------------------------------------------------------------------
(* Types.                                                                  *)

\* A session is not the absence of one, and a candidate is not the absence of one.
LEMMA SessionIsBound ==
  /\ \A r \in Session : r # NoSession /\ r.id \in Binding
  /\ \A c \in Candidate : c # Nothing
  <1>1. \A r \in Session : r.id \in Binding
    BY DEF Session
  <1>2. None \notin Binding
    BY BindingAssumption DEF None, Binding
  <1>3. \A c \in Candidate : c.kind # "nothing"
    BY DEF Candidate
  <1>. QED
    BY <1>1, <1>2, <1>3 DEF NoSession, Nothing

\* The initial state has its type.
LEMMA TypeInit == Init => TypeOK
  <1> SUFFICES ASSUME Init PROVE TypeOK
    OBVIOUS
  <1>1. bound \in 0..MaxBinding /\ fate \in [Binding -> Fate]
    BY BindingAssumption DEF Init, Fate
  <1>2. worker \in [at : {"prompts", "replies", "tasks"}, hand : Candidate \cup {Nothing}]
    BY DEF Init
  <1>. QED
    BY <1>1, <1>2 DEF Init, TypeOK

\* A candidate made from a session, of a kind that its prompt allows, is one.
LEMMA CandidateType ==
  ASSUME NEW r \in Session, NEW kind \in {"show", "clear", "preview", "final", "task"},
         kind = "show" => r.prompt \in Prompt
  PROVE  CandidateOf(kind, r) \in Candidate
  BY DEF CandidateOf, Session, Candidate

\* Binding a message keeps the types.
LEMMA TypeBind ==
  ASSUME TypeOK, NEW channel \in Channel, NEW accepts \in BOOLEAN, Bind(channel, accepts)
  PROVE  TypeOK'
  <1> USE DEF Bind
  <1>1. bound' \in 0..MaxBinding /\ bound + 1 \in Binding
    BY BindingAssumption DEF TypeOK, Binding
  <1>2. CASE accepts
    <2>1. relay \in Session
      BY <1>2 DEF TypeOK, Bound
    <2>2. relay' \in Session
      BY <1>2, <2>1 DEF Session
    <2>. QED
      BY <1>1, <1>2, <2>2 DEF TypeOK, Fate
  <1>3. CASE ~accepts
    <2>1. relay' \in Session
      BY <1>1, <1>3 DEF NewSession, Session
    <2>. QED
      BY <1>1, <1>3, <2>1 DEF TypeOK, Fate
  <1>. QED
    BY <1>2, <1>3

\* What else happens to a session keeps the types.
LEMMA TypeSession ==
  ASSUME TypeOK,
         \/ \E text \in {"none", "log", "screen"}, prompt \in Prompt \cup {NoPrompt, Unreadable} :
              \/ Chunk(text, prompt)
              \/ \E screen \in {"blank", "reply"} : Rendered(screen, text, prompt)
         \/ Exit \/ Answer \/ Report \/ Quiet \/ Expire \/ FinalDue
  PROVE  TypeOK'
  <1>1. Bound => relay \in Session
    BY DEF TypeOK, Bound
  <1>2. ASSUME NEW text \in {"none", "log", "screen"},
               NEW prompt \in Prompt \cup {NoPrompt, Unreadable}, Chunk(text, prompt)
        PROVE  TypeOK'
    <2>1. relay' \in Session
      BY <1>1, <1>2 DEF Chunk, Session
    <2>. QED
      BY <1>2, <2>1 DEF Chunk, TypeOK
  <1>3. ASSUME NEW text \in {"none", "log", "screen"},
               NEW prompt \in Prompt \cup {NoPrompt, Unreadable},
               NEW screen \in {"blank", "reply"}, Rendered(screen, text, prompt)
        PROVE  TypeOK'
    <2>1. relay' \in Session
      BY <1>1, <1>3 DEF Rendered, Session
    <2>. QED
      BY <1>3, <2>1 DEF Rendered, TypeOK
  <1>4. CASE Exit
    <2>1. relay' \in Session \/ relay' = NoSession
      BY <1>1, <1>4 DEF Exit, Session, Bound
    <2>. QED
      BY <1>4, <2>1 DEF Exit, TypeOK
  <1>5. CASE Answer \/ Quiet \/ Expire \/ FinalDue
    <2>1. relay' \in Session
      BY <1>1, <1>5 DEF Answer, Quiet, Expire, FinalDue, Elapse, Session
    <2>. QED
      BY <1>5, <2>1 DEF Answer, Quiet, Expire, FinalDue, Elapse, TypeOK
  <1>6. CASE Report
    BY <1>1, <1>6 DEF Report, TypeOK, Fate
  <1>. QED
    BY <1>2, <1>3, <1>4, <1>5, <1>6

\* What the worker takes, and the end of what it takes, keep the types.
LEMMA TypeWorker ==
  ASSUME TypeOK, WorkerStep \/ Delivered \/ NotDelivered PROVE TypeOK'
  <1>1. Bound => relay \in Session
    BY DEF TypeOK, Bound
  <1>2. ASSUME NEW logged \in BOOLEAN, TakePrompts(logged) PROVE TypeOK'
    <2>1. CASE ~Bound
      BY <1>2, <2>1 DEF TakePrompts, Take, TypeOK
    <2>2. CASE Bound
      <3> DEFINE r == IF logged THEN [relay EXCEPT !.text = "log"] ELSE relay
      <3>1. r \in Session
        BY <1>1, <2>2 DEF Session
      <3> HIDE DEF r
      <3>2. \/ worker'.hand = Nothing
            \/ r.prompt \in Prompt /\ worker'.hand = CandidateOf("show", r)
            \/ worker'.hand = CandidateOf("clear", r)
        BY <1>2, <2>2 DEF TakePrompts, Take, ShouldShow, r
      <3>3. worker'.hand \in Candidate \cup {Nothing}
        BY <3>1, <3>2, CandidateType
      <3>4. worker' = [at |-> "replies", hand |-> worker'.hand] /\ relay' = r
        BY <1>2, <2>2 DEF TakePrompts, Take, r
      <3>. QED
        BY <1>2, <3>1, <3>3, <3>4 DEF TakePrompts, TypeOK
    <2>. QED
      BY <2>1, <2>2
  <1>3. ASSUME NEW due \in BOOLEAN, TakeReplies(due) PROVE TypeOK'
    <2>1. relay' \in Session \/ relay' = NoSession
      BY <1>1, <1>3 DEF TakeReplies, Session, Bound
    <2>2. worker'.hand \in {Nothing} \cup
            (IF Bound THEN {CandidateOf("final", relay), CandidateOf("preview", relay)} ELSE {})
      BY <1>3 DEF TakeReplies, Take
    <2>3. worker'.hand \in Candidate \cup {Nothing}
      BY <1>1, <2>2, CandidateType
    <2>4. worker' = [at |-> "tasks", hand |-> worker'.hand]
      BY <1>3 DEF TakeReplies, Take
    <2>5. fate' \in [Binding -> Fate]
      BY <1>3 DEF TakeReplies, TypeOK, Fate
    <2>. QED
      BY <1>3, <2>1, <2>3, <2>4, <2>5 DEF TakeReplies, TypeOK
  <1>4. CASE TakeTasks
    <2>1. relay' \in Session \/ relay' = NoSession
      BY <1>1, <1>4 DEF TakeTasks, Session, Bound, ShouldFinalize
    <2>2. worker'.hand \in {Nothing} \cup
            (IF Bound THEN {CandidateOf("task", relay)} ELSE {})
      BY <1>4 DEF TakeTasks, Take
    <2>3. worker'.hand \in Candidate \cup {Nothing}
      BY <1>1, <2>2, CandidateType
    <2>4. worker' = [at |-> "prompts", hand |-> worker'.hand]
      BY <1>4 DEF TakeTasks, Take
    <2>5. fate' \in [Binding -> Fate]
      BY <1>4 DEF TakeTasks, TypeOK, Fate
    <2>. QED
      BY <1>4, <2>1, <2>3, <2>4, <2>5 DEF TakeTasks, TypeOK
  <1>5. CASE Delivered
    <2>1. worker.hand \in Candidate
      BY <1>5 DEF Delivered, Deliverable, TypeOK
    <2>2. relay' \in Session \/ relay' = NoSession
      BY <1>1, <1>5, <2>1 DEF Delivered, Finalized, Previewed, Session, Candidate, Bound
    <2>3. fate' \in [Binding -> Fate]
      BY <1>5 DEF Delivered, Finalized, TypeOK, Fate
    <2>. QED
      BY <1>5, <2>2, <2>3 DEF Delivered, TypeOK
  <1>6. CASE NotDelivered
    <2>1. relay' \in Session \/ relay' = NoSession
      BY <1>1, <1>6 DEF NotDelivered, Session, Bound
    <2>. QED
      BY <1>6, <2>1 DEF NotDelivered, TypeOK
  <1>. QED
    BY <1>2, <1>3, <1>4, <1>5, <1>6 DEF WorkerStep

\* No step breaks the types.
LEMMA TypeStep == TypeOK /\ [Next]_vars => TypeOK'
  <1> SUFFICES ASSUME TypeOK, [Next]_vars PROVE TypeOK'
    OBVIOUS
  <1>1. ASSUME NEW accepts \in BOOLEAN, BindReply(accepts) \/ BindTaskWait(accepts)
        PROVE  TypeOK'
    BY <1>1, TypeBind DEF BindReply, BindTaskWait, Channel
  <1>2. CASE UNCHANGED vars
    BY <1>2 DEF vars, TypeOK
  <1>. QED
    BY <1>1, <1>2, TypeSession, TypeWorker DEF Next
-----------------------------------------------------------------------------
(* Whose session it is.  What the steps do to it, to what the worker holds *)
(* and to what became of the messages decides; the rest of a session does  *)
(* not matter.                                                             *)

\* The same session, or none, as before, for the same message.
SameSession ==
  /\ Bound' = Bound
  /\ Bound => relay'.id = relay.id /\ relay'.preview = relay.preview

\* What only touches the inside of the session, or notes a report of the agent,
\* keeps every fact.
LEMMA FactsSame ==
  ASSUME TypeOK, Facts, SameSession, UNCHANGED <<worker, raced>>,
         \A b \in Binding : fate'[b] \in {fate[b], "reported", "closed", "bound"}
  PROVE  Facts'
  <1>1. Bound => relay.id \in Binding
    BY SessionIsBound DEF TypeOK, Bound
  <1>2. worker.hand # Nothing => worker.hand.id \in Binding
    BY DEF TypeOK, Candidate
  <1> USE DEF SameSession, Carries, Replies
  <1>3. SessionIsOpen'
    BY <1>1 DEF Facts, SessionIsOpen
  <1>4. HandIsOwn' /\ PreviewInHandIsOwn'
    BY DEF Facts, HandIsOwn, PreviewInHandIsOwn
  <1>5. OnlyARaceRemoves'
    BY DEF Facts, OnlyARaceRemoves
  <1>6. PreviewIsOwn'
    BY DEF Facts, PreviewIsOwn
  <1>7. RepliedOnce'
    BY <1>2 DEF Facts, RepliedOnce
  <1>. QED
    BY <1>3, <1>4, <1>5, <1>6, <1>7 DEF Facts

\* A session of the same message, with the same preview, is the same session.
LEMMA KeepsSession ==
  ASSUME relay \in Session, relay'.id = relay.id, relay'.preview = relay.preview
  PROVE  SameSession
  <1>1. relay.id \in Binding
    BY DEF Session
  <1>2. relay'.id # None /\ relay.id # None
    BY <1>1, BindingAssumption DEF Binding, None
  <1>. QED
    BY <1>2 DEF SameSession, Bound, NoSession

\* What happens to a session apart from binding keeps the facts.
LEMMA FactsSession ==
  ASSUME TypeOK, Facts,
         \/ \E text \in {"none", "log", "screen"}, prompt \in Prompt \cup {NoPrompt, Unreadable} :
              \/ Chunk(text, prompt)
              \/ \E screen \in {"blank", "reply"} : Rendered(screen, text, prompt)
         \/ Exit \/ Answer \/ Report \/ Quiet \/ Expire \/ FinalDue
  PROVE  Facts'
  <1>1. Bound => relay \in Session
    BY DEF TypeOK, Bound
  <1>2. ASSUME NEW text \in {"none", "log", "screen"},
               NEW prompt \in Prompt \cup {NoPrompt, Unreadable},
               \/ Chunk(text, prompt)
               \/ \E screen \in {"blank", "reply"} : Rendered(screen, text, prompt)
        PROVE  Facts'
    <2>1. Bound /\ UNCHANGED <<worker, fate, raced>>
      BY <1>2 DEF Chunk, Rendered
    <2>2. relay'.id = relay.id /\ relay'.preview = relay.preview
      BY <1>1, <1>2, <2>1 DEF Chunk, Rendered, Session
    <2>. QED
      BY <1>1, <2>1, <2>2, KeepsSession, FactsSame
  <1>3. CASE Exit
    <2>1. UNCHANGED <<worker, fate, raced>>
      BY <1>3 DEF Exit
    <2>2. CASE Bound
      <3>1. relay'.id = relay.id /\ relay'.preview = relay.preview
        BY <1>1, <1>3, <2>2 DEF Exit, Session
      <3>. QED
        BY <1>1, <2>1, <2>2, <3>1, KeepsSession, FactsSame
    <2>3. CASE ~Bound
      <3>1. SameSession
        BY <1>3, <2>3 DEF Exit, SameSession, Bound
      <3>. QED
        BY <2>1, <3>1, FactsSame
    <2>. QED
      BY <2>2, <2>3
  <1>4. CASE Answer \/ Quiet \/ Expire \/ FinalDue
    <2>1. Bound /\ UNCHANGED <<worker, fate, raced>>
      BY <1>4 DEF Answer, Quiet, Expire, FinalDue, Elapse
    <2>2. relay'.id = relay.id /\ relay'.preview = relay.preview
      BY <1>1, <1>4, <2>1 DEF Answer, Quiet, Expire, FinalDue, Elapse, Session
    <2>. QED
      BY <1>1, <2>1, <2>2, KeepsSession, FactsSame
  <1>5. CASE Report
    <2>1. Bound /\ UNCHANGED <<relay, worker, raced>>
      BY <1>5 DEF Report
    <2>2. \A b \in Binding : fate'[b] \in {fate[b], "reported"}
      BY <1>5 DEF Report, TypeOK
    <2>3. SameSession
      BY <2>1 DEF SameSession, Bound
    <2>. QED
      BY <2>1, <2>2, <2>3, FactsSame
  <1>. QED
    BY <1>2, <1>3, <1>4, <1>5

\* Binding keeps the facts: a message bound during a delivery has raced.
LEMMA FactsBind ==
  ASSUME TypeOK, Facts, NEW channel \in Channel, NEW accepts \in BOOLEAN,
         Bind(channel, accepts)
  PROVE  Facts'
  <1> USE DEF Bind, Carries, Replies
  <1>1. bound + 1 \in Binding /\ raced \subseteq raced' /\ UNCHANGED worker
    BY BindingAssumption DEF TypeOK, Binding
  <1>2. worker.hand # Nothing => worker.hand.id \in Binding
    BY DEF TypeOK, Candidate
  <1>3. \A b \in Binding : fate'[b] \in {fate[b], "closed", "bound"}
    OBVIOUS
  <1>4. OnlyARaceRemoves'
    BY <1>1, <1>3 DEF Facts, OnlyARaceRemoves
  <1>5. RepliedOnce'
    BY <1>1, <1>2, <1>3 DEF Facts, RepliedOnce
  <1>6. PreviewInHandIsOwn'
    BY <1>1 DEF Facts, PreviewInHandIsOwn
  <1>7. CASE accepts
    <2>1. relay \in Session
      BY <1>7 DEF TypeOK, Bound
    <2>2. relay'.id = relay.id /\ relay'.preview = relay.preview
      BY <1>7, <2>1 DEF Session
    <2>3. SameSession /\ relay.id \in Binding
      BY <2>1, <2>2, KeepsSession DEF Session
    <2>4. SessionIsOpen'
      BY <1>3, <2>3 DEF SameSession, Facts, SessionIsOpen
    <2>5. HandIsOwn' /\ PreviewIsOwn'
      BY <1>1, <2>3 DEF SameSession, Facts, HandIsOwn, PreviewIsOwn
    <2>. QED
      BY <1>4, <1>5, <1>6, <2>4, <2>5 DEF Facts
  <1>8. CASE ~accepts
    <2>1. relay'.id = bound + 1 /\ relay'.preview = None
      BY <1>8 DEF NewSession
    <2>2. fate'[bound + 1] = "bound"
      BY <1>1, <1>8
    <2>3. SessionIsOpen' /\ HandIsOwn' /\ PreviewIsOwn'
      BY <1>1, <2>1, <2>2 DEF SessionIsOpen, HandIsOwn, PreviewIsOwn
    <2>. QED
      BY <1>4, <1>5, <1>6, <2>3 DEF Facts
  <1>. QED
    BY <1>7, <1>8

\* What the worker takes is of the session that it looks at, which stays, or goes
\* with nothing taken.
Takes ==
  /\ worker.hand = Nothing /\ UNCHANGED raced
  /\ \/ /\ SameSession /\ UNCHANGED fate
        /\ \/ worker'.hand = Nothing
           \/ /\ Bound /\ worker'.hand # Nothing
              /\ worker'.hand.id = relay.id /\ worker'.hand.preview = relay.preview
     \/ /\ worker'.hand = Nothing /\ ~Bound'
        /\ \A b \in Binding : fate'[b] \in {fate[b], "closed"}

\* A candidate has the message and the preview of its session.
LEMMA CandidateIsOwn ==
  ASSUME NEW r, NEW kind \in {"show", "clear", "preview", "final", "task"}
  PROVE  /\ CandidateOf(kind, r).id = r.id /\ CandidateOf(kind, r).preview = r.preview
         /\ CandidateOf(kind, r).kind = kind
         /\ CandidateOf(kind, r) # Nothing
  <1>1. CandidateOf(kind, r).kind = kind
    BY DEF CandidateOf
  <1>2. kind # "nothing"
    OBVIOUS
  <1>. QED
    BY <1>1, <1>2 DEF CandidateOf, Nothing

\* Taking is of that kind, in each of the three passes.
LEMMA WorkerTakes == ASSUME TypeOK, WorkerStep PROVE Takes
  <1>1. Bound => relay \in Session
    BY DEF TypeOK, Bound
  <1>2. ASSUME NEW logged \in BOOLEAN, TakePrompts(logged) PROVE Takes
    <2>1. worker.hand = Nothing /\ UNCHANGED <<raced, fate>>
      BY <1>2 DEF TakePrompts, Take
    <2>2. CASE ~Bound
      BY <1>2, <2>1, <2>2 DEF TakePrompts, Take, Takes, SameSession, Bound
    <2>3. CASE Bound
      <3>1. relay'.id = relay.id /\ relay'.preview = relay.preview
        BY <1>1, <1>2, <2>3 DEF TakePrompts, Session
      <3>2. \/ worker'.hand = Nothing
            \/ \E kind \in {"show", "clear"} : worker'.hand = CandidateOf(kind, relay')
        BY <1>2, <2>3 DEF TakePrompts, Take
      <3>3. SameSession
        BY <1>1, <2>3, <3>1, KeepsSession
      <3>. QED
        BY <2>1, <2>3, <3>1, <3>2, <3>3, CandidateIsOwn DEF Takes
    <2>. QED
      BY <2>2, <2>3
  <1>3. ASSUME NEW due \in BOOLEAN, TakeReplies(due) PROVE Takes
    <2>1. worker.hand = Nothing /\ UNCHANGED raced
      BY <1>3 DEF TakeReplies, Take
    <2>2. CASE ~Bound
      BY <1>3, <2>1, <2>2 DEF TakeReplies, Take, Takes, SameSession, Bound
    <2>3. CASE Bound /\ ShouldDrop(relay)
      <3>1. worker'.hand = Nothing /\ ~Bound'
        BY <1>3, <2>3 DEF TakeReplies, Take, Bound
      <3>2. \A b \in Binding : fate'[b] \in {fate[b], "closed"}
        BY <1>3, <2>3 DEF TakeReplies, TypeOK
      <3>. QED
        BY <2>1, <3>1, <3>2 DEF Takes
    <2>4. CASE Bound /\ ~ShouldDrop(relay)
      <3>1. relay'.id = relay.id /\ relay'.preview = relay.preview /\ UNCHANGED fate
        BY <1>1, <1>3, <2>4 DEF TakeReplies, Session
      <3>2. \/ worker'.hand = Nothing
            \/ \E kind \in {"final", "preview"} : worker'.hand = CandidateOf(kind, relay)
        BY <1>3, <2>4 DEF TakeReplies, Take
      <3>3. SameSession
        BY <1>1, <2>4, <3>1, KeepsSession
      <3>. QED
        BY <2>1, <2>4, <3>1, <3>2, <3>3, CandidateIsOwn DEF Takes
    <2>. QED
      BY <2>2, <2>3, <2>4
  <1>4. ASSUME TakeTasks PROVE Takes
    <2>1. worker.hand = Nothing /\ UNCHANGED raced
      BY <1>4 DEF TakeTasks, Take
    <2>2. CASE ~Bound \/ relay.channel # "wait"
      BY <1>4, <2>1, <2>2 DEF TakeTasks, Take, Takes, SameSession, Bound
    <2> DEFINE drops == fate[relay.id] = "reported" \/ ShouldDrop(relay)
    <2>3. CASE Bound /\ relay.channel = "wait" /\ drops
      <3>1. worker'.hand = Nothing /\ ~Bound'
        BY <1>4, <2>3 DEF TakeTasks, Take, Bound
      <3>2. \A b \in Binding : fate'[b] \in {fate[b], "closed"}
        BY <1>4, <2>3 DEF TakeTasks, TypeOK
      <3>. QED
        BY <2>1, <3>1, <3>2 DEF Takes
    <2>4. CASE Bound /\ relay.channel = "wait" /\ ~drops
      <3>1. relay'.id = relay.id /\ relay'.preview = relay.preview /\ UNCHANGED fate
        BY <1>1, <1>4, <2>4 DEF TakeTasks, Session
      <3>2. worker'.hand = Nothing \/ worker'.hand = CandidateOf("task", relay)
        BY <1>4, <2>4 DEF TakeTasks, Take
      <3>3. SameSession
        BY <1>1, <2>4, <3>1, KeepsSession
      <3>. QED
        BY <2>1, <2>4, <3>1, <3>2, <3>3, CandidateIsOwn DEF Takes
    <2>. QED
      BY <2>2, <2>3, <2>4
  <1>. QED
    BY <1>2, <1>3, <1>4 DEF WorkerStep

\* Taking keeps the facts.
LEMMA FactsTake == ASSUME TypeOK, Facts, Takes PROVE Facts'
  <1> USE DEF Carries, Replies
  <1>1. Bound => relay.id \in Binding
    BY SessionIsBound DEF TypeOK, Bound
  <1>2. CASE SameSession /\ UNCHANGED fate
    <2>1. SessionIsOpen' /\ PreviewIsOwn' /\ OnlyARaceRemoves'
      BY <1>2 DEF Takes, SameSession, Facts, SessionIsOpen, PreviewIsOwn, OnlyARaceRemoves
    <2>2. HandIsOwn'
      BY <1>2 DEF Takes, SameSession, HandIsOwn
    <2>3. PreviewInHandIsOwn'
      BY <1>2 DEF Takes, Facts, PreviewIsOwn, PreviewInHandIsOwn
    <2>4. RepliedOnce'
      BY <1>2 DEF Takes, Facts, SessionIsOpen, RepliedOnce
    <2>. QED
      BY <2>1, <2>2, <2>3, <2>4 DEF Facts
  <1>3. CASE /\ worker'.hand = Nothing /\ ~Bound'
             /\ \A b \in Binding : fate'[b] \in {fate[b], "closed"}
    BY <1>3 DEF Takes, Facts, SessionIsOpen, HandIsOwn, PreviewInHandIsOwn,
       OnlyARaceRemoves, PreviewIsOwn, RepliedOnce
  <1>. QED
    BY <1>2, <1>3 DEF Takes

\* The end of a delivery keeps the facts: it is here that a session of another
\* message is found, removed, or given the message of an earlier preview.
LEMMA FactsDelivered ==
  ASSUME TypeOK, Facts, Delivered \/ NotDelivered PROVE Facts'
  <1> USE DEF Carries, Replies
  <1>1. Bound => relay \in Session /\ relay.id \in Binding
    BY SessionIsBound DEF TypeOK, Bound
  <1>2. /\ worker.hand # Nothing /\ worker.hand \in Candidate
        /\ worker'.hand = Nothing /\ UNCHANGED raced
    BY DEF TypeOK, Delivered, Deliverable, NotDelivered
  <1>3. HandIsOwn' /\ PreviewInHandIsOwn' /\ RepliedOnce'
    BY <1>2 DEF HandIsOwn, PreviewInHandIsOwn, RepliedOnce
  <1>4. CASE Delivered /\ worker.hand.kind \in {"final", "task"}
    <2>1. Finalized(worker.hand)
      BY <1>4 DEF Delivered
    <2>2. ~Bound'
      BY <2>1 DEF Finalized, Bound
    <2>3. \A b \in Binding : fate'[b] = "removed" => fate[b] = "removed" \/ b \in raced
      BY <1>1, <1>2, <1>4, <2>1, SessionIsBound DEF Finalized, Facts, HandIsOwn, TypeOK
    <2>. QED
      BY <1>2, <1>3, <2>2, <2>3 DEF Facts, SessionIsOpen, PreviewIsOwn, OnlyARaceRemoves
  <1>5. CASE Delivered /\ worker.hand.kind \notin {"final", "task"}
    <2>1. UNCHANGED fate
      BY <1>5 DEF Delivered
    <2>2. CASE ~Bound
      <3>1. ~Bound'
        BY <1>5, <2>2 DEF Delivered, Bound
      <3>. QED
        BY <1>2, <1>3, <2>1, <3>1 DEF Facts, SessionIsOpen, PreviewIsOwn, OnlyARaceRemoves
    <2>3. CASE Bound
      <3>1. relay'.id = relay.id
        BY <1>1, <1>5, <2>3 DEF Delivered, Session
      <3>2. relay'.preview = relay.preview \/ worker.hand.kind = "preview"
        BY <1>1, <1>5, <2>3 DEF Delivered, Session
      <3>3. worker.hand.kind = "preview" => relay'.preview = Previewed(worker.hand)
        BY <1>1, <1>5, <2>3 DEF Delivered, Session
      <3>4. worker.hand.kind = "preview" =>
              Previewed(worker.hand) = worker.hand.id \/ worker.hand.id \in raced
        BY <1>2 DEF Facts, PreviewInHandIsOwn, Previewed
      <3>5. PreviewIsOwn'
        BY <1>2, <2>3, <3>1, <3>2, <3>3, <3>4 DEF Facts, HandIsOwn, PreviewIsOwn
      <3>. QED
        BY <1>2, <1>3, <2>1, <2>3, <3>1, <3>5 DEF Facts, SessionIsOpen, OnlyARaceRemoves
    <2>. QED
      BY <2>2, <2>3
  <1>6. CASE NotDelivered
    <2>1. CASE Bound
      <3>1. relay'.id = relay.id /\ relay'.preview = relay.preview
        BY <1>1, <1>6, <2>1 DEF NotDelivered, Session
      <3>. QED
        BY <1>2, <1>3, <1>6, <2>1, <3>1
        DEF NotDelivered, Facts, SessionIsOpen, PreviewIsOwn, OnlyARaceRemoves
    <2>2. CASE ~Bound
      BY <1>2, <1>3, <1>6, <2>2
      DEF NotDelivered, Bound, Facts, SessionIsOpen, PreviewIsOwn, OnlyARaceRemoves
    <2>. QED
      BY <2>1, <2>2
  <1>. QED
    BY <1>4, <1>5, <1>6

-----------------------------------------------------------------------------
(* The theorems.                                                           *)

\* In every reachable state the variables have their types.
THEOREM TypeCorrect == Spec => []TypeOK
  BY TypeInit, TypeStep, PTL DEF Spec

\* The strengthened invariant holds in every reachable state.
THEOREM RInvCorrect == Spec => []RInv
  <1>1. Init => RInv
    <2> SUFFICES ASSUME Init PROVE RInv
      OBVIOUS
    <2>1. ~Bound /\ worker.hand = Nothing /\ \A b \in Binding : fate[b] = "unbound"
      BY DEF Init, Bound
    <2>. QED
      BY <2>1, TypeInit DEF RInv, Facts, SessionIsOpen, HandIsOwn, PreviewInHandIsOwn, Carries,
         OnlyARaceRemoves, PreviewIsOwn, RepliedOnce
  <1>2. RInv /\ [Next]_vars => RInv'
    <2> SUFFICES ASSUME RInv, [Next]_vars PROVE RInv'
      OBVIOUS
    <2>1. TypeOK /\ Facts
      BY DEF RInv
    <2>2. TypeOK'
      BY <2>1, TypeStep
    <2>3. ASSUME NEW accepts \in BOOLEAN, BindReply(accepts) \/ BindTaskWait(accepts)
          PROVE  Facts'
      BY <2>1, <2>3, FactsBind DEF BindReply, BindTaskWait, Channel
    <2>4. ASSUME WorkerStep PROVE Facts'
      BY <2>1, <2>4, WorkerTakes, FactsTake
    <2>5. ASSUME UNCHANGED vars PROVE Facts'
      <3>1. SameSession /\ UNCHANGED <<worker, raced, fate>>
        BY <2>5 DEF vars, SameSession, Bound
      <3>. QED
        BY <2>1, <3>1, FactsSame
    <2>6. Facts'
      BY <2>1, <2>3, <2>4, <2>5, FactsSession, FactsDelivered DEF Next
    <2>. QED
      BY <2>2, <2>6 DEF RInv
  <1>. QED
    BY <1>1, <1>2, PTL DEF Spec

\* Only a message that was bound during a delivery loses its session without a word.
THEOREM OnlyARaceRemovesCorrect == Spec => []OnlyARaceRemoves
  <1>1. RInv => OnlyARaceRemoves
    BY DEF RInv, Facts
  <1>. QED
    BY <1>1, RInvCorrect, PTL

\* With the same exception, previews overwrite only a message of their own reply.
THEOREM PreviewIsOwnCorrect == Spec => []PreviewIsOwn
  <1>1. RInv => PreviewIsOwn
    BY DEF RInv, Facts
  <1>. QED
    BY <1>1, RInvCorrect, PTL

\* After its final reply, nothing more is taken for a message.
THEOREM RepliedOnceCorrect == Spec => []RepliedOnce
  <1>1. RInv => RepliedOnce
    BY DEF RInv, Facts
  <1>. QED
    BY <1>1, RInvCorrect, PTL
=============================================================================
