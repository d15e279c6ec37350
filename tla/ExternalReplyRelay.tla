------------------------- MODULE ExternalReplyRelay -------------------------
(***************************************************************************)
(* How what an agent says in its terminal becomes the answer to a message  *)
(* of a chat channel, or to a task somebody waits for: the relay sessions  *)
(* of app_state.rs and the flush worker of commands/tool_adapter/mod.rs.   *)
(*                                                                         *)
(* A terminal has at most one relay session, and binding another message   *)
(* replaces it.  The worker takes what is to be sent under the lock, sends *)
(* it without, and then changes the session that it finds: not always the  *)
(* one whose text it sent.  Two terminals do not touch each other, so the  *)
(* model has one.  Texts, screens and clocks are reduced to what the       *)
(* worker asks of them.                                                    *)
(***************************************************************************)
EXTENDS Integers

CONSTANTS
  Prompt,      \* questions of the agent that the relay can show to a peer
  MaxBinding   \* bound of the model: messages bound to the terminal

ASSUME BindingAssumption == MaxBinding \in Nat \ {0}

Channel == {"peer", "wait"}  \* a chat channel; __task_wait__

NoPrompt == "no prompt"

\* A permission prompt that the screen shows and extraction does not understand.
Unreadable == "unreadable"

None == 0  \* instead of a binding

NoSession == [id |-> None]

Nothing == [kind |-> "nothing"]

VARIABLES
  relay,   \* external_reply_sessions at the terminal
  exited,  \* the terminal's process is over
  worker,  \* where the flush worker is, and the candidate it delivers
  bound,   \* history: messages bound so far
  fate,    \* history: what became of them
  raced    \* history: those that were bound while the worker was delivering

vars == <<relay, exited, worker, bound, fate, raced>>

Binding == 1..MaxBinding

(* text is where a reply is: on the screen, or only in the session log;      *)
(* fresh says that no preview had what the screen shows.  screen is the last *)
(* rendered snapshot, if there is one, with or without a reply.  quiet: the  *)
(* terminal has been still for IDLE_FLUSH_MS, or three times that when the   *)
(* snapshot has a reply and no input prompt below it.  over: MAX_WAIT_MS     *)
(* have passed, or the terminal has ended.  finalDue is the retry interval   *)
(* of last_finalize_attempt_at_ms; preview the binding for which the message *)
(* to be edited was sent; message the prompt in the interaction message.     *)
Session == [id : Binding, channel : Channel, text : {"none", "log", "screen"},
            fresh : BOOLEAN, screen : {"none", "blank", "reply"},
            prompt : Prompt \cup {NoPrompt, Unreadable}, quiet : BOOLEAN,
            over : {"no", "expired", "ended"}, finalDue : BOOLEAN,
            preview : Binding \cup {None}, message : Prompt \cup {NoPrompt}]

Candidate == [kind : {"show", "clear", "preview", "final", "task"}, id : Binding,
              channel : Channel, prompt : Prompt \cup {NoPrompt},
              preview : Binding \cup {None}]

(* closed: without text, replaced by another message, or an answer itself.   *)
Fate == {"unbound", "bound", "replied", "reported", "closed", "removed"}

TypeOK ==
  /\ relay = NoSession \/ relay \in Session
  /\ exited \in BOOLEAN
  /\ worker \in [at : {"prompts", "replies", "tasks"}, hand : Candidate \cup {Nothing}]
  /\ bound \in 0..MaxBinding
  /\ fate \in [Binding -> Fate]
  /\ raced \subseteq Binding

Init ==
  /\ relay = NoSession
  /\ exited = FALSE
  /\ worker = [at |-> "prompts", hand |-> Nothing]
  /\ bound = 0
  /\ fate = [b \in Binding |-> "unbound"]
  /\ raced = {}

Bound == relay # NoSession

-----------------------------------------------------------------------------
(* What happens to the session.                                            *)

\* Mutant: the message that is edited stays.
NewSessionBug(b, channel) ==
  [id |-> b, channel |-> channel, text |-> "none", fresh |-> FALSE, screen |-> "none",
   prompt |-> NoPrompt, quiet |-> FALSE, over |-> "no", finalDue |-> TRUE,
   preview |-> IF Bound THEN relay.preview ELSE None, message |-> NoPrompt]

NewSession(b, channel) ==
  [id |-> b, channel |-> channel, text |-> "none", fresh |-> FALSE, screen |-> "none",
   prompt |-> NoPrompt, quiet |-> FALSE, over |-> "no", finalDue |-> TRUE,
   preview |-> None, message |-> NoPrompt]

(* bind_external_reply_session.  A message or a task that the prompt on the screen takes as an answer  *)
(* leaves the session as it is.                                            *)
Bind(channel, accepts) ==
  /\ bound < MaxBinding
  /\ accepts => Bound /\ relay.over # "ended" /\ relay.prompt \in Prompt
  /\ bound' = bound + 1
  /\ relay' = IF accepts THEN [relay EXCEPT !.quiet = FALSE]
                         ELSE NewSession(bound + 1, channel)
  /\ fate' = [b \in Binding |->
       IF b = bound + 1 THEN IF accepts THEN "closed" ELSE "bound"
       ELSE IF fate[b] = "bound" /\ ~accepts THEN "closed" ELSE fate[b]]
  /\ raced' = IF worker.hand.kind \in {"preview", "final", "task"}
              THEN raced \cup {bound + 1} ELSE raced
  /\ UNCHANGED <<exited, worker>>

\* bind_external_reply_sessions, bind_task_wait_reply_sessions: what was sent to an
\* agent with a runtime.
BindReply(accepts) == Bind("peer", accepts)

BindTaskWait(accepts) == Bind("wait", accepts)

\* append_external_reply_chunk.  The text of the raw screen counts until a rendered
\* one has been reported; it may also be cleared.
Chunk(text, prompt) ==
  /\ Bound /\ ~exited
  /\ relay' = IF relay.screen = "reply"
              THEN [relay EXCEPT !.quiet = FALSE, !.prompt = prompt]
              ELSE [relay EXCEPT !.quiet = FALSE, !.prompt = prompt, !.text = text,
                                 !.fresh = text = "screen"]
  /\ UNCHANGED <<exited, worker, bound, fate, raced>>

\* report_external_reply_rendered_screen with a new revision: the reply is merged
\* into what is known of it and does not become shorter.
Rendered(screen, text, prompt) ==
  /\ Bound
  /\ IF screen = "blank" THEN relay.screen # "reply" /\ text = relay.text
                         ELSE text = "screen"
  /\ relay' = [relay EXCEPT !.quiet = FALSE, !.screen = screen, !.prompt = prompt,
                            !.text = text, !.fresh = @ \/ screen = "reply"]
  /\ UNCHANGED <<exited, worker, bound, fate, raced>>

\* mark_external_reply_session_ended, on the state event of the terminal.
Exit ==
  /\ ~exited
  /\ exited' = TRUE
  /\ relay' = IF Bound THEN [relay EXCEPT !.over = "ended", !.quiet = FALSE] ELSE relay
  /\ UNCHANGED <<worker, bound, fate, raced>>

\* A peer answers the prompt, by a button or by text: it is written to the terminal.
Answer ==
  /\ Bound /\ relay.channel # "wait" /\ relay.prompt \in Prompt /\ ~exited
  /\ relay.quiet
  /\ relay' = [relay EXCEPT !.quiet = FALSE]
  /\ UNCHANGED <<exited, worker, bound, fate, raced>>

\* The agent itself sends a status or a handover for the task that is waited for.
Report ==
  /\ Bound /\ relay.channel = "wait" /\ fate[relay.id] = "bound"
  /\ fate' = [fate EXCEPT ![relay.id] = "reported"]
  /\ UNCHANGED <<relay, exited, worker, bound, raced>>

Elapse(r) ==
  /\ Bound /\ r # relay
  /\ relay' = r
  /\ UNCHANGED <<exited, worker, bound, fate, raced>>

Quiet == Bound /\ Elapse([relay EXCEPT !.quiet = TRUE])
Expire == Bound /\ relay.over = "no" /\ Elapse([relay EXCEPT !.over = "expired"])
FinalDue == Bound /\ Elapse([relay EXCEPT !.finalDue = TRUE])

-----------------------------------------------------------------------------
(* What the worker finds in a session.                                     *)

HasText(r) == r.text # "none"

Blocked(r) == r.prompt # NoPrompt

\* Mutant: a session whose agent never rests is never closed.
ShouldFinalizeBug(r) == HasText(r) /\ ~Blocked(r) /\ r.quiet

\* should_finalize_with_text.
ShouldFinalize(r) == HasText(r) /\ ~Blocked(r) /\ (r.quiet \/ r.over # "no")

\* should_drop_without_text.
ShouldDrop(r) ==
  ~HasText(r) /\ ~Blocked(r) /\ (r.over # "no" \/ (r.quiet /\ r.screen = "blank"))

\* due: the channel has previews, PREVIEW_THROTTLE_MS are over, and the text is long
\* enough to begin with or has been begun.
ShouldPreview(r, due) ==
  ~Blocked(r) /\ r.channel = "peer" /\ r.text = "screen" /\ r.fresh /\ due

\* Mutant: only prompts of a rendered screen are shown.
ShouldShowBug(r) == r.screen # "none" /\ r.prompt \in Prompt /\ r.message # r.prompt

ShouldShow(r) == r.prompt \in Prompt /\ r.message # r.prompt

CandidateOf(kind, r) ==
  [kind |-> kind, id |-> r.id, channel |-> r.channel,
   prompt |-> IF kind = "show" THEN r.prompt ELSE NoPrompt, preview |-> r.preview]

-----------------------------------------------------------------------------
(* The worker.  It sleeps, takes and delivers in turn.                      *)

Take(from, to, hand) ==
  /\ worker.at = from /\ worker.hand = Nothing
  /\ worker' = [at |-> to, hand |-> hand]

\* refresh_external_reply_session_logs and
\* take_external_interaction_dispatch_candidates.
TakePrompts(logged) ==
  /\ logged => Bound /\ ~HasText(relay)
  /\ IF ~Bound THEN Take("prompts", "replies", Nothing) /\ UNCHANGED relay
     ELSE LET r == IF logged THEN [relay EXCEPT !.text = "log"] ELSE relay
          IN  /\ relay' = r
              /\ Take("prompts", "replies",
                   IF r.channel = "wait" THEN Nothing
                   ELSE IF ShouldShow(r) THEN CandidateOf("show", r)
                   ELSE IF r.prompt \notin Prompt /\ r.message # NoPrompt
                        THEN CandidateOf("clear", r) ELSE Nothing)
  /\ UNCHANGED <<exited, bound, fate, raced>>

\* take_external_reply_dispatch_candidates: sessions of waiting tasks are among those
\* it looks at.  That a final text adds nothing to its previews cannot come about:
\* one that was delivered is edited, one that was not is forgotten.
TakeReplies(due) ==
  /\ IF ~Bound THEN Take("replies", "tasks", Nothing) /\ UNCHANGED <<relay, fate>>
     ELSE IF ShouldDrop(relay)
     THEN /\ Take("replies", "tasks", Nothing)
          /\ relay' = NoSession
          /\ fate' = [fate EXCEPT ![relay.id] = IF @ = "bound" THEN "closed" ELSE @]
     ELSE IF ShouldFinalize(relay)
     THEN /\ Take("replies", "tasks",
               IF relay.finalDue THEN CandidateOf("final", relay) ELSE Nothing)
          /\ relay' = [relay EXCEPT !.finalDue = FALSE]
          /\ UNCHANGED fate
     ELSE IF ShouldPreview(relay, due)
     THEN /\ Take("replies", "tasks", CandidateOf("preview", relay))
          /\ relay' = [relay EXCEPT !.fresh = FALSE]
          /\ UNCHANGED fate
     ELSE Take("replies", "tasks", Nothing) /\ UNCHANGED <<relay, fate>>
  /\ UNCHANGED <<exited, bound, raced>>

\* take_task_reply_dispatch_candidates.
TakeTasks ==
  /\ IF ~Bound \/ relay.channel # "wait"
     THEN Take("tasks", "prompts", Nothing) /\ UNCHANGED <<relay, fate>>
     ELSE IF fate[relay.id] = "reported" \/ ShouldDrop(relay)
     THEN /\ Take("tasks", "prompts", Nothing)
          /\ relay' = NoSession
          /\ fate' = [fate EXCEPT ![relay.id] = IF @ = "bound" THEN "closed" ELSE @]
     ELSE /\ Take("tasks", "prompts",
               IF ShouldFinalize(relay) /\ relay.finalDue
               THEN CandidateOf("task", relay) ELSE Nothing)
          /\ relay' = [relay EXCEPT !.finalDue = @ /\ ~ShouldFinalize(relay)]
          /\ UNCHANGED fate
  /\ UNCHANGED <<exited, bound, raced>>

-----------------------------------------------------------------------------
(* The end of a delivery.  What it changes is the session that is bound     *)
(* then.                                                                   *)

\* reply_delivery_preflight rejects the channel __task_wait__.
Deliverable ==
  worker.hand # Nothing /\ (worker.hand.kind = "final" => worker.hand.channel = "peer")

\* deliver_telegram_reply_text edits the message of the last preview, or sends one.
Previewed(c) == IF c.preview = None THEN c.id ELSE c.preview

\* mark_external_reply_finalize_delivered removes the terminal's session.
Finalized(c) ==
  /\ relay' = NoSession
  /\ fate' = [b \in Binding |->
       IF b = c.id THEN "replied"
       ELSE IF Bound /\ b = relay.id /\ fate[b] = "bound" THEN "removed" ELSE fate[b]]

\* Mutants of Delivered: a preview ends the session; nothing does.
DeliveredBug ==
  /\ Deliverable
  /\ worker' = [worker EXCEPT !.hand = Nothing]
  /\ LET c == worker.hand
     IN  IF c.kind \in {"final", "task"} THEN Finalized(c)
         ELSE IF c.kind = "preview"
         THEN /\ relay' = NoSession
              /\ fate' = [fate EXCEPT ![relay.id] = "removed"]
         ELSE UNCHANGED <<relay, fate>>
  /\ UNCHANGED <<exited, bound, raced>>

DeliveredTwice ==
  /\ Deliverable
  /\ worker' = [worker EXCEPT !.hand = Nothing]
  /\ fate' = IF worker.hand.kind = "final" THEN [fate EXCEPT ![worker.hand.id] = "replied"] ELSE fate
  /\ UNCHANGED <<relay, exited, bound, raced>>

(* set_external_interaction_message_id, clear_external_interaction_message, *)
(* set_external_reply_preview_message_id, and the end of the session.       *)
Delivered ==
  /\ Deliverable
  /\ worker' = [worker EXCEPT !.hand = Nothing]
  /\ LET c == worker.hand
     IN  IF c.kind \in {"final", "task"} THEN Finalized(c)
         ELSE /\ UNCHANGED fate
              /\ relay' = IF ~Bound THEN relay
                          ELSE IF c.kind = "preview"
                          THEN [relay EXCEPT !.preview = Previewed(c)]
                          ELSE [relay EXCEPT !.message = c.prompt]
  /\ UNCHANGED <<exited, bound, raced>>

(* The channel, or the publication, refuses or does not confirm: some or   *)
(* all of it may have arrived.  mark_external_reply_preview_delivery_failed *)
(* makes a preview due again, unless the session is another.               *)
NotDelivered ==
  /\ worker.hand # Nothing
  /\ worker' = [worker EXCEPT !.hand = Nothing]
  /\ relay' = IF worker.hand.kind = "preview" /\ Bound /\ relay.id = worker.hand.id
              THEN [relay EXCEPT !.fresh = TRUE] ELSE relay
  /\ UNCHANGED <<exited, bound, fate, raced>>

WorkerStep ==
  (\E maybe \in BOOLEAN : TakePrompts(maybe) \/ TakeReplies(maybe)) \/ TakeTasks

Next ==
  \/ \E accepts \in BOOLEAN : BindReply(accepts) \/ BindTaskWait(accepts)
  \/ \E text \in {"none", "log", "screen"}, prompt \in Prompt \cup {NoPrompt, Unreadable} :
       \/ Chunk(text, prompt)
       \/ \E screen \in {"blank", "reply"} : Rendered(screen, text, prompt)
  \/ Exit \/ Answer \/ Report
  \/ Quiet \/ Expire \/ FinalDue
  \/ WorkerStep \/ Delivered \/ NotDelivered

Spec == Init /\ [][Next]_vars

(* The worker runs, requests return, time passes; a channel that is tried   *)
(* again and again accepts in the end.  Nobody need answer.                 *)
FairSpec ==
  /\ Spec
  /\ WF_vars(WorkerStep) /\ WF_vars(Delivered \/ NotDelivered) /\ SF_vars(Delivered)
  /\ WF_vars(Expire) /\ WF_vars(FinalDue)

-----------------------------------------------------------------------------

\* A message loses its session without a word only if it was bound while the worker
\* was delivering a reply: nothing else that is in flight can take it away.
OnlyARaceRemoves == \A b \in Binding : fate[b] = "removed" => b \in raced

\* The message that previews of a reply will overwrite was sent for that reply, and
\* not for an earlier one, with the same exception.
PreviewIsOwn == Bound => relay.preview \in {None, relay.id} \/ relay.id \in raced

\* What a peer was told to be the final reply is followed by no other reply to the
\* same message.
RepliedOnce ==
  worker.hand # Nothing /\ worker.hand.kind \in {"preview", "final", "task"} =>
    fate[worker.hand.id] # "replied"

\* Every message of a channel is done with in the end, however long the agent talks,
\* though the terminal ended before or after it was bound, and though deliveries
\* fail: unless a prompt is on the screen.
EveryMessageEnds ==
  \A b \in Binding :
    (Bound /\ relay.id = b /\ relay.channel # "wait") ~>
      (~Bound \/ relay.id # b \/ Blocked(relay))

\* A prompt that stays on the screen of a channel's session becomes the prompt the
\* peer sees, whatever was shown before.
PromptIsShown ==
  \A p \in Prompt :
    (Bound /\ relay.channel # "wait" /\ relay.prompt = p) ~>
      (~Bound \/ relay.prompt # p \/ relay.message = p)
=============================================================================
