--------------------------- MODULE ExternalInbound ---------------------------
(***************************************************************************)
(* How a message of a chat channel reaches the terminal of an agent: the   *)
(* webhook listener (channel_adapter_runtime.rs) or the polling worker     *)
(* (connectors/telegram), process_external_inbound_message, and the        *)
(* commands that change routes and access (commands/tool_adapter/mod.rs)   *)
(* over the state of gt-task.                                              *)
(*                                                                         *)
(* A call reads the cache of answers, the routes, the policy and the       *)
(* allowlist one after the other, each under a lock of its own, and stores *)
(* its answer at the end.  Calls of a webhook overlap; the provider sends  *)
(* what was not answered with 200 again.  The polling worker handles one   *)
(* message at a time and moves its offset behind the whole batch.  The     *)
(* commands change memory, clear the cache and write the file.             *)
(*                                                                         *)
(* A message that answers a prompt is typed before any of this is read, on *)
(* the strength of the reply session that an earlier message was bound to. *)
(* One account, and one sender who has a chat of his own; what they are    *)
(* called is left out.                                                     *)
(***************************************************************************)
EXTENDS Integers, FiniteSets

CONSTANTS
  Call,        \* connections of the webhook listener that are open at a time
  General,     \* identities of route bindings without a pattern
  Specific,    \* identities of route bindings with one: they score higher
  Target,      \* agents that bindings lead to
  Mode,        \* access policies that the operator sets
  MaxMessage,  \* bound of the model: messages of the sender
  MaxChange,   \* bound: commands that change the configuration
  MaxFault     \* bound: restarts, failed writes, lost answers and errors

ASSUME ConstantsAssumption ==
  /\ Call # {} /\ General # {} /\ Target # {} /\ General \cap Specific = {}
  /\ Mode \subseteq {"disabled", "open", "allowlist", "pairing"}
  /\ MaxMessage \in Nat \ {0} /\ MaxChange \in Nat /\ MaxFault \in Nat

Message == 1..MaxMessage

Binding == [key : General \cup Specific, target : Target]

NoAnswer == [status |-> "none"]

Idle == [at |-> "idle"]

VARIABLES
  transport,  \* how messages come in, for good
  sent,       \* messages that exist
  settled,    \* messages answered with 200; those the polling worker has handled
  config,     \* routes, policy and allowlist, in memory
  file,       \* the same in the channel state file
  command,    \* what the command that runs does next
  cache,      \* idempotency_cache
  call,       \* the calls of process_external_inbound_message
  poll,       \* the offset in memory, and the rest of the batch
  stored,     \* the offset in the file
  sessions,   \* the messages for which external reply sessions of this chat, that
              \* a prompt may be answered through, were bound
  changes, faults,
  effects,    \* history: was a message typed into a terminal: no, once, again
  excused,    \* history: messages for which twice has a known cause
  admitted,   \* history: messages dispatched and let in, as far as their call saw
  unfounded   \* history: messages typed, but not for one that was let in

talk == <<sessions, admitted, unfounded>>

vars == <<transport, sent, settled, config, file, command, cache, call, poll,
          stored, changes, faults, effects, excused, talk>>

Config == [routes : SUBSET Binding, policy : Mode \cup {"pairing"}, approved : BOOLEAN]

(* late: a command changed the configuration while the call was in progress. *)
Answer == [status : {"done", "rejected", "failed"}, late : BOOLEAN]

(* seen is history: what the configurations during the call allow.           *)
CallState ==
  [at : {"interact", "policy", "allow", "dispatch", "store"}, m : Message,
   policy : Mode \cup {"pairing"}, status : {"none", "done", "rejected", "failed"},
   late : BOOLEAN, seen : SUBSET {"open", "listed", "approved"}]

TypeOK ==
  /\ transport \in {"webhook", "polling"}
  /\ sent \in 0..MaxMessage /\ settled \subseteq Message
  /\ config \in Config /\ file \in Config
  /\ command \in [at : {"none", "clear", "persist"}, part : {"none", "routes", "policy", "approved"}]
  /\ cache \in [Message -> Answer \cup {NoAnswer}]
  /\ call \in [Call -> CallState \cup {Idle}]
  /\ poll \in [offset : 0..MaxMessage + 1, next : Message \cup {0, MaxMessage + 1},
               last : 0..MaxMessage]
  /\ stored \in 0..MaxMessage + 1
  /\ changes \in 0..MaxChange /\ faults \in 0..MaxFault
  /\ effects \in [Message -> 0..2] /\ excused \subseteq Message
  /\ sessions \subseteq Message /\ admitted \subseteq Message /\ unfounded \subseteq Message

NoCommand == [at |-> "none", part |-> "none"]

(* restore_persisted_channel_state: what the file has; at first a route or   *)
(* none, whichever, and nobody approved.                                     *)
Init ==
  /\ transport \in {"webhook", "polling"}
  /\ sent = 0 /\ settled = {}
  /\ config \in [routes : {{}, {CHOOSE b \in Binding : b.key \in General}},
                 policy : Mode \cup {"pairing"}, approved : {FALSE}]
  /\ file = config
  /\ command = NoCommand
  /\ cache = [m \in Message |-> NoAnswer]
  /\ call = [c \in Call |-> Idle]
  /\ poll = [offset |-> 0, next |-> 0, last |-> 0]
  /\ stored = 0
  /\ changes = 0 /\ faults = 0
  /\ effects = [m \in Message |-> 0] /\ excused = {}
  /\ sessions = {} /\ admitted = {} /\ unfounded = {}

-----------------------------------------------------------------------------
(* Routes and access.                                                        *)

(* resolve_external_route_selection: the bindings of the highest score have  *)
(* to agree on the agent; otherwise the route is ambiguous, or there is none.*)
Top(routes) ==
  LET specific == {b \in routes : b.key \in Specific}
  IN  IF specific # {} THEN specific ELSE routes

Routed(routes) == Cardinality({b.target : b \in Top(routes)}) = 1

\* What a call that runs now would read.
Allows(cfg) ==
  (IF cfg.policy = "open" THEN {"open"} ELSE {})
    \cup (IF cfg.policy \in {"allowlist", "pairing"} THEN {"listed"} ELSE {})
    \cup (IF cfg.approved THEN {"approved"} ELSE {})

Admitted(seen) == "open" \in seen \/ {"listed", "approved"} \subseteq seen

Admits(cfg) == Routed(cfg.routes) /\ Admitted(Allows(cfg))

Busy(c) == call[c] # Idle

(* A command changes the memory; calls in progress may have read what was.   *)
Configure(cfg) ==
  /\ config' = cfg
  /\ call' = [c \in Call |->
       IF ~Busy(c) THEN Idle
       ELSE IF call[c].at = "store" THEN [call[c] EXCEPT !.late = TRUE]
       ELSE [call[c] EXCEPT !.late = TRUE, !.seen = @ \cup Allows(cfg)]]

(* channel_binding_upsert replaces the binding with the same identity;       *)
(* channel_binding_delete and the deletion of an agent take bindings away.   *)
SetRoutes ==
  \E b \in Binding :
    \/ Configure([config EXCEPT !.routes = {r \in @ : r.key # b.key} \cup {b}])
    \/ b \in config.routes /\ Configure([config EXCEPT !.routes = @ \ {b}])

(* channel_access_policy_set.                                                *)
SetPolicy == \E mode \in Mode : Configure([config EXCEPT !.policy = mode])

(* channel_access_approve writes the file only for a new identity.           *)
Approve == Configure([config EXCEPT !.approved = TRUE])

(* The commands that change what is admitted; all clear the cache next.      *)
Change ==
  /\ command = NoCommand /\ changes < MaxChange
  /\ changes' = changes + 1
  /\ \/ SetRoutes /\ command' = [at |-> "clear", part |-> "routes"]
     \/ SetPolicy /\ command' = [at |-> "clear", part |-> "policy"]
     \/ /\ Approve
        /\ command' = [at |-> "clear", part |-> IF config.approved THEN "none" ELSE "approved"]
  /\ UNCHANGED <<transport, sent, settled, file, cache, poll, stored, faults, effects, excused, talk>>

\* Mutant: the cache keeps what was answered before the change.
ClearBug ==
  /\ command.at = "clear" /\ command' = [command EXCEPT !.at = "persist"]
  /\ UNCHANGED <<transport, sent, settled, config, file, cache, call, poll, stored,
                 changes, faults, effects, excused, talk>>

(* clear_external_idempotency_cache: what was dispatched may be so again.    *)
Clear ==
  /\ command.at = "clear" /\ command' = [command EXCEPT !.at = "persist"]
  /\ cache' = [m \in Message |-> NoAnswer]
  /\ excused' = excused \cup {m \in Message : effects[m] > 0}
  /\ UNCHANGED <<transport, sent, settled, config, file, call, poll, stored, changes,
                 faults, effects, talk>>

(* persist_route_bindings, _access_policy and _allow_entry replace a part of *)
(* what the file has, or fail.                                               *)
Persist ==
  /\ command.at = "persist" /\ command' = NoCommand
  /\ \/ /\ file' = CASE command.part = "routes" -> [file EXCEPT !.routes = config.routes]
                     [] command.part = "policy" -> [file EXCEPT !.policy = config.policy]
                     [] command.part = "approved" -> [file EXCEPT !.approved = TRUE]
                     [] OTHER -> file
        /\ UNCHANGED faults
     \/ faults < MaxFault /\ faults' = faults + 1 /\ UNCHANGED file
  /\ UNCHANGED <<transport, sent, settled, config, cache, call, poll, stored, changes,
                 effects, excused, talk>>

(* remove_channel_connector_account_scope: the account is forgotten in       *)
(* memory, the file loses only the routes, and the cache stays.              *)
DeleteAccount ==
  /\ command = NoCommand /\ changes < MaxChange
  /\ changes' = changes + 1
  /\ Configure([routes |-> {}, policy |-> "pairing", approved |-> FALSE])
  /\ file' = [file EXCEPT !.routes = {}]
  /\ UNCHANGED <<transport, sent, settled, command, cache, poll, stored, faults,
                 effects, excused, talk>>

-----------------------------------------------------------------------------
(* A call of process_external_inbound_message.                               *)

\* Everything but the calls, and what they leave behind.
Rest == <<transport, sent, config, file, command, stored, changes>>

(* Two calls for one message may both find the cache empty.                  *)
Begin(c, m) ==
  /\ call' = [call EXCEPT ![c] = [at |-> "interact", m |-> m, policy |-> "pairing",
                                  status |-> "none", late |-> FALSE, seen |-> Allows(config)]]
  /\ excused' = IF \E d \in Call : Busy(d) /\ call[d].m = m THEN excused \cup {m} ELSE excused

(* check_external_idempotency.  A hit is answered as a duplicate, with 200.  *)
Hit(m) == cache[m] # NoAnswer

At(c, at) == Busy(c) /\ call[c].at = at

To(c, at) == call' = [call EXCEPT ![c].at = at]

Answering(c, status) ==
  call' = [call EXCEPT ![c].at = "store", ![c].status = status, ![c].policy = "pairing",
                       ![c].seen = {}]

(* Something is typed into an agent's terminal, because n was let in.        *)
Type(m, n) ==
  /\ effects' = [effects EXCEPT ![m] = IF @ = 0 THEN 1 ELSE 2]
  /\ unfounded' = IF n \in admitted' THEN unfounded ELSE unfounded \cup {m}

NothingTyped == UNCHANGED <<effects, unfounded>>

\* What the caller does with a call that is over: see the two transports.
Over(c, m, ok) ==
  /\ call' = [call EXCEPT ![c] = Idle]
  /\ IF transport = "polling"
     THEN poll' = [poll EXCEPT !.next = m + 1] /\ settled' = settled \cup {m} /\ UNCHANGED faults
     ELSE /\ UNCHANGED poll
          /\ \/ settled' = (IF ok THEN settled \cup {m} ELSE settled) /\ UNCHANGED faults
             \/ ok /\ faults < MaxFault /\ faults' = faults + 1 /\ UNCHANGED settled

(* `?`: the call ends with an error, which is not stored.                    *)
Fails(c) ==
  /\ faults < MaxFault
  /\ faults' = faults + 1
  /\ call' = [call EXCEPT ![c] = Idle]
  /\ IF transport = "polling"
     THEN poll' = [poll EXCEPT !.next = call[c].m + 1] /\ settled' = settled \cup {call[c].m}
     ELSE UNCHANGED <<poll, settled>>

(* resolve_external_route.                                                   *)
Route(c) ==
  IF Routed(config.routes) THEN To(c, "policy") ELSE Answering(c, "rejected")

\* Mutant: a session is looked up in whichever chat it is; 0 is one of another chat.
InteractBug(c) ==
  /\ At(c, "interact")
  /\ UNCHANGED <<Rest, cache, sessions, admitted>>
  /\ \/ Route(c) /\ NothingTyped /\ UNCHANGED <<settled, poll, faults, excused>>
     \/ Answering(c, "failed") /\ NothingTyped /\ UNCHANGED <<settled, poll, faults, excused>>
     \/ \E n \in sessions \cup {0} :
          \/ Answering(c, "done") /\ Type(call[c].m, n) /\ UNCHANGED <<settled, poll, faults, excused>>
          \/ Fails(c) /\ NothingTyped /\ UNCHANGED excused
          \/ Fails(c) /\ Type(call[c].m, n) /\ excused' = excused \cup {call[c].m}

(* dispatch_external_interaction_callback and _text_input: the message may   *)
(* answer a prompt of a terminal whose session is with this chat, whatever   *)
(* the policy is by now.  A button without such a session fails, and so does *)
(* an answer to an agent that is gone; of an answer that cannot be written,  *)
(* a part may have been typed.                                               *)
Interact(c) ==
  /\ At(c, "interact")
  /\ UNCHANGED <<Rest, cache, sessions, admitted>>
  /\ \/ Route(c) /\ NothingTyped /\ UNCHANGED <<settled, poll, faults, excused>>
     \/ Answering(c, "failed") /\ NothingTyped /\ UNCHANGED <<settled, poll, faults, excused>>
     \/ \E n \in sessions :
          \/ Answering(c, "done") /\ Type(call[c].m, n) /\ UNCHANGED <<settled, poll, faults, excused>>
          \/ Fails(c) /\ NothingTyped /\ UNCHANGED excused
          \/ Fails(c) /\ Type(call[c].m, n) /\ excused' = excused \cup {call[c].m}

(* get_external_access_policy.                                               *)
Policy(c) ==
  /\ At(c, "policy")
  /\ call' = [call EXCEPT ![c].policy = config.policy, ![c].at = "allow"]
  /\ UNCHANGED <<Rest, settled, cache, poll, faults, effects, excused, talk>>

(* is_external_allowed; a paired channel answers with a code.                *)
Allow(c) ==
  /\ At(c, "allow")
  /\ IF call[c].policy = "open" \/ (call[c].policy # "disabled" /\ config.approved)
     THEN call' = [call EXCEPT ![c].at = "dispatch", ![c].policy = "pairing"]
     ELSE Answering(c, "rejected")
  /\ UNCHANGED <<Rest, settled, cache, poll, faults, effects, excused, talk>>

(* bind_external_reply_sessions: the terminal's session becomes the one of   *)
(* m.  It does not if the agent has gone, the channel has no replies, or the *)
(* session it has is at a prompt that takes such a text.                     *)
Bind(m) ==
  UNCHANGED sessions \/ \E n \in sessions \cup {m} : sessions' = (sessions \ {n}) \cup {m}

(* The workspace is open, or the one of the persisted route opens; the agent *)
(* is known; the text is typed.  Otherwise the call has failed, which may be *)
(* seen only when some of the text is there.                                 *)
Dispatch(c) ==
  /\ At(c, "dispatch")
  /\ LET m == call[c].m
     IN  /\ admitted' = IF Admitted(call[c].seen) THEN admitted \cup {m} ELSE admitted
         /\ \/ Answering(c, "done") /\ Type(m, m) /\ Bind(m)
            \/ Answering(c, "failed") /\ (Type(m, m) \/ NothingTyped) /\ UNCHANGED sessions
  /\ UNCHANGED <<Rest, settled, cache, poll, faults, excused>>

\* Mutant: a failed call is not remembered.
StoreBug(c) ==
  /\ At(c, "store")
  /\ LET m == call[c].m  status == call[c].status
     IN  /\ cache' = IF status = "failed" THEN cache
                     ELSE [cache EXCEPT ![m] = [status |-> status, late |-> call[c].late /\ status = "rejected"]]
         /\ Over(c, m, status # "failed")
  /\ UNCHANGED <<Rest, effects, excused, talk>>

\* Mutant: the early return of an answered prompt misses the cache.
StoreForgets(c) ==
  /\ At(c, "store")
  /\ LET m == call[c].m  status == call[c].status
     IN  /\ cache' = IF status = "done" THEN cache
                     ELSE [cache EXCEPT ![m] = [status |-> status, late |-> call[c].late /\ status = "rejected"]]
         /\ Over(c, m, status # "failed")
  /\ UNCHANGED <<Rest, effects, excused, talk>>

(* store_external_idempotency, and the answer: 500 if the call has failed.   *)
Store(c) ==
  /\ At(c, "store")
  /\ LET m == call[c].m  status == call[c].status
     IN  /\ cache' = [cache EXCEPT ![m] = [status |-> status, late |-> call[c].late /\ status = "rejected"]]
         /\ Over(c, m, status # "failed")
  /\ UNCHANGED <<Rest, effects, excused, talk>>

CallStep(c) ==
  Interact(c) \/ Policy(c) \/ Allow(c) \/ Dispatch(c) \/ Store(c)

(* The relay ends a session with its last reply, or without one; a message   *)
(* of another chat, or a task to wait for, takes a terminal's session over.  *)
Relay ==
  /\ \E n \in sessions : sessions' = sessions \ {n}
  /\ UNCHANGED <<Rest, settled, cache, call, poll, faults, effects, excused, admitted,
                 unfounded>>

-----------------------------------------------------------------------------
(* The transports.                                                           *)

(* Messages of a webhook meet in the configuration only: one is enough.      *)
Arrive ==
  /\ sent < (IF transport = "webhook" THEN 1 ELSE MaxMessage)
  /\ sent' = sent + 1
  /\ UNCHANGED <<transport, settled, config, file, command, cache, call, poll, stored,
                 changes, faults, effects, excused, talk>>

(* A connection of the listener: the first time, or because no 200 has come. *)
Webhook(c, m) ==
  /\ transport = "webhook" /\ ~Busy(c)
  /\ m <= sent /\ m \notin settled
  /\ IF Hit(m) THEN Over(c, m, TRUE) /\ UNCHANGED excused
     ELSE Begin(c, m) /\ UNCHANGED <<settled, poll, faults>>
  /\ UNCHANGED <<Rest, cache, effects, talk>>

\* Mutant: the offset moves with the fetch, ahead of the messages.
FetchBug ==
  /\ transport = "polling" /\ poll.next = 0
  /\ LET from == IF poll.offset # 0 THEN poll.offset ELSE stored
         first == IF from = 0 THEN 1 ELSE from
     IN  /\ first <= sent
         /\ poll' = [offset |-> from, next |-> first, last |-> sent]
  /\ stored' = sent + 1
  /\ UNCHANGED <<transport, sent, settled, config, file, command, cache, call, changes,
                 faults, effects, excused, talk>>

(* poll_account_once: everything from the offset on; resolve_poll_offset     *)
(* takes the one in the file if there is none in memory.                     *)
Fetch ==
  /\ transport = "polling" /\ poll.next = 0
  /\ LET from == IF poll.offset # 0 THEN poll.offset ELSE stored
         first == IF from = 0 THEN 1 ELSE from
     IN  /\ first <= sent
         /\ poll' = [offset |-> from, next |-> first, last |-> sent]
  /\ UNCHANGED <<transport, sent, settled, config, file, command, cache, call, stored,
                 changes, faults, effects, excused, talk>>

(* The next message of the batch, in a call of the worker.                   *)
Handle(c) ==
  /\ transport = "polling" /\ \A d \in Call : ~Busy(d)
  /\ c = CHOOSE d \in Call : TRUE
  /\ poll.next \in 1..poll.last
  /\ IF Hit(poll.next) THEN Over(c, poll.next, TRUE) /\ UNCHANGED excused
     ELSE Begin(c, poll.next) /\ UNCHANGED <<settled, poll, faults>>
  /\ UNCHANGED <<Rest, cache, effects, talk>>

(* persist_poll_offset; a file that cannot be written is only logged.        *)
Advance ==
  /\ transport = "polling" /\ poll.next = poll.last + 1 /\ poll.last > 0
  /\ \A c \in Call : ~Busy(c)
  /\ poll' = [offset |-> poll.last + 1, next |-> 0, last |-> 0]
  /\ \/ stored' = poll.last + 1 /\ UNCHANGED faults
     \/ faults < MaxFault /\ faults' = faults + 1 /\ UNCHANGED stored
  /\ UNCHANGED <<transport, sent, settled, config, file, command, cache, call, changes,
                 effects, excused, talk>>

(* The application stops; the next one restores what the files have.         *)
Restart ==
  /\ faults < MaxFault /\ faults' = faults + 1
  /\ config' = file
  /\ command' = NoCommand
  /\ cache' = [m \in Message |-> NoAnswer]
  /\ call' = [c \in Call |-> Idle]
  /\ poll' = [offset |-> 0, next |-> 0, last |-> 0]
  /\ excused' = excused \cup {m \in Message : effects[m] > 0}
  /\ sessions' = {}
  /\ UNCHANGED <<transport, sent, settled, file, stored, changes, effects, admitted,
                 unfounded>>

Next ==
  \/ Change \/ Clear \/ Persist \/ DeleteAccount
  \/ Relay \/ Arrive \/ Fetch \/ Advance \/ Restart
  \/ \E c \in Call : CallStep(c) \/ Handle(c) \/ \E m \in Message : Webhook(c, m)

Spec == Init /\ [][Next]_vars

(* Connections and the worker run, commands end, and the provider sends what *)
(* is not answered again; that a message may have to wait for a connection   *)
(* to be over is a bound of the model.                                       *)
FairSpec ==
  /\ Spec
  /\ WF_vars(Clear) /\ WF_vars(Persist)
  /\ WF_vars(Fetch) /\ WF_vars(Advance)
  /\ \A c \in Call : WF_vars(CallStep(c)) /\ WF_vars(Handle(c))
  /\ \A m \in Message : SF_vars(\E c \in Call : Webhook(c, m))

-----------------------------------------------------------------------------

\* What is typed into a terminal is a message that policy and allowlist let in, as they
\* were when its call read one and then the other; or it answers a prompt in a session
\* that was bound for such a message of this chat, and is still there: though calls,
\* commands, the relay and other chats change all of these in between.
AdmittedOnly == unfounded = {}

\* A message is typed into a terminal twice only if two calls for it overlapped, the
\* application restarted, a command cleared the cache, or typing failed half-way.
TypedOnce == \A m \in Message : effects[m] > 1 => m \in excused

\* The cache keeps no message out that the present configuration lets in: unless the
\* command has yet to clear it, or the answer was on its way when the command ran.
RejectionIsCurrent ==
  \A m \in Message :
    Hit(m) /\ cache[m].status = "rejected" /\ ~cache[m].late /\ command.at # "clear" =>
      ~Admits(config)

\* Neither offset, in memory or in the file, is ahead of a message that no call has
\* dealt with: a restart asks the provider for all of them again.
OffsetIsBehind ==
  transport = "polling" =>
    \A m \in Message : m < stored \/ m < poll.offset => m \in settled

\* Every message is settled: answered with 200, or behind the offset.  It is not sent
\* for ever, though calls fail, answers are lost and the application restarts.
EveryMessageIsSettled ==
  \A m \in Message :
    m <= sent ~> IF transport = "polling" THEN m < poll.offset \/ m < stored
               ELSE m \in settled
=============================================================================
