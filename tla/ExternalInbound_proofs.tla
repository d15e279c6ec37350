---------------------- MODULE ExternalInbound_proofs -----------------------
(***************************************************************************)
(* Theorems about the inbound pipeline, for any number of connections,     *)
(* messages, routes and agents: who is let in, what is typed twice, which  *)
(* rejections the cache keeps, and how far the offsets go.                 *)
(***************************************************************************)
EXTENDS ExternalInbound, FiniteSetTheorems, TLAPS

\* A call that has yet to store its answer has one.
StatusIsKnown == \A c \in Call : At(c, "store") => call[c].status # "none"

\* What a call may have read is what the configuration allows, or has allowed.
SeenCovers ==
  \A c \in Call : Busy(c) /\ call[c].at # "store" => Allows(config) \subseteq call[c].seen

\* So is the policy that it goes by.
PolicyWasSeen ==
  \A c \in Call : At(c, "allow") =>
    /\ call[c].policy = "open" => "open" \in call[c].seen
    /\ call[c].policy \in {"allowlist", "pairing"} => "listed" \in call[c].seen

\* A call that is about to type has been let in.
DispatchIsAdmitted == \A c \in Call : At(c, "dispatch") => Admitted(call[c].seen)

Access == SeenCovers /\ PolicyWasSeen /\ DispatchIsAdmitted

\* A session that a prompt may be answered through was bound for a message let in.
Conversations == sessions \subseteq admitted /\ AdmittedOnly

\* Two calls for one message are a known cause.
OneCallEach ==
  \A c, d \in Call : c # d /\ Busy(c) /\ Busy(d) /\ call[c].m = call[d].m => call[c].m \in excused

\* A call types at most once: it stores its answer next.
NotYetTyped ==
  \A c \in Call : Busy(c) /\ call[c].at # "store" =>
    effects[call[c].m] = 0 \/ call[c].m \in excused

\* What was typed is in the cache, or about to be.
TypedIsHeld ==
  \A m \in Message : effects[m] > 0 =>
    m \in excused \/ Hit(m) \/ \E c \in Call : At(c, "store") /\ call[c].m = m

Once == OneCallEach /\ NotYetTyped /\ TypedIsHeld /\ TypedOnce

\* A call that no command has overtaken goes by the present configuration.
ReadIsCurrent ==
  \A c \in Call : At(c, "allow") /\ ~call[c].late => call[c].policy = config.policy

\* Its rejection is one that the present configuration gives.
AnswerIsCurrent ==
  \A c \in Call : At(c, "store") /\ ~call[c].late /\ call[c].status = "rejected" => ~Admits(config)

Current == ReadIsCurrent /\ AnswerIsCurrent /\ RejectionIsCurrent

\* The polling worker handles one message at a time, in order.
OneAtATime ==
  transport = "polling" =>
    /\ \A c \in Call : Busy(c) => call[c].m = poll.next
    /\ \A c, d \in Call : Busy(c) /\ Busy(d) => c = d

\* What is before the next message of the batch has been dealt with.
BatchIsBehind ==
  transport = "polling" /\ poll.next # 0 =>
    poll.next <= poll.last + 1 /\ \A m \in Message : m < poll.next => m \in settled

Behind == OneAtATime /\ BatchIsBehind /\ OffsetIsBehind

\* The message of a call is one of the batch.
BusyIsInBatch ==
  transport = "polling" => \A c \in Call : Busy(c) => poll.next <= poll.last

IInv ==
  TypeOK /\ StatusIsKnown /\ Access /\ Conversations /\ Once /\ Current /\ Behind /\ BusyIsInBatch

-----------------------------------------------------------------------------
(* How the parts of an action change a call.                               *)

\* Only call c moves: to state r.
Moves(c, r) ==
  /\ call' \in [Call -> CallState \cup {Idle}]
  /\ call'[c] = r
  /\ \A d \in Call : d # c => call'[d] = call[d]

\* It goes on, with the same message.
GoesOn(c, at) ==
  /\ Moves(c, call'[c]) /\ call'[c] \in CallState /\ call'[c] # Idle
  /\ call'[c].at = at /\ call'[c].m = call[c].m /\ call'[c].late = call[c].late

LEMMA IdleIsNoCall == Idle \notin CallState
  BY DEF Idle, CallState

LEMMA MovesTo ==
  ASSUME TypeOK, NEW c \in Call, NEW r \in CallState \cup {Idle}, call' = [call EXCEPT ![c] = r]
  PROVE  Moves(c, r)
  BY DEF TypeOK, Moves

LEMMA AnsweringShape ==
  ASSUME TypeOK, NEW c \in Call, Busy(c), NEW status \in {"done", "rejected", "failed"},
         Answering(c, status)
  PROVE  GoesOn(c, "store") /\ call'[c].status = status
  <1> DEFINE r == [call[c] EXCEPT !.at = "store", !.status = status, !.policy = "pairing",
                                  !.seen = {}]
  <1>1. call[c] \in CallState
    BY DEF TypeOK, Busy
  <1>2. /\ r \in CallState /\ r.at = "store" /\ r.status = status
        /\ r.m = call[c].m /\ r.late = call[c].late
    BY <1>1 DEF CallState
  <1>3. call' = [call EXCEPT ![c] = r]
    BY DEF Answering, TypeOK
  <1> HIDE DEF r
  <1>4. Moves(c, r) /\ call'[c] = r
    BY <1>2, <1>3, MovesTo DEF Moves
  <1>. QED
    BY <1>2, <1>4, IdleIsNoCall DEF GoesOn

LEMMA ToShape ==
  ASSUME TypeOK, NEW c \in Call, Busy(c), NEW at \in {"policy", "dispatch"}, To(c, at)
  PROVE  GoesOn(c, at) /\ call'[c].seen = call[c].seen
  <1> DEFINE r == [call[c] EXCEPT !.at = at]
  <1>1. call[c] \in CallState
    BY DEF TypeOK, Busy
  <1>2. /\ r \in CallState /\ r.at = at /\ r.seen = call[c].seen
        /\ r.m = call[c].m /\ r.late = call[c].late
    BY <1>1 DEF CallState
  <1>3. call' = [call EXCEPT ![c] = r]
    BY DEF To, TypeOK
  <1> HIDE DEF r
  <1>4. Moves(c, r) /\ call'[c] = r
    BY <1>2, <1>3, MovesTo DEF Moves
  <1>. QED
    BY <1>2, <1>4, IdleIsNoCall DEF GoesOn

LEMMA PolicyShape ==
  ASSUME TypeOK, NEW c \in Call, Policy(c)
  PROVE  GoesOn(c, "allow") /\ call'[c].policy = config.policy /\ call'[c].seen = call[c].seen
  <1> DEFINE r == [call[c] EXCEPT !.policy = config.policy, !.at = "allow"]
  <1>1. call[c] \in CallState
    BY DEF TypeOK, Busy, Policy, At
  <1>2. /\ r \in CallState /\ r.at = "allow" /\ r.seen = call[c].seen
        /\ r.m = call[c].m /\ r.late = call[c].late /\ r.policy = config.policy
    BY <1>1 DEF CallState, TypeOK, Config
  <1>3. call' = [call EXCEPT ![c] = r]
    BY DEF Policy, TypeOK
  <1> HIDE DEF r
  <1>4. Moves(c, r) /\ call'[c] = r
    BY <1>2, <1>3, MovesTo DEF Moves
  <1>. QED
    BY <1>2, <1>4, IdleIsNoCall DEF GoesOn

LEMMA AllowShape ==
  ASSUME TypeOK, NEW c \in Call, Allow(c)
  PROVE  \/ /\ call[c].policy = "open" \/ (call[c].policy # "disabled" /\ config.approved)
            /\ GoesOn(c, "dispatch") /\ call'[c].seen = call[c].seen
         \/ /\ ~(call[c].policy = "open" \/ (call[c].policy # "disabled" /\ config.approved))
            /\ GoesOn(c, "store") /\ call'[c].status = "rejected"
  <1>1. call[c] \in CallState /\ Busy(c)
    BY DEF TypeOK, Busy, Allow, At
  <1>2. CASE call' = [call EXCEPT ![c].at = "dispatch", ![c].policy = "pairing"]
    <2> DEFINE r == [call[c] EXCEPT !.at = "dispatch", !.policy = "pairing"]
    <2>1. /\ r \in CallState /\ r.at = "dispatch" /\ r.seen = call[c].seen
          /\ r.m = call[c].m /\ r.late = call[c].late
      BY <1>1 DEF CallState
    <2>2. call' = [call EXCEPT ![c] = r]
      BY <1>2 DEF TypeOK
    <2> HIDE DEF r
    <2>3. Moves(c, r) /\ call'[c] = r
      BY <2>1, <2>2, MovesTo DEF Moves
    <2>4. GoesOn(c, "dispatch") /\ call'[c].seen = call[c].seen
      BY <2>1, <2>3, IdleIsNoCall DEF GoesOn
    <2>5. ~(call'[c].at = "store")
      BY <2>4 DEF GoesOn
    <2>. QED
      BY <1>1, <2>4, <2>5, AnsweringShape DEF Allow, GoesOn
  <1>3. CASE call' # [call EXCEPT ![c].at = "dispatch", ![c].policy = "pairing"]
    BY <1>1, <1>3, AnsweringShape DEF Allow
  <1>. QED
    BY <1>2, <1>3

LEMMA AllowsType ==
  ASSUME NEW cfg
  PROVE  Allows(cfg) \subseteq {"open", "listed", "approved"}
  BY DEF Allows

LEMMA BeginShape ==
  ASSUME TypeOK, NEW c \in Call, NEW m \in Message, Begin(c, m)
  PROVE  /\ Moves(c, call'[c]) /\ call'[c] \in CallState /\ call'[c] # Idle
         /\ call'[c].at = "interact" /\ call'[c].m = m /\ call'[c].seen = Allows(config)
         /\ excused' \subseteq Message /\ excused \subseteq excused'
         /\ \A d \in Call : Busy(d) /\ call[d].m = m => m \in excused'
  <1> DEFINE r == [at |-> "interact", m |-> m, policy |-> "pairing", status |-> "none",
                   late |-> FALSE, seen |-> Allows(config)]
  <1>1. r \in CallState /\ r.at = "interact" /\ r.m = m /\ r.seen = Allows(config)
    BY AllowsType DEF CallState
  <1>2. call' = [call EXCEPT ![c] = r]
    BY DEF Begin
  <1> HIDE DEF r
  <1>3. Moves(c, r) /\ call'[c] = r
    BY <1>1, <1>2, MovesTo DEF Moves
  <1>4. /\ excused' \subseteq Message /\ excused \subseteq excused'
        /\ \A d \in Call : Busy(d) /\ call[d].m = m => m \in excused'
    BY DEF Begin, TypeOK
  <1>. QED
    BY <1>1, <1>3, <1>4, IdleIsNoCall

LEMMA OverShape ==
  ASSUME TypeOK, NEW c \in Call, NEW m \in Message, NEW ok \in BOOLEAN, Over(c, m, ok)
  PROVE  /\ Moves(c, Idle)
         /\ poll' \in [offset : 0..MaxMessage + 1, next : Message \cup {0, MaxMessage + 1},
                       last : 0..MaxMessage]
         /\ settled' \subseteq Message /\ settled \subseteq settled'
         /\ faults' \in 0..MaxFault
         /\ transport = "polling" =>
              /\ poll' = [poll EXCEPT !.next = m + 1] /\ settled' = settled \cup {m}
  <1>1. m + 1 \in Message \cup {0, MaxMessage + 1}
    BY ConstantsAssumption DEF Message
  <1>2. poll \in [offset : 0..MaxMessage + 1, next : Message \cup {0, MaxMessage + 1},
                  last : 0..MaxMessage]
    BY DEF TypeOK
  <1>3. [poll EXCEPT !.next = m + 1] \in
          [offset : 0..MaxMessage + 1, next : Message \cup {0, MaxMessage + 1}, last : 0..MaxMessage]
    BY <1>1, <1>2
  <1>4. Moves(c, Idle)
    BY MovesTo DEF Over
  <1>5. faults' \in 0..MaxFault /\ settled' \subseteq Message /\ settled \subseteq settled'
    BY ConstantsAssumption DEF Over, TypeOK
  <1>. QED
    BY <1>2, <1>3, <1>4, <1>5 DEF Over

LEMMA FailsShape ==
  ASSUME TypeOK, NEW c \in Call, Busy(c), Fails(c)
  PROVE  /\ Moves(c, Idle)
         /\ poll' \in [offset : 0..MaxMessage + 1, next : Message \cup {0, MaxMessage + 1},
                       last : 0..MaxMessage]
         /\ settled' \subseteq Message /\ settled \subseteq settled'
         /\ faults' \in 0..MaxFault
         /\ transport = "polling" =>
              /\ poll' = [poll EXCEPT !.next = call[c].m + 1]
              /\ settled' = settled \cup {call[c].m}
  <1>0. call[c].m \in Message
    BY DEF TypeOK, Busy, CallState
  <1>1. call[c].m + 1 \in Message \cup {0, MaxMessage + 1}
    BY <1>0, ConstantsAssumption DEF Message
  <1>2. poll \in [offset : 0..MaxMessage + 1, next : Message \cup {0, MaxMessage + 1},
                  last : 0..MaxMessage]
    BY DEF TypeOK
  <1>3. [poll EXCEPT !.next = call[c].m + 1] \in
          [offset : 0..MaxMessage + 1, next : Message \cup {0, MaxMessage + 1}, last : 0..MaxMessage]
    BY <1>1, <1>2
  <1>4. Moves(c, Idle)
    BY MovesTo DEF Fails
  <1>5. faults' \in 0..MaxFault /\ settled' \subseteq Message /\ settled \subseteq settled'
    BY <1>0, ConstantsAssumption DEF Fails, TypeOK
  <1>. QED
    BY <1>2, <1>3, <1>4, <1>5 DEF Fails

\* What a command does to a call in progress.
Overtaken(c) ==
  /\ call'[c] \in CallState /\ call'[c] # Idle
  /\ call'[c].at = call[c].at /\ call'[c].m = call[c].m /\ call'[c].status = call[c].status
  /\ call'[c].policy = call[c].policy /\ call'[c].late
  /\ call[c].seen \subseteq call'[c].seen
  /\ call[c].at # "store" => Allows(config') \subseteq call'[c].seen

LEMMA ConfigureShape ==
  ASSUME TypeOK, NEW cfg \in Config, Configure(cfg)
  PROVE  /\ config' = cfg
         /\ call' \in [Call -> CallState \cup {Idle}]
         /\ \A c \in Call : IF Busy(c) THEN Overtaken(c) ELSE call'[c] = Idle
  <1> DEFINE answered(c) == [call[c] EXCEPT !.late = TRUE]
             reading(c) == [call[c] EXCEPT !.late = TRUE, !.seen = @ \cup Allows(cfg)]
  <1>1. ASSUME NEW c \in Call, Busy(c)
        PROVE  Overtaken(c)
    <2>1. call[c] \in CallState
      BY <1>1 DEF TypeOK, Busy
    <2>2. CASE call[c].at = "store"
      <3>1. /\ answered(c) \in CallState /\ answered(c).at = call[c].at /\ answered(c).m = call[c].m
            /\ answered(c).status = call[c].status /\ answered(c).policy = call[c].policy
            /\ answered(c).late /\ answered(c).seen = call[c].seen
        BY <2>1 DEF CallState
      <3>2. call'[c] = answered(c)
        BY <1>1, <2>2 DEF Configure
      <3> HIDE DEF answered
      <3>. QED
        BY <2>2, <3>1, <3>2, IdleIsNoCall DEF Overtaken
    <2>3. CASE call[c].at # "store"
      <3>1. /\ reading(c) \in CallState /\ reading(c).at = call[c].at /\ reading(c).m = call[c].m
            /\ reading(c).status = call[c].status /\ reading(c).policy = call[c].policy
            /\ reading(c).late /\ reading(c).seen = call[c].seen \cup Allows(cfg)
        BY <2>1, AllowsType DEF CallState
      <3>2. call'[c] = reading(c) /\ config' = cfg
        BY <1>1, <2>3 DEF Configure
      <3> HIDE DEF reading
      <3>. QED
        BY <2>3, <3>1, <3>2, IdleIsNoCall DEF Overtaken
    <2>. QED
      BY <2>2, <2>3
  <1>2. \A c \in Call : ~Busy(c) => call'[c] = Idle
    BY DEF Configure
  <1>3. call' = [c \in Call |-> call'[c]]
    BY DEF Configure
  <1>4. config' = cfg
    BY DEF Configure
  <1>5. \A c \in Call : call'[c] \in CallState \cup {Idle}
    BY <1>1, <1>2 DEF Overtaken
  <1>6. call' \in [Call -> CallState \cup {Idle}]
    BY <1>3, <1>5
  <1>. QED
    BY <1>1, <1>2, <1>4, <1>6

\* The commands that change the configuration.
LEMMA ChangeShape ==
  ASSUME TypeOK, Change
  PROVE  \E cfg \in Config : Configure(cfg)
  <1>0. config \in [routes : SUBSET Binding, policy : Mode \cup {"pairing"}, approved : BOOLEAN]
    BY DEF TypeOK, Config
  <1>1. CASE SetRoutes
    <2>1. PICK b \in Binding :
            \/ Configure([config EXCEPT !.routes = {r \in @ : r.key # b.key} \cup {b}])
            \/ Configure([config EXCEPT !.routes = @ \ {b}])
      BY <1>1 DEF SetRoutes
    <2>2. [config EXCEPT !.routes = {r \in @ : r.key # b.key} \cup {b}] \in Config
      BY <1>0 DEF Config
    <2>3. [config EXCEPT !.routes = @ \ {b}] \in Config
      BY <1>0 DEF Config
    <2>. QED
      BY <2>1, <2>2, <2>3
  <1>2. CASE SetPolicy
    <2>1. PICK mode \in Mode : Configure([config EXCEPT !.policy = mode])
      BY <1>2 DEF SetPolicy
    <2>2. [config EXCEPT !.policy = mode] \in Config
      BY <1>0 DEF Config
    <2>. QED
      BY <2>1, <2>2
  <1>3. CASE Approve
    <2>2. [config EXCEPT !.approved = TRUE] \in Config
      BY <1>0 DEF Config
    <2>. QED
      BY <1>3, <2>2 DEF Approve
  <1>. QED
    BY <1>1, <1>2, <1>3 DEF Change

-----------------------------------------------------------------------------
(* Types.                                                                  *)

Types == TypeOK /\ StatusIsKnown

LEMMA InitTypes == Init => Types
  <1>1. \E b \in Binding : b.key \in General
    <2>1. PICK g \in General, t \in Target : TRUE
      BY ConstantsAssumption
    <2>2. [key |-> g, target |-> t] \in Binding
      BY DEF Binding
    <2>. QED
      BY <2>2
  <1>2. {CHOOSE b \in Binding : b.key \in General} \subseteq Binding
    BY <1>1
  <1>. SUFFICES ASSUME Init
                PROVE  Types
    OBVIOUS
  <1>3. config \in Config
    BY <1>2 DEF Init, Config
  <1>4. command \in [at : {"none", "clear", "persist"},
                     part : {"none", "routes", "policy", "approved"}]
    BY DEF Init, NoCommand
  <1>5. /\ sent \in 0..MaxMessage /\ stored \in 0..MaxMessage + 1
        /\ changes \in 0..MaxChange /\ faults \in 0..MaxFault
    BY ConstantsAssumption DEF Init
  <1>6. poll \in [offset : 0..MaxMessage + 1, next : Message \cup {0, MaxMessage + 1},
                  last : 0..MaxMessage]
    BY ConstantsAssumption DEF Init
  <1>7. cache \in [Message -> Answer \cup {NoAnswer}] /\ call \in [Call -> CallState \cup {Idle}]
    BY DEF Init
  <1>. QED
    BY <1>3, <1>4, <1>5, <1>6, <1>7 DEF Init, Types, TypeOK, StatusIsKnown, At, Busy

\* A bound that the model counts up to.
LEMMA Counted ==
  ASSUME NEW max \in Nat, NEW n \in 0..max, n < max
  PROVE  n + 1 \in 0..max
  OBVIOUS

LEMMA StepTypes == Types /\ [Next]_vars => Types'
  <1>. SUFFICES ASSUME Types, [Next]_vars
                PROVE  Types'
    OBVIOUS
  <1>0. TypeOK /\ StatusIsKnown /\ MaxMessage \in Nat \ {0} /\ MaxChange \in Nat /\ MaxFault \in Nat
    BY ConstantsAssumption DEF Types
  <1> USE DEF Rest, talk
  <1>1. CASE Change
    <2>1. PICK cfg \in Config : Configure(cfg)
      BY <1>0, <1>1, ChangeShape
    <2>2. changes' \in 0..MaxChange
      BY <1>0, <1>1, Counted DEF Change, TypeOK
    <2>3. command' \in [at : {"none", "clear", "persist"},
                        part : {"none", "routes", "policy", "approved"}]
      <3>1. \A part \in {"none", "routes", "policy", "approved"} :
              [at |-> "clear", part |-> part] \in [at : {"none", "clear", "persist"},
                                                   part : {"none", "routes", "policy", "approved"}]
        OBVIOUS
      <3>. QED
        BY <1>1, <3>1 DEF Change
    <2>4. TypeOK'
      BY <1>0, <1>1, <2>1, <2>2, <2>3, ConfigureShape DEF Change, TypeOK
    <2>5. StatusIsKnown'
      BY <1>0, <2>1, ConfigureShape DEF StatusIsKnown, At, Busy, Overtaken, CallState, TypeOK
    <2>. QED
      BY <2>4, <2>5 DEF Types
  <1>2. CASE DeleteAccount
    <2>0. config \in Config /\ file \in Config
      BY <1>0 DEF TypeOK
    <2>1. [routes |-> {}, policy |-> "pairing", approved |-> FALSE] \in Config
      BY DEF Config
    <2>2. changes' \in 0..MaxChange
      BY <1>0, <1>2, Counted DEF DeleteAccount, TypeOK
    <2>3. file' \in Config
      BY <2>0, <1>2 DEF DeleteAccount, Config
    <2>4. TypeOK'
      BY <1>0, <1>2, <2>1, <2>2, <2>3, ConfigureShape DEF DeleteAccount, TypeOK
    <2>5. StatusIsKnown'
      BY <1>0, <1>2, <2>1, ConfigureShape
      DEF DeleteAccount, StatusIsKnown, At, Busy, Overtaken, CallState, TypeOK
    <2>. QED
      BY <2>4, <2>5 DEF Types
  <1>3. CASE Clear
    <2>1. command' \in [at : {"none", "clear", "persist"},
                        part : {"none", "routes", "policy", "approved"}]
      BY <1>0, <1>3 DEF Clear, TypeOK
    <2>. QED
      BY <1>0, <1>3, <2>1 DEF Clear, Types, TypeOK, StatusIsKnown, At, Busy
  <1>4. CASE Persist
    <2>0. config \in Config /\ file \in Config
      BY <1>0 DEF TypeOK
    <2>1. [file EXCEPT !.routes = config.routes] \in Config
      BY <2>0 DEF Config
    <2>2. [file EXCEPT !.policy = config.policy] \in Config
      BY <2>0 DEF Config
    <2>3. [file EXCEPT !.approved = TRUE] \in Config
      BY <2>0 DEF Config
    <2>4. file' \in Config
      BY <1>4, <2>0, <2>1, <2>2, <2>3 DEF Persist
    <2>5. faults' \in 0..MaxFault
      BY <1>0, <1>4, Counted DEF Persist, TypeOK
    <2>6. command' \in [at : {"none", "clear", "persist"},
                        part : {"none", "routes", "policy", "approved"}]
      BY <1>4 DEF Persist, NoCommand
    <2>. QED
      BY <1>0, <1>4, <2>4, <2>5, <2>6 DEF Persist, Types, TypeOK, StatusIsKnown, At, Busy
  <1>5. CASE Arrive
    <2>1. sent' \in 0..MaxMessage
      BY <1>0, <1>5 DEF Arrive, TypeOK
    <2>. QED
      BY <1>0, <1>5, <2>1 DEF Arrive, Types, TypeOK, StatusIsKnown, At, Busy
  <1>6. CASE Fetch
    <2>0. /\ sent \in 0..MaxMessage /\ stored \in 0..MaxMessage + 1
          /\ poll.offset \in 0..MaxMessage + 1
      BY <1>0 DEF TypeOK
    <2>1. PICK from \in 0..MaxMessage + 1, first \in Message :
            poll' = [offset |-> from, next |-> first, last |-> sent]
      <3> DEFINE from == IF poll.offset # 0 THEN poll.offset ELSE stored
                 first == IF from = 0 THEN 1 ELSE from
      <3>1. from \in 0..MaxMessage + 1
        BY <2>0
      <3>2. first <= sent /\ poll' = [offset |-> from, next |-> first, last |-> sent]
        BY <1>6 DEF Fetch
      <3> HIDE DEF from
      <3>3. first \in Message
        BY <1>0, <2>0, <3>1, <3>2 DEF Message
      <3>. QED
        BY <3>1, <3>2, <3>3
    <2>2. poll' \in [offset : 0..MaxMessage + 1, next : Message \cup {0, MaxMessage + 1},
                     last : 0..MaxMessage]
      BY <2>0, <2>1
    <2>. QED
      BY <1>0, <1>6, <2>2 DEF Fetch, Types, TypeOK, StatusIsKnown, At, Busy
  <1>7. CASE Advance
    <2>0. poll.last \in 0..MaxMessage
      BY <1>0 DEF TypeOK
    <2>1. poll.last + 1 \in 0..MaxMessage + 1
      BY <1>0, <2>0
    <2>2. poll' \in [offset : 0..MaxMessage + 1, next : Message \cup {0, MaxMessage + 1},
                     last : 0..MaxMessage]
      BY <1>0, <1>7, <2>1 DEF Advance
    <2>3. stored' \in 0..MaxMessage + 1 /\ faults' \in 0..MaxFault
      BY <1>0, <1>7, <2>1, Counted DEF Advance, TypeOK
    <2>. QED
      BY <1>0, <1>7, <2>2, <2>3 DEF Advance, Types, TypeOK, StatusIsKnown, At, Busy
  <1>8. CASE Restart
    <2>1. poll' \in [offset : 0..MaxMessage + 1, next : Message \cup {0, MaxMessage + 1},
                     last : 0..MaxMessage]
      BY <1>0, <1>8 DEF Restart
    <2>2. faults' \in 0..MaxFault
      BY <1>0, <1>8, Counted DEF Restart, TypeOK
    <2>3. command' \in [at : {"none", "clear", "persist"},
                        part : {"none", "routes", "policy", "approved"}]
      BY <1>8 DEF Restart, NoCommand
    <2>. QED
      BY <1>0, <1>8, <2>1, <2>2, <2>3 DEF Restart, Types, TypeOK, StatusIsKnown, At, Busy
  <1>9. ASSUME NEW c \in Call, CallStep(c)
        PROVE  Types'
    <2>0. Busy(c) /\ call[c] \in CallState /\ call[c].m \in Message
      BY <1>0, <1>9, IdleIsNoCall
      DEF CallStep, Interact, Policy, Allow, Dispatch, Store, At, Busy, TypeOK, CallState
    <2>1. ASSUME NEW m \in Message, NEW n \in Message, Type(m, n)
          PROVE  effects' \in [Message -> 0..2] /\ unfounded' \subseteq Message
      BY <1>0, <2>1 DEF Type, TypeOK
    <2>2. ASSUME NEW status \in {"done", "rejected", "failed"}, Answering(c, status)
          PROVE  call' \in [Call -> CallState \cup {Idle}] /\ StatusIsKnown'
      BY <1>0, <2>0, <2>2, AnsweringShape DEF GoesOn, Moves, StatusIsKnown, At, Busy
    <2>3. ASSUME NEW at \in {"policy", "dispatch"}, To(c, at)
          PROVE  call' \in [Call -> CallState \cup {Idle}] /\ StatusIsKnown'
      BY <1>0, <2>0, <2>3, ToShape DEF GoesOn, Moves, StatusIsKnown, At, Busy
    <2>4. ASSUME Moves(c, Idle)
          PROVE  call' \in [Call -> CallState \cup {Idle}] /\ StatusIsKnown'
      BY <1>0, <2>0, <2>4 DEF Moves, StatusIsKnown, At, Busy, CallState
    <2>5. CASE Interact(c)
      <3>0. UNCHANGED <<Rest, cache, sessions, admitted>>
        BY <2>5 DEF Interact
      <3>1. effects' \in [Message -> 0..2] /\ unfounded' \subseteq Message
        <4>1. CASE NothingTyped
          BY <1>0, <4>1 DEF NothingTyped, TypeOK
        <4>2. CASE \E n \in sessions : Type(call[c].m, n)
          BY <1>0, <2>0, <2>1, <4>2 DEF TypeOK
        <4>. QED
          BY <2>5, <4>1, <4>2 DEF Interact
      <3>2. excused' \subseteq Message
        BY <1>0, <2>0, <2>5 DEF Interact, TypeOK
      <3>3. CASE Route(c) /\ UNCHANGED <<settled, poll, faults>>
        BY <1>0, <2>2, <2>3, <3>0, <3>1, <3>2, <3>3 DEF Route, Types, TypeOK
      <3>4. CASE /\ Answering(c, "done") \/ Answering(c, "failed")
                 /\ UNCHANGED <<settled, poll, faults>>
        BY <1>0, <2>2, <3>0, <3>1, <3>2, <3>4 DEF Types, TypeOK
      <3>5. CASE Fails(c)
        BY <1>0, <2>0, <2>4, <3>0, <3>1, <3>2, <3>5, FailsShape DEF Types, TypeOK
      <3>. QED
        BY <2>5, <3>3, <3>4, <3>5 DEF Interact
    <2>6. CASE Policy(c)
      BY <1>0, <2>6, PolicyShape DEF Policy, GoesOn, Moves, Types, TypeOK, StatusIsKnown, At, Busy
    <2>7. CASE Allow(c)
      BY <1>0, <2>7, AllowShape DEF Allow, GoesOn, Moves, Types, TypeOK, StatusIsKnown, At, Busy
    <2>8. CASE Dispatch(c)
      <3>1. effects' \in [Message -> 0..2] /\ unfounded' \subseteq Message
        BY <1>0, <2>0, <2>1, <2>8 DEF Dispatch, NothingTyped, TypeOK
      <3>2. \E status \in {"done", "failed"} : Answering(c, status)
        BY <2>8 DEF Dispatch
      <3>3. sessions' \subseteq Message /\ admitted' \subseteq Message
        BY <1>0, <2>0, <2>8 DEF Dispatch, Bind, TypeOK
      <3>. QED
        BY <1>0, <2>2, <2>8, <3>1, <3>2, <3>3 DEF Dispatch, Types, TypeOK
    <2>9. CASE Store(c)
      <3> DEFINE m == call[c].m
                 status == call[c].status
      <3>1. status \in {"done", "rejected", "failed"}
        BY <1>0, <2>0, <2>9 DEF Store, StatusIsKnown, CallState
      <3>2. (call[c].late /\ status = "rejected") \in BOOLEAN
        OBVIOUS
      <3>3. cache' \in [Message -> Answer \cup {NoAnswer}]
        <4>1. \A l \in BOOLEAN : [status |-> status, late |-> l] \in Answer
          BY <3>1 DEF Answer
        <4>2. [status |-> status, late |-> call[c].late /\ status = "rejected"] \in Answer
          BY <3>2, <4>1
        <4>. QED
          BY <1>0, <2>9, <4>2 DEF Store, TypeOK
      <3>4. PICK ok \in BOOLEAN : Over(c, call[c].m, ok)
        BY <2>9 DEF Store
      <3>. QED
        BY <1>0, <2>0, <2>4, <2>9, <3>3, <3>4, OverShape DEF Store, Types, TypeOK
    <2>. QED
      BY <1>9, <2>5, <2>6, <2>7, <2>8, <2>9 DEF CallStep
  <1>10. ASSUME NEW c \in Call, NEW m \in Message, (Handle(c) /\ m = poll.next) \/ Webhook(c, m)
         PROVE  Types'
    <2>1. CASE Over(c, m, TRUE) /\ UNCHANGED excused
      <3>1. UNCHANGED <<Rest, cache, effects, talk>>
        BY <1>10 DEF Handle, Webhook
      <3>. QED
        BY <1>0, <2>1, <3>1, OverShape DEF Types, TypeOK, StatusIsKnown, At, Busy, Moves
    <2>2. CASE Begin(c, m) /\ UNCHANGED <<settled, poll, faults>>
      <3>1. UNCHANGED <<Rest, cache, effects, talk>>
        BY <1>10 DEF Handle, Webhook
      <3>. QED
        BY <1>0, <2>2, <3>1, BeginShape DEF Types, TypeOK, StatusIsKnown, At, Busy, Moves
    <2>. QED
      BY <1>10, <2>1, <2>2 DEF Handle, Webhook
  <1>11. ASSUME NEW c \in Call, Handle(c)
         PROVE  poll.next \in Message
    BY <1>0, <1>11 DEF Handle, TypeOK, Message
  <1>12. CASE UNCHANGED vars
    BY <1>0, <1>12 DEF vars, Types, TypeOK, StatusIsKnown, At, Busy
  <1>13. CASE Relay
    BY <1>0, <1>13 DEF Relay, Types, TypeOK, StatusIsKnown, At, Busy
  <1>. QED
    BY <1>1, <1>2, <1>3, <1>4, <1>5, <1>6, <1>7, <1>8, <1>9, <1>10, <1>11, <1>12, <1>13 DEF Next

\* Every variable has its type, and a call that has to store its answer has one.
THEOREM TypeCorrect == Spec => [](TypeOK /\ StatusIsKnown)
  BY InitTypes, StepTypes, PTL DEF Spec, Types

-----------------------------------------------------------------------------
(* What the steps of the transports have in common.                        *)

\* A message is taken up: from the cache, or by a call.
TakeUp(c, m) ==
  /\ ~Busy(c) /\ UNCHANGED <<Rest, cache, effects, talk>>
  /\ IF Hit(m) THEN Over(c, m, TRUE) /\ UNCHANGED excused
     ELSE Begin(c, m) /\ UNCHANGED <<settled, poll, faults>>

LEMMA TakesUp ==
  ASSUME TypeOK, NEW c \in Call, NEW m \in Message, (Handle(c) /\ m = poll.next) \/ Webhook(c, m)
  PROVE  TakeUp(c, m)
  BY DEF Handle, Webhook, TakeUp

LEMMA NextIsMessage ==
  ASSUME TypeOK, NEW c \in Call, Handle(c)
  PROVE  poll.next \in Message
  BY ConstantsAssumption DEF Handle, TypeOK, Message

LEMMA CallStepIsBusy ==
  ASSUME TypeOK, NEW c \in Call, CallStep(c)
  PROVE  Busy(c) /\ call[c] \in CallState /\ call[c].m \in Message
  BY DEF CallStep, Interact, Policy, Allow, Dispatch, Store, At, Busy, TypeOK, CallState

\* A call that is over, and another that begins, for the others.
LEMMA HitShape ==
  ASSUME TypeOK, NEW c \in Call, NEW m \in Message, ~Busy(c), Over(c, m, TRUE)
  PROVE  \A d \in Call : call'[d] = call[d]
  BY OverShape DEF Moves, Busy

-----------------------------------------------------------------------------
(* Who is let in.                                                          *)

LEMMA AccessSame ==
  ASSUME Access, UNCHANGED config, \A c \in Call : call'[c] = call[c]
  PROVE  Access'
  <1>1. Allows(config') = Allows(config)
    OBVIOUS
  <1>. QED
    BY <1>1 DEF Access, SeenCovers, PolicyWasSeen, DispatchIsAdmitted, At, Busy

LEMMA AccessConfigured ==
  ASSUME TypeOK, Access, NEW cfg \in Config, Configure(cfg)
  PROVE  Access'
  <1>1. \A c \in Call : IF Busy(c) THEN Overtaken(c) ELSE call'[c] = Idle
    BY ConfigureShape
  <1>2. \A c \in Call : Busy(c)' => Busy(c) /\ Overtaken(c)
    BY <1>1 DEF Busy
  <1>3. SeenCovers'
    BY <1>2 DEF SeenCovers, Overtaken
  <1>4. PolicyWasSeen' /\ DispatchIsAdmitted'
    BY <1>2 DEF Access, PolicyWasSeen, DispatchIsAdmitted, Admitted, Overtaken, At
  <1>. QED
    BY <1>3, <1>4 DEF Access

\* A call that is over has nothing to show.
LEMMA AccessOver ==
  ASSUME Access, NEW c \in Call, Moves(c, Idle), UNCHANGED config
  PROVE  Access'
  <1>1. Allows(config') = Allows(config)
    OBVIOUS
  <1>. QED
    BY <1>1 DEF Moves, Access, SeenCovers, PolicyWasSeen, DispatchIsAdmitted, At, Busy

\* Nor has one that stores its answer.
LEMMA AccessStore ==
  ASSUME Access, NEW c \in Call, GoesOn(c, "store"), UNCHANGED config
  PROVE  Access'
  <1>1. Allows(config') = Allows(config)
    OBVIOUS
  <1>. QED
    BY <1>1 DEF GoesOn, Moves, Access, SeenCovers, PolicyWasSeen, DispatchIsAdmitted, At, Busy

LEMMA PolicyAllows ==
  ASSUME TypeOK
  PROVE  /\ config.policy = "open" => "open" \in Allows(config)
         /\ config.policy \in {"allowlist", "pairing"} => "listed" \in Allows(config)
         /\ config.approved => "approved" \in Allows(config)
  BY DEF Allows

LEMMA StepAccess ==
  ASSUME Types, Access, [Next]_vars
  PROVE  Access'
  <1> USE DEF Rest, talk
  <1>0. TypeOK
    BY DEF Types
  <1>1. CASE Change
    BY <1>0, <1>1, ChangeShape, AccessConfigured
  <1>2. CASE DeleteAccount
    <2>1. [routes |-> {}, policy |-> "pairing", approved |-> FALSE] \in Config
      BY DEF Config
    <2>. QED
      BY <1>0, <1>2, <2>1, AccessConfigured DEF DeleteAccount
  <1>3. CASE Clear \/ Persist \/ Relay \/ Arrive \/ Fetch \/ Advance \/ UNCHANGED vars
    <2>1. UNCHANGED <<config, call>>
      BY <1>3 DEF Clear, Persist, Relay, Arrive, Fetch, Advance, vars
    <2>. QED
      BY <2>1, AccessSame
  <1>4. CASE Restart
    BY <1>4 DEF Restart, Access, SeenCovers, PolicyWasSeen, DispatchIsAdmitted, At, Busy
  <1>5. ASSUME NEW c \in Call, CallStep(c)
        PROVE  Access'
    <2>0. Busy(c) /\ call[c] \in CallState
      BY <1>0, <1>5, CallStepIsBusy
    <2>1. UNCHANGED config
      BY <1>5 DEF CallStep, Interact, Policy, Allow, Dispatch, Store
    <2>2. Allows(config') = Allows(config) /\ (UNCHANGED config <=> TRUE)
      BY <2>1
    <2>3. ASSUME NEW status \in {"done", "rejected", "failed"}, Answering(c, status)
          PROVE  Access'
      BY <1>0, <2>0, <2>1, <2>3, AnsweringShape, AccessStore
    <2>4. ASSUME To(c, "policy"), call[c].at = "interact"
          PROVE  Access'
      <3>1. GoesOn(c, "policy") /\ call'[c].seen = call[c].seen
        BY <1>0, <2>0, <2>4, ToShape
      <3>. QED
        BY <2>0, <2>2, <2>4, <3>1
        DEF GoesOn, Moves, Access, SeenCovers, PolicyWasSeen, DispatchIsAdmitted, At, Busy
    <2>5. CASE Interact(c)
      <3>1. CASE Route(c)
        BY <2>3, <2>4, <2>5, <3>1 DEF Route, Interact, At
      <3>2. CASE Fails(c)
        BY <1>0, <2>0, <2>1, <3>2, FailsShape, AccessOver
      <3>. QED
        BY <2>3, <2>5, <3>1, <3>2 DEF Interact
    <2>6. CASE Policy(c)
      <3>1. GoesOn(c, "allow") /\ call'[c].policy = config.policy /\ call'[c].seen = call[c].seen
        BY <1>0, <2>6, PolicyShape
      <3>2. Allows(config) \subseteq call[c].seen
        BY <2>0, <2>6 DEF Policy, At, Access, SeenCovers
      <3>3. SeenCovers' /\ DispatchIsAdmitted'
        BY <2>2, <3>1, <3>2
        DEF GoesOn, Moves, Access, SeenCovers, PolicyWasSeen, DispatchIsAdmitted, At, Busy
      <3>4. PolicyWasSeen'
        BY <1>0, <3>1, <3>2, PolicyAllows DEF GoesOn, Moves, Access, PolicyWasSeen, At, Busy
      <3>. QED
        BY <3>3, <3>4 DEF Access
    <2>7. CASE Allow(c)
      <3>1. CASE GoesOn(c, "store")
        BY <2>1, <3>1, AccessStore
      <3>2. CASE /\ call[c].policy = "open" \/ (call[c].policy # "disabled" /\ config.approved)
                 /\ GoesOn(c, "dispatch") /\ call'[c].seen = call[c].seen
        <4>1. Allows(config) \subseteq call[c].seen
          BY <2>0, <2>7 DEF Allow, At, Access, SeenCovers
        <4>2. /\ call[c].policy = "open" => "open" \in call[c].seen
              /\ call[c].policy \in {"allowlist", "pairing"} => "listed" \in call[c].seen
          BY <2>7 DEF Allow, Access, PolicyWasSeen
        <4>3. call[c].policy \in {"disabled", "open", "allowlist", "pairing"}
          BY <2>0, ConstantsAssumption DEF CallState
        <4>4. Admitted(call[c].seen)
          BY <1>0, <3>2, <4>1, <4>2, <4>3, PolicyAllows DEF Admitted
        <4>5. Admitted(call'[c].seen)
          BY <3>2, <4>4
        <4>6. DispatchIsAdmitted'
          BY <3>2, <4>5 DEF GoesOn, Moves, Access, DispatchIsAdmitted, At, Busy
        <4>7. SeenCovers' /\ PolicyWasSeen'
          BY <2>2, <3>2, <4>1 DEF GoesOn, Moves, Access, SeenCovers, PolicyWasSeen, At, Busy
        <4>. QED
          BY <4>6, <4>7 DEF Access
      <3>. QED
        BY <1>0, <2>7, <3>1, <3>2, AllowShape
    <2>8. CASE Dispatch(c)
      BY <2>3, <2>8 DEF Dispatch
    <2>9. CASE Store(c)
      <3>1. PICK ok \in BOOLEAN : Over(c, call[c].m, ok)
        BY <2>9 DEF Store
      <3>. QED
        BY <1>0, <1>5, <2>1, <3>1, CallStepIsBusy, OverShape, AccessOver
    <2>. QED
      BY <1>5, <2>5, <2>6, <2>7, <2>8, <2>9 DEF CallStep
  <1>6. ASSUME NEW c \in Call, NEW m \in Message, TakeUp(c, m)
        PROVE  Access'
    <2>1. CASE Over(c, m, TRUE)
      BY <1>0, <1>6, <2>1, HitShape, AccessSame DEF TakeUp
    <2>2. CASE Begin(c, m)
      <3>1. Allows(config') = Allows(config)
        BY <1>6 DEF TakeUp
      <3>. QED
        BY <1>0, <2>2, <3>1, BeginShape
        DEF Moves, Access, SeenCovers, PolicyWasSeen, DispatchIsAdmitted, At, Busy
    <2>. QED
      BY <1>6, <2>1, <2>2 DEF TakeUp
  <1>. QED
    BY <1>0, <1>1, <1>2, <1>3, <1>4, <1>5, <1>6, TakesUp, NextIsMessage DEF Next

\* A terminal is typed into by a call that was let in, or through a session.
LEMMA StepConversations ==
  ASSUME Types, Access, Conversations, [Next]_vars
  PROVE  Conversations'
  <1> USE DEF Rest, talk
  <1>1. ASSUME sessions' \subseteq sessions, UNCHANGED <<admitted, unfounded>>
        PROVE  Conversations'
    BY <1>1 DEF Conversations, AdmittedOnly
  <1>2. CASE \/ Change \/ DeleteAccount \/ Clear \/ Persist \/ Relay \/ Arrive \/ Fetch \/ Advance
             \/ Restart \/ UNCHANGED vars
    <2>1. sessions' \subseteq sessions /\ UNCHANGED <<admitted, unfounded>>
      BY <1>2 DEF Change, DeleteAccount, Clear, Persist, Relay, Arrive, Fetch, Advance, Restart, vars
    <2>. QED
      BY <1>1, <2>1
  <1>3. ASSUME NEW c \in Call, NEW m \in Message, Handle(c) \/ Webhook(c, m)
        PROVE  Conversations'
    BY <1>1, <1>3 DEF Handle, Webhook
  <1>4. ASSUME NEW c \in Call, Policy(c) \/ Allow(c) \/ Store(c)
        PROVE  Conversations'
    BY <1>1, <1>4 DEF Policy, Allow, Store
  <1>5. ASSUME NEW c \in Call, Interact(c)
        PROVE  Conversations'
    <2>1. UNCHANGED <<sessions, admitted>>
      BY <1>5 DEF Interact
    <2>2. NothingTyped \/ \E n \in sessions : Type(call[c].m, n)
      BY <1>5 DEF Interact
    <2>3. UNCHANGED unfounded
      BY <2>1, <2>2 DEF NothingTyped, Type, Conversations
    <2>. QED
      BY <1>1, <2>1, <2>3
  <1>6. ASSUME NEW c \in Call, Dispatch(c)
        PROVE  Conversations'
    <2>1. admitted' = admitted \cup {call[c].m}
      BY <1>6 DEF Dispatch, Access, DispatchIsAdmitted
    <2>2. UNCHANGED unfounded
      BY <1>6, <2>1 DEF Dispatch, NothingTyped, Type
    <2>3. sessions' \subseteq sessions \cup {call[c].m}
      BY <1>6 DEF Dispatch, Bind
    <2>. QED
      BY <2>1, <2>2, <2>3 DEF Conversations, AdmittedOnly
  <1>. QED
    BY <1>2, <1>3, <1>4, <1>5, <1>6, ConstantsAssumption DEF Next, CallStep, Message

-----------------------------------------------------------------------------
(* What is typed twice.                                                    *)

\* The message is typed, once more.
Counts(m) == effects' = [effects EXCEPT ![m] = IF @ = 0 THEN 1 ELSE 2]

\* What a call leaves behind goes through unchanged, its place in the pipeline too.
LEMMA OnceSame ==
  ASSUME Once, UNCHANGED <<effects, excused, cache>>,
         \A c \in Call : Busy(c)' <=> Busy(c),
         \A c \in Call : Busy(c) => call'[c].m = call[c].m /\ call'[c].at = call[c].at
  PROVE  Once'
  <1>1. OneCallEach' /\ NotYetTyped' /\ TypedOnce'
    BY DEF Once, OneCallEach, NotYetTyped, TypedOnce
  <1>2. \A m \in Message : Hit(m)' <=> Hit(m)
    BY DEF Hit
  <1>3. \A c \in Call : At(c, "store")' <=> At(c, "store")
    BY DEF At
  <1>4. \A c \in Call : At(c, "store") => call'[c].m = call[c].m
    BY DEF At
  <1>5. TypedIsHeld'
    BY <1>2, <1>3, <1>4 DEF Once, TypedIsHeld
  <1>. QED
    BY <1>1, <1>5 DEF Once

\* A call goes on; when it types, it stores its answer next.
LEMMA OnceGoesOn ==
  ASSUME TypeOK, Once, NEW c \in Call, Busy(c), call[c].at # "store",
         NEW at, GoesOn(c, at), UNCHANGED <<cache, excused>>,
         effects' = effects \/ (at = "store" /\ Counts(call[c].m))
  PROVE  Once'
  <1> DEFINE m == call[c].m
  <1>0. m \in Message /\ effects \in [Message -> 0..2]
    BY DEF TypeOK, Busy, CallState
  <1>1. /\ \A n \in Message \ {m} : effects'[n] = effects[n]
        /\ effects'[m] > 1 => effects[m] > 0
        /\ at # "store" => effects'[m] = effects[m]
    BY <1>0 DEF Counts
  <1>2. /\ \A d \in Call : Busy(d)' <=> Busy(d)
        /\ \A d \in Call : Busy(d) => call'[d].m = call[d].m
        /\ \A d \in Call \ {c} : call'[d].at = call[d].at
        /\ call'[c].at = at
    BY DEF GoesOn, Moves, Busy
  <1>3. \A n \in Message : Hit(n)' <=> Hit(n)
    BY DEF Hit
  <1>4. OneCallEach'
    BY <1>2 DEF Once, OneCallEach
  <1>5. NotYetTyped'
    <2>1. ASSUME NEW d \in Call, Busy(d)', call'[d].at # "store"
          PROVE  (effects[call[d].m] = 0 \/ call[d].m \in excused)'
      <3>1. CASE d = c
        BY <1>0, <1>1, <1>2, <2>1, <3>1 DEF Once, NotYetTyped
      <3>2. CASE d # c /\ call[d].m = m
        BY <1>2, <2>1, <3>2 DEF Once, OneCallEach
      <3>3. CASE d # c /\ call[d].m # m
        <4>1. call[d].m \in Message
          BY <1>2, <2>1 DEF TypeOK, Busy, CallState
        <4>. QED
          BY <1>1, <1>2, <2>1, <3>3, <4>1 DEF Once, NotYetTyped
      <3>. QED
        BY <3>1, <3>2, <3>3
    <2>. QED
      BY <2>1 DEF NotYetTyped
  <1>6. TypedIsHeld'
    <2>1. ASSUME NEW n \in Message, effects'[n] > 0, n \notin excused, ~Hit(n)
          PROVE  \E d \in Call : At(d, "store")' /\ call'[d].m = n
      <3>1. CASE effects[n] > 0
        <4>1. PICK d \in Call : At(d, "store") /\ call[d].m = n
          BY <2>1, <3>1 DEF Once, TypedIsHeld
        <4>. QED
          BY <1>2, <4>1 DEF At
      <3>2. CASE ~(effects[n] > 0)
        <4>1. n = m /\ at = "store"
          BY <1>0, <1>1, <2>1, <3>2
        <4>. QED
          BY <1>2, <4>1 DEF At
      <3>. QED
        BY <3>1, <3>2
    <2>. QED
      BY <1>3, <2>1 DEF TypedIsHeld
  <1>7. TypedOnce'
    BY <1>0, <1>1 DEF Once, NotYetTyped, TypedOnce
  <1>. QED
    BY <1>4, <1>5, <1>6, <1>7 DEF Once

\* A call that is over leaves its answer in the cache, or a known cause.
LEMMA OnceOver ==
  ASSUME TypeOK, Once, NEW c \in Call, Busy(c), Moves(c, Idle),
         \/ /\ UNCHANGED <<effects, excused>> /\ cache'[call[c].m] # NoAnswer
            /\ \A n \in Message \ {call[c].m} : cache'[n] = cache[n]
         \/ /\ Counts(call[c].m) /\ excused' = excused \cup {call[c].m} /\ UNCHANGED cache
  PROVE  Once'
  <1> DEFINE m == call[c].m
  <1>0. m \in Message /\ effects \in [Message -> 0..2]
    BY DEF TypeOK, Busy, CallState
  <1>1. /\ \A n \in Message \ {m} : effects'[n] = effects[n]
        /\ m \in excused' \/ (effects' = effects /\ cache'[m] # NoAnswer)
        /\ excused \subseteq excused' /\ \A n \in Message \ {m} : n \in excused' => n \in excused
        /\ \A n \in Message \ {m} : cache'[n] = cache[n]
    <2>1. CASE /\ UNCHANGED <<effects, excused>> /\ cache'[m] # NoAnswer
               /\ \A n \in Message \ {m} : cache'[n] = cache[n]
      BY <2>1
    <2>2. CASE Counts(m) /\ excused' = excused \cup {m} /\ UNCHANGED cache
      BY <1>0, <2>2 DEF Counts
    <2>. QED
      BY <2>1, <2>2
  <1>2. /\ \A d \in Call : Busy(d)' => d # c /\ Busy(d)
        /\ \A d \in Call \ {c} : call'[d] = call[d]
    BY DEF Moves, Busy
  <1>3. \A n \in Message \ {m} : Hit(n)' <=> Hit(n)
    BY <1>1 DEF Hit
  <1>4. \A d \in Call : Busy(d) => call[d].m \in Message
    BY DEF TypeOK, Busy, CallState
  <1>5. OneCallEach'
    BY <1>1, <1>2 DEF Once, OneCallEach
  <1>6. NotYetTyped'
    BY <1>0, <1>1, <1>2, <1>4 DEF Once, NotYetTyped
  <1>7. TypedIsHeld'
    <2>1. ASSUME NEW n \in Message, effects'[n] > 0, n \notin excused', ~Hit(n)'
          PROVE  \E d \in Call : At(d, "store")' /\ (call[d].m = n)'
      <3>0. n # m
        BY <1>1, <2>1 DEF Hit
      <3>1. PICK d \in Call : At(d, "store") /\ call[d].m = n
        BY <1>1, <1>3, <2>1, <3>0 DEF Once, TypedIsHeld
      <3>2. d # c /\ call'[d] = call[d]
        BY <1>2, <3>0, <3>1
      <3>. QED
        BY <3>1, <3>2 DEF At, Busy
    <2>. QED
      BY <2>1 DEF TypedIsHeld
  <1>8. TypedOnce'
    BY <1>0, <1>1 DEF Once, TypedOnce
  <1>. QED
    BY <1>5, <1>6, <1>7, <1>8 DEF Once

\* One that fails before it has typed anything leaves nothing to keep.
LEMMA OnceGone ==
  ASSUME TypeOK, Once, NEW c \in Call, call[c].at # "store", Moves(c, Idle),
         UNCHANGED <<effects, excused, cache>>
  PROVE  Once'
  <1>1. /\ \A d \in Call : Busy(d)' => Busy(d)
        /\ \A d \in Call \ {c} : call'[d] = call[d]
        /\ ~Busy(c)'
    BY DEF Moves, Busy
  <1>2. OneCallEach' /\ NotYetTyped' /\ TypedOnce'
    BY <1>1 DEF Once, OneCallEach, NotYetTyped, TypedOnce
  <1>3. \A n \in Message : Hit(n)' <=> Hit(n)
    BY DEF Hit
  <1>4. \A d \in Call : At(d, "store") => At(d, "store")' /\ call'[d].m = call[d].m
    BY <1>1 DEF At, Busy
  <1>5. TypedIsHeld'
    BY <1>3, <1>4 DEF Once, TypedIsHeld
  <1>. QED
    BY <1>2, <1>5 DEF Once

\* A call begins with a message that the cache does not know.
LEMMA OnceBegin ==
  ASSUME TypeOK, Once, NEW c \in Call, NEW m \in Message, ~Busy(c), ~Hit(m), Begin(c, m),
         UNCHANGED <<cache, effects>>
  PROVE  Once'
  <1>0. effects \in [Message -> 0..2]
    BY DEF TypeOK
  <1>1. /\ \A d \in Call \ {c} : call'[d] = call[d]
        /\ call'[c].at = "interact" /\ call'[c].m = m
        /\ excused \subseteq excused'
        /\ \A d \in Call : Busy(d) /\ call[d].m = m => m \in excused'
    BY BeginShape DEF Moves
  <1>2. \A n \in Message : Hit(n)' <=> Hit(n)
    BY DEF Hit
  <1>3. OneCallEach'
    BY <1>1 DEF Once, OneCallEach, Busy
  <1>4. effects[m] = 0 \/ m \in excused'
    <2>1. ASSUME effects[m] > 0, m \notin excused
          PROVE  m \in excused'
      BY <1>1, <2>1 DEF Once, TypedIsHeld, At
    <2>. QED
      BY <1>0, <1>1, <2>1
  <1>5. NotYetTyped'
    BY <1>1, <1>4 DEF Once, NotYetTyped, Busy
  <1>6. TypedIsHeld'
    <2>1. ASSUME NEW n \in Message, effects[n] > 0, n \notin excused, ~Hit(n)
          PROVE  \E d \in Call : At(d, "store")' /\ call'[d].m = n
      <3>1. PICK d \in Call : At(d, "store") /\ call[d].m = n
        BY <2>1 DEF Once, TypedIsHeld
      <3>2. d # c /\ call'[d] = call[d]
        BY <1>1, <3>1 DEF At
      <3>. QED
        BY <3>1, <3>2 DEF At, Busy
    <2>. QED
      BY <1>1, <1>2, <2>1 DEF TypedIsHeld
  <1>7. TypedOnce'
    BY <1>1 DEF Once, TypedOnce
  <1>. QED
    BY <1>3, <1>5, <1>6, <1>7 DEF Once

\* Emptying the cache is a known cause for all that was typed.
LEMMA OnceCleared ==
  ASSUME TypeOK, Once, excused' = excused \cup {m \in Message : effects[m] > 0},
         UNCHANGED effects, UNCHANGED call \/ \A c \in Call : ~Busy(c)'
  PROVE  Once'
  <1>1. \A m \in Message : effects[m] \in 0..2
    BY DEF TypeOK
  <1>2. \A m \in Message : effects'[m] > 0 => m \in excused'
    OBVIOUS
  <1>3. TypedIsHeld' /\ TypedOnce'
    BY <1>1, <1>2 DEF TypedIsHeld, TypedOnce
  <1>4. OneCallEach' /\ NotYetTyped'
    BY DEF Once, OneCallEach, NotYetTyped, Busy
  <1>. QED
    BY <1>3, <1>4 DEF Once

LEMMA OnceConfigured ==
  ASSUME TypeOK, Once, NEW cfg \in Config, Configure(cfg), UNCHANGED <<effects, excused, cache>>
  PROVE  Once'
  <1>1. \A c \in Call : IF Busy(c) THEN Overtaken(c) ELSE call'[c] = Idle
    BY ConfigureShape
  <1>2. \A c \in Call : Busy(c)' <=> Busy(c)
    BY <1>1 DEF Overtaken, Busy
  <1>3. \A c \in Call : Busy(c) => call'[c].m = call[c].m /\ call'[c].at = call[c].at
    BY <1>1 DEF Overtaken
  <1>. QED
    BY <1>2, <1>3, OnceSame

LEMMA StepOnce ==
  ASSUME Types, Once, [Next]_vars
  PROVE  Once'
  <1> USE DEF Rest, talk
  <1>0. TypeOK
    BY DEF Types
  <1>1. CASE Change
    BY <1>0, <1>1, ChangeShape, OnceConfigured DEF Change
  <1>2. CASE DeleteAccount
    <2>1. [routes |-> {}, policy |-> "pairing", approved |-> FALSE] \in Config
      BY DEF Config
    <2>. QED
      BY <1>0, <1>2, <2>1, OnceConfigured DEF DeleteAccount
  <1>3. CASE Persist \/ Relay \/ Arrive \/ Fetch \/ Advance \/ UNCHANGED vars
    <2>1. UNCHANGED <<call, effects, excused, cache>>
      BY <1>3 DEF Persist, Relay, Arrive, Fetch, Advance, vars
    <2>2. \A c \in Call : Busy(c)' <=> Busy(c)
      BY <2>1 DEF Busy
    <2>. QED
      BY <2>1, <2>2, OnceSame
  <1>4. CASE Clear
    BY <1>0, <1>4, OnceCleared DEF Clear
  <1>5. CASE Restart
    <2>1. \A c \in Call : ~Busy(c)'
      BY <1>5 DEF Restart, Busy
    <2>. QED
      BY <1>0, <1>5, <2>1, OnceCleared DEF Restart
  <1>6. ASSUME NEW c \in Call, CallStep(c)
        PROVE  Once'
    <2>0. Busy(c) /\ call[c] \in CallState
      BY <1>0, <1>6, CallStepIsBusy
    <2>1. ASSUME NEW status \in {"done", "rejected", "failed"}, Answering(c, status),
                 call[c].at # "store", UNCHANGED <<cache, excused>>,
                 effects' = effects \/ Counts(call[c].m)
          PROVE  Once'
      BY <1>0, <2>0, <2>1, AnsweringShape, OnceGoesOn
    <2>2. CASE Interact(c)
      <3>0. call[c].at # "store" /\ UNCHANGED cache
        BY <2>2 DEF Interact, At
      <3>1. CASE Route(c) /\ UNCHANGED <<effects, excused>>
        <4>1. CASE To(c, "policy")
          BY <1>0, <2>0, <3>0, <3>1, <4>1, ToShape, OnceGoesOn
        <4>. QED
          BY <2>1, <3>0, <3>1, <4>1 DEF Route
      <3>2. CASE Fails(c) /\ Counts(call[c].m) /\ excused' = excused \cup {call[c].m}
        BY <1>0, <2>0, <3>0, <3>2, FailsShape, OnceOver
      <3>3. CASE Fails(c) /\ UNCHANGED <<effects, excused>>
        BY <1>0, <2>0, <3>0, <3>3, FailsShape, OnceGone
      <3>4. CASE /\ Answering(c, "done") \/ Answering(c, "failed")
                 /\ effects' = effects \/ Counts(call[c].m)
                 /\ UNCHANGED excused
        BY <2>1, <3>0, <3>4
      <3>. QED
        BY <2>2, <3>1, <3>2, <3>3, <3>4 DEF Interact, NothingTyped, Type, Counts
    <2>3. CASE Policy(c)
      BY <1>0, <2>0, <2>3, PolicyShape, OnceGoesOn DEF Policy, At
    <2>4. CASE Allow(c)
      BY <1>0, <2>0, <2>4, AllowShape, OnceGoesOn DEF Allow, At
    <2>5. CASE Dispatch(c)
      BY <2>1, <2>5 DEF Dispatch, NothingTyped, Type, Counts, At
    <2>6. CASE Store(c)
      <3> DEFINE m == call[c].m
                 answer == [status |-> call[c].status,
                            late |-> call[c].late /\ call[c].status = "rejected"]
      <3>1. PICK ok \in BOOLEAN : Over(c, m, ok)
        BY <2>6 DEF Store
      <3>2. Moves(c, Idle)
        BY <1>0, <1>6, <3>1, CallStepIsBusy, OverShape
      <3>3. answer # NoAnswer
        BY DEF NoAnswer
      <3>4. cache' = [cache EXCEPT ![m] = answer]
        BY <2>6 DEF Store
      <3> HIDE DEF answer
      <3>5. cache'[m] # NoAnswer /\ \A n \in Message \ {m} : cache'[n] = cache[n]
        BY <1>0, <2>0, <3>3, <3>4 DEF TypeOK, CallState
      <3>. QED
        BY <1>0, <2>0, <2>6, <3>2, <3>5, OnceOver DEF Store
    <2>. QED
      BY <1>6, <2>2, <2>3, <2>4, <2>5, <2>6 DEF CallStep
  <1>7. ASSUME NEW c \in Call, NEW m \in Message, TakeUp(c, m)
        PROVE  Once'
    <2>1. CASE Over(c, m, TRUE) /\ UNCHANGED excused
      <3>1. \A d \in Call : call'[d] = call[d]
        BY <1>0, <1>7, <2>1, HitShape DEF TakeUp
      <3>2. \A d \in Call : Busy(d)' <=> Busy(d)
        BY <3>1 DEF Busy
      <3>. QED
        BY <1>7, <2>1, <3>1, <3>2, OnceSame DEF TakeUp
    <2>2. CASE Begin(c, m) /\ ~Hit(m)
      BY <1>0, <1>7, <2>2, OnceBegin DEF TakeUp
    <2>. QED
      BY <1>7, <2>1, <2>2 DEF TakeUp
  <1>. QED
    BY <1>0, <1>1, <1>2, <1>3, <1>4, <1>5, <1>6, <1>7, TakesUp, NextIsMessage DEF Next

-----------------------------------------------------------------------------
(* Which rejections the cache keeps.                                       *)

\* A step that leaves the configuration alone, and says what it does to call c.
Continues(c) ==
  /\ \A d \in Call \ {c} : call'[d] = call[d]
  /\ call'[c] = Idle \/ (call'[c].late <=> call[c].late) \/ call'[c].at \notin {"allow", "store"}
  /\ At(c, "allow")' => call'[c].policy = config.policy
  /\ At(c, "store")' /\ ~call'[c].late /\ call'[c].status = "rejected" => ~Admits(config)

LEMMA CurrentContinues ==
  ASSUME Current, UNCHANGED <<config, cache, command>>, NEW c \in Call, Continues(c)
  PROVE  Current'
  <1>1. Admits(config') <=> Admits(config)
    OBVIOUS
  <1>2. ReadIsCurrent'
    BY DEF Current, ReadIsCurrent, Continues, At, Busy
  <1>3. AnswerIsCurrent'
    BY <1>1 DEF Current, AnswerIsCurrent, Continues, At, Busy
  <1>4. RejectionIsCurrent'
    BY <1>1 DEF Current, RejectionIsCurrent, Hit
  <1>. QED
    BY <1>2, <1>3, <1>4 DEF Current

LEMMA CurrentSame ==
  ASSUME Current, UNCHANGED <<config, cache>>, \A c \in Call : call'[c] = call[c],
         command'.at # "clear" => command.at # "clear"
  PROVE  Current'
  <1>1. Admits(config') <=> Admits(config)
    OBVIOUS
  <1>2. ReadIsCurrent' /\ AnswerIsCurrent'
    BY <1>1 DEF Current, ReadIsCurrent, AnswerIsCurrent, At, Busy
  <1>3. RejectionIsCurrent'
    BY <1>1 DEF Current, RejectionIsCurrent, Hit
  <1>. QED
    BY <1>2, <1>3 DEF Current

\* Every call in progress is overtaken; the cache is about to be cleared, or nothing is
\* admitted any more.
LEMMA CurrentConfigured ==
  ASSUME TypeOK, Current, NEW cfg \in Config, Configure(cfg), UNCHANGED cache,
         command'.at = "clear" \/ ~Admits(cfg)
  PROVE  Current'
  <1>1. \A c \in Call : IF Busy(c) THEN Overtaken(c) ELSE call'[c] = Idle
    BY ConfigureShape
  <1>2. config' = cfg
    BY ConfigureShape
  <1>3. Admits(config') <=> Admits(cfg)
    BY <1>2
  <1>4. ReadIsCurrent' /\ AnswerIsCurrent'
    BY <1>1 DEF ReadIsCurrent, AnswerIsCurrent, At, Busy, Overtaken
  <1>5. RejectionIsCurrent'
    BY <1>3 DEF RejectionIsCurrent
  <1>. QED
    BY <1>4, <1>5 DEF Current

\* Without routes nobody is admitted.
LEMMA NoRouteAdmitsNobody ==
  ASSUME NEW cfg, cfg.routes = {}
  PROVE  ~Admits(cfg)
  <1>1. {b.target : b \in Top(cfg.routes)} = {}
    BY DEF Top
  <1>2. Cardinality({b.target : b \in Top(cfg.routes)}) = 0
    BY <1>1, FS_EmptySet
  <1>. QED
    BY <1>2 DEF Admits, Routed

\* What is_external_allowed turns away, the configuration that it read does not admit.
LEMMA NotAllowedIsNotAdmitted ==
  ASSUME TypeOK,
         ~(config.policy = "open" \/ (config.policy # "disabled" /\ config.approved))
  PROVE  ~Admits(config)
  BY DEF Admits, Admitted, Allows

LEMMA StepCurrent ==
  ASSUME Types, Current, [Next]_vars
  PROVE  Current'
  <1> USE DEF Rest, talk
  <1>0. TypeOK
    BY DEF Types
  <1>1. CASE Change
    <2>1. command'.at = "clear" /\ UNCHANGED cache
      BY <1>1 DEF Change
    <2>. QED
      BY <1>0, <1>1, <2>1, ChangeShape, CurrentConfigured
  <1>2. CASE DeleteAccount
    <2> DEFINE cfg == [routes |-> {}, policy |-> "pairing", approved |-> FALSE]
    <2>1. cfg \in Config /\ cfg.routes = {}
      BY DEF Config
    <2>2. Configure(cfg) /\ UNCHANGED cache
      BY <1>2 DEF DeleteAccount
    <2> HIDE DEF cfg
    <2>. QED
      BY <1>0, <2>1, <2>2, CurrentConfigured, NoRouteAdmitsNobody
  <1>3. CASE Persist \/ Relay \/ Arrive \/ Fetch \/ Advance \/ UNCHANGED vars
    <2>1. UNCHANGED <<call, config, cache>>
      BY <1>3 DEF Persist, Relay, Arrive, Fetch, Advance, vars
    <2>2. command'.at # "clear" => command.at # "clear"
      BY <1>3 DEF Persist, Relay, Arrive, Fetch, Advance, vars
    <2>. QED
      BY <2>1, <2>2, CurrentSame
  <1>4. CASE Clear
    <2>1. UNCHANGED <<call, config>>
      BY <1>4 DEF Clear
    <2>2. \A m \in Message : ~Hit(m)'
      BY <1>4 DEF Clear, Hit
    <2>3. Admits(config') <=> Admits(config)
      BY <2>1
    <2>4. ReadIsCurrent' /\ AnswerIsCurrent'
      BY <2>1, <2>3 DEF Current, ReadIsCurrent, AnswerIsCurrent, At, Busy
    <2>. QED
      BY <2>2, <2>4 DEF Current, RejectionIsCurrent
  <1>5. CASE Restart
    <2>1. \A c \in Call : ~Busy(c)'
      BY <1>5 DEF Restart, Busy
    <2>2. \A m \in Message : ~Hit(m)'
      BY <1>5 DEF Restart, Hit
    <2>. QED
      BY <2>1, <2>2 DEF Current, ReadIsCurrent, AnswerIsCurrent, RejectionIsCurrent, At
  <1>6. ASSUME NEW c \in Call, CallStep(c)
        PROVE  Current'
    <2>0. Busy(c) /\ call[c] \in CallState
      BY <1>0, <1>6, CallStepIsBusy
    <2>1. UNCHANGED <<config, command>>
      BY <1>6 DEF CallStep, Interact, Policy, Allow, Dispatch, Store
    <2>2. ASSUME NEW status \in {"done", "rejected", "failed"}, Answering(c, status),
                 UNCHANGED cache, status = "rejected" => ~Admits(config)
          PROVE  Current'
      <3>1. GoesOn(c, "store") /\ call'[c].status = status
        BY <1>0, <2>0, <2>2, AnsweringShape
      <3>2. Continues(c)
        BY <2>2, <3>1 DEF Continues, GoesOn, Moves, At
      <3>. QED
        BY <2>1, <2>2, <3>2, CurrentContinues
    <2>3. CASE Interact(c)
      <3>0. UNCHANGED cache
        BY <2>3 DEF Interact
      <3>1. CASE Route(c)
        <4>1. CASE To(c, "policy")
          <5>1. GoesOn(c, "policy")
            BY <1>0, <2>0, <4>1, ToShape
          <5>2. Continues(c)
            BY <5>1 DEF Continues, GoesOn, Moves, At
          <5>. QED
            BY <2>1, <3>0, <5>2, CurrentContinues
        <4>2. CASE Answering(c, "rejected") /\ ~Routed(config.routes)
          BY <2>2, <3>0, <4>2 DEF Admits
        <4>. QED
          BY <3>1, <4>1, <4>2 DEF Route
      <3>2. CASE Fails(c)
        <4>1. Moves(c, Idle)
          BY <1>0, <2>0, <3>2, FailsShape
        <4>2. Continues(c)
          BY <4>1 DEF Continues, Moves, At, Busy
        <4>. QED
          BY <2>1, <3>0, <4>2, CurrentContinues
      <3>. QED
        BY <2>2, <2>3, <3>0, <3>1, <3>2 DEF Interact
    <2>4. CASE Policy(c)
      <3>1. GoesOn(c, "allow") /\ call'[c].policy = config.policy
        BY <1>0, <2>4, PolicyShape
      <3>2. Continues(c)
        BY <3>1 DEF Continues, GoesOn, Moves, At
      <3>. QED
        BY <2>1, <2>4, <3>2, CurrentContinues DEF Policy
    <2>5. CASE Allow(c)
      <3>1. CASE GoesOn(c, "dispatch")
        <4>1. Continues(c)
          BY <3>1 DEF Continues, GoesOn, Moves, At
        <4>. QED
          BY <2>1, <2>5, <4>1, CurrentContinues DEF Allow
      <3>2. CASE /\ ~(call[c].policy = "open" \/ (call[c].policy # "disabled" /\ config.approved))
                 /\ GoesOn(c, "store") /\ call'[c].status = "rejected"
        <4>1. ~call'[c].late => call[c].policy = config.policy
          BY <2>5, <3>2 DEF Current, ReadIsCurrent, Allow, GoesOn
        <4>2. ~call'[c].late => ~Admits(config)
          BY <1>0, <3>2, <4>1, NotAllowedIsNotAdmitted
        <4>3. Continues(c)
          BY <3>2, <4>2 DEF Continues, GoesOn, Moves, At
        <4>. QED
          BY <2>1, <2>5, <4>3, CurrentContinues DEF Allow
      <3>. QED
        BY <1>0, <2>5, <3>1, <3>2, AllowShape
    <2>6. CASE Dispatch(c)
      BY <2>2, <2>6 DEF Dispatch
    <2>7. CASE Store(c)
      <3> DEFINE m == call[c].m
                 answer == [status |-> call[c].status,
                            late |-> call[c].late /\ call[c].status = "rejected"]
      <3>1. PICK ok \in BOOLEAN : Over(c, m, ok)
        BY <2>7 DEF Store
      <3>2. Moves(c, Idle)
        BY <1>0, <1>6, <3>1, CallStepIsBusy, OverShape
      <3>3. cache' = [cache EXCEPT ![m] = answer]
        BY <2>7 DEF Store
      <3>4. answer.status = call[c].status
        OBVIOUS
      <3>5. answer.status = "rejected" /\ ~answer.late => ~call[c].late
        OBVIOUS
      <3>6. answer.status = "rejected" /\ ~answer.late => ~Admits(config)
        BY <2>7, <3>4, <3>5 DEF Store, Current, AnswerIsCurrent
      <3>7. Admits(config') <=> Admits(config)
        BY <2>1
      <3> HIDE DEF answer
      <3>8. cache'[m] = answer /\ \A n \in Message \ {m} : cache'[n] = cache[n]
        BY <1>0, <2>0, <3>3 DEF TypeOK, CallState
      <3>9. RejectionIsCurrent'
        BY <2>1, <3>6, <3>7, <3>8 DEF Current, RejectionIsCurrent, Hit
      <3>10. ReadIsCurrent' /\ AnswerIsCurrent'
        BY <2>1, <3>2, <3>7 DEF Moves, Current, ReadIsCurrent, AnswerIsCurrent, At, Busy
      <3>. QED
        BY <3>9, <3>10 DEF Current
    <2>. QED
      BY <1>6, <2>3, <2>4, <2>5, <2>6, <2>7 DEF CallStep
  <1>7. ASSUME NEW c \in Call, NEW m \in Message, TakeUp(c, m)
        PROVE  Current'
    <2>0. UNCHANGED <<config, cache, command>>
      BY <1>7 DEF TakeUp
    <2>1. CASE Over(c, m, TRUE)
      BY <1>0, <1>7, <2>0, <2>1, HitShape, CurrentSame DEF TakeUp
    <2>2. CASE Begin(c, m)
      <3>1. Continues(c)
        BY <1>0, <2>2, BeginShape DEF Continues, Moves, At
      <3>. QED
        BY <2>0, <3>1, CurrentContinues
    <2>. QED
      BY <1>7, <2>1, <2>2 DEF TakeUp
  <1>. QED
    BY <1>0, <1>1, <1>2, <1>3, <1>4, <1>5, <1>6, <1>7, TakesUp, NextIsMessage DEF Next

-----------------------------------------------------------------------------
(* How far the offsets go.                                                 *)

LEMMA BehindSame ==
  ASSUME Behind, UNCHANGED <<transport, poll, stored>>, settled \subseteq settled',
         \A c \in Call : Busy(c)' => Busy(c) /\ call'[c].m = call[c].m
  PROVE  Behind'
  BY DEF Behind, OneAtATime, BatchIsBehind, OffsetIsBehind

\* The message of a call has been dealt with; it is the next of the batch.
LEMMA BehindOver ==
  ASSUME TypeOK, Behind, NEW c \in Call, NEW m \in Message, Moves(c, Idle),
         UNCHANGED <<transport, stored>>, settled \subseteq settled',
         transport = "polling" =>
           /\ poll' = [poll EXCEPT !.next = m + 1] /\ settled' = settled \cup {m}
           /\ m = poll.next
           /\ poll.next <= poll.last
           /\ \A d \in Call : Busy(d) => d = c
  PROVE  Behind'
  <1>. SUFFICES ASSUME transport = "polling"
                PROVE  Behind'
    BY DEF Behind, OneAtATime, BatchIsBehind, OffsetIsBehind
  <1>0. poll.last \in Nat /\ poll.next \in Nat /\ m \in Nat /\ m # 0
    BY ConstantsAssumption DEF TypeOK, Message
  <1>1. poll'.next = m + 1 /\ poll'.last = poll.last /\ poll'.offset = poll.offset
    BY DEF TypeOK
  <1>2. \A d \in Call : ~Busy(d)'
    BY DEF Moves, Busy
  <1>3. OneAtATime'
    BY <1>2 DEF OneAtATime
  <1>4. \A n \in Message : n < m + 1 => n \in settled'
    <2>1. \A n \in Message : n < m => n \in settled
      BY <1>0 DEF Behind, BatchIsBehind
    <2>2. \A n \in Message : n < m + 1 => n < m \/ n = m
      BY <1>0 DEF Message
    <2>. QED
      BY <2>1, <2>2
  <1>5. BatchIsBehind'
    BY <1>0, <1>1, <1>4 DEF BatchIsBehind
  <1>6. OffsetIsBehind'
    BY <1>1 DEF Behind, OffsetIsBehind
  <1>. QED
    BY <1>3, <1>5, <1>6 DEF Behind

LEMMA StepBehind ==
  ASSUME Types, Behind, BusyIsInBatch, [Next]_vars
  PROVE  Behind' /\ BusyIsInBatch'
  <1> USE DEF Rest, talk
  <1>0. TypeOK
    BY DEF Types
  <1>1. ASSUME NEW cfg \in Config, Configure(cfg),
               UNCHANGED <<transport, poll, stored, settled>>
        PROVE  Behind' /\ BusyIsInBatch'
    <2>1. \A c \in Call : IF Busy(c) THEN Overtaken(c) ELSE call'[c] = Idle
      BY <1>0, <1>1, ConfigureShape
    <2>2. \A c \in Call : Busy(c)' => Busy(c) /\ call'[c].m = call[c].m
      BY <2>1 DEF Busy, Overtaken
    <2>. QED
      BY <1>1, <2>2, BehindSame DEF BusyIsInBatch
  <1>2. CASE Change
    BY <1>0, <1>1, <1>2, ChangeShape DEF Change
  <1>3. CASE DeleteAccount
    <2>1. [routes |-> {}, policy |-> "pairing", approved |-> FALSE] \in Config
      BY DEF Config
    <2>. QED
      BY <1>1, <1>3, <2>1 DEF DeleteAccount
  <1>4. CASE Clear \/ Persist \/ Relay \/ Arrive \/ UNCHANGED vars
    <2>1. UNCHANGED <<call, transport, poll, stored, settled>>
      BY <1>4 DEF Clear, Persist, Relay, Arrive, vars
    <2>2. \A c \in Call : Busy(c)' <=> Busy(c)
      BY <2>1 DEF Busy
    <2>. QED
      BY <2>1, <2>2, BehindSame DEF BusyIsInBatch
  <1>5. CASE Fetch
    <2> DEFINE from == IF poll.offset # 0 THEN poll.offset ELSE stored
               first == IF from = 0 THEN 1 ELSE from
    <2>0. /\ sent \in Nat /\ stored \in Nat /\ poll.offset \in Nat /\ Message \subseteq Nat \ {0}
      BY <1>0, ConstantsAssumption DEF TypeOK, Message
    <2>1. /\ first <= sent /\ poll' = [offset |-> from, next |-> first, last |-> sent]
          /\ UNCHANGED <<transport, call, stored, settled>> /\ transport = "polling"
          /\ poll.next = 0
      BY <1>5 DEF Fetch
    <2>2. \A n \in Message : n < from => n \in settled
      BY <2>1 DEF Behind, OffsetIsBehind
    <2>3. from \in Nat /\ first \in Nat
      BY <2>0
    <2>4. \A n \in Message : n < first => n \in settled
      BY <2>0, <2>2
    <2>5. poll'.offset = from /\ poll'.next = first /\ poll'.last = sent
      BY <2>1
    <2> HIDE DEF from, first
    <2>6. \A c \in Call : ~Busy(c)
      <3>1. \A c \in Call : Busy(c) => call[c].m \in Message
        BY <1>0 DEF TypeOK, Busy, CallState
      <3>. QED
        BY <2>0, <2>1, <3>1 DEF Behind, OneAtATime
    <2>7. \A c \in Call : ~Busy(c)'
      BY <2>1, <2>6 DEF Busy
    <2>8. OneAtATime' /\ BusyIsInBatch'
      BY <2>7 DEF OneAtATime, BusyIsInBatch
    <2>9. BatchIsBehind'
      BY <2>0, <2>1, <2>3, <2>4, <2>5 DEF BatchIsBehind
    <2>10. OffsetIsBehind'
      BY <2>1, <2>2, <2>5 DEF Behind, OffsetIsBehind
    <2>. QED
      BY <2>8, <2>9, <2>10 DEF Behind
  <1>6. CASE Advance
    <2>0. poll.last \in Nat
      BY <1>0, ConstantsAssumption DEF TypeOK
    <2>1. /\ transport = "polling" /\ poll.next = poll.last + 1
          /\ poll' = [offset |-> poll.last + 1, next |-> 0, last |-> 0]
          /\ UNCHANGED <<transport, call, settled>>
          /\ stored' = poll.last + 1 \/ stored' = stored
          /\ \A c \in Call : ~Busy(c)
      BY <1>6 DEF Advance
    <2>2. \A n \in Message : n < poll.last + 1 => n \in settled
      BY <2>0, <2>1 DEF Behind, BatchIsBehind
    <2>3. poll'.offset = poll.last + 1 /\ poll'.next = 0
      BY <2>1
    <2>4. \A c \in Call : ~Busy(c)'
      BY <2>1 DEF Busy
    <2>5. OneAtATime' /\ BusyIsInBatch' /\ BatchIsBehind'
      BY <2>3, <2>4 DEF OneAtATime, BusyIsInBatch, BatchIsBehind
    <2>6. OffsetIsBehind'
      BY <2>1, <2>2, <2>3 DEF Behind, OffsetIsBehind
    <2>. QED
      BY <2>5, <2>6 DEF Behind
  <1>7. CASE Restart
    <2>1. /\ poll'.offset = 0 /\ poll'.next = 0 /\ UNCHANGED <<transport, stored, settled>>
          /\ \A n \in Message : ~(n < 0)
      BY <1>7, ConstantsAssumption DEF Restart, Message
    <2>2. \A c \in Call : ~Busy(c)'
      BY <1>7 DEF Restart, Busy
    <2>3. OneAtATime' /\ BusyIsInBatch' /\ BatchIsBehind'
      BY <2>1, <2>2 DEF OneAtATime, BusyIsInBatch, BatchIsBehind
    <2>4. OffsetIsBehind'
      BY <2>1 DEF Behind, OffsetIsBehind
    <2>. QED
      BY <2>3, <2>4 DEF Behind
  <1>8. ASSUME NEW c \in Call, CallStep(c)
        PROVE  Behind' /\ BusyIsInBatch'
    <2>0. Busy(c) /\ call[c] \in CallState /\ call[c].m \in Message
      BY <1>0, <1>8, CallStepIsBusy
    <2>1. UNCHANGED <<transport, stored>>
      BY <1>8 DEF CallStep, Interact, Policy, Allow, Dispatch, Store
    <2>2. ASSUME NEW at, GoesOn(c, at), UNCHANGED <<poll, settled>>
          PROVE  Behind' /\ BusyIsInBatch'
      <3>1. \A d \in Call : Busy(d)' => Busy(d) /\ call'[d].m = call[d].m
        BY <2>0, <2>2 DEF GoesOn, Moves, Busy
      <3>. QED
        BY <2>1, <2>2, <3>1, BehindSame DEF BusyIsInBatch
    <2>3. ASSUME Moves(c, Idle), settled \subseteq settled',
                 transport = "polling" =>
                   poll' = [poll EXCEPT !.next = call[c].m + 1] /\ settled' = settled \cup {call[c].m}
          PROVE  Behind' /\ BusyIsInBatch'
      <3>1. transport = "polling" =>
              /\ call[c].m = poll.next /\ poll.next <= poll.last
              /\ \A d \in Call : Busy(d) => d = c
        BY <2>0 DEF Behind, OneAtATime, BusyIsInBatch
      <3>2. Behind'
        BY <1>0, <2>0, <2>1, <2>3, <3>1, BehindOver
      <3>3. transport = "polling" => \A d \in Call : ~Busy(d)'
        BY <2>3, <3>1 DEF Moves, Busy
      <3>. QED
        BY <2>1, <3>2, <3>3 DEF BusyIsInBatch
    <2>4. CASE Interact(c)
      <3>1. CASE Route(c) /\ UNCHANGED <<settled, poll>>
        <4>1. GoesOn(c, "policy") \/ GoesOn(c, "store")
          BY <1>0, <2>0, <3>1, ToShape, AnsweringShape DEF Route
        <4>. QED
          BY <2>2, <3>1, <4>1
      <3>2. CASE Fails(c)
        BY <1>0, <2>0, <2>3, <3>2, FailsShape
      <3>3. CASE \E status \in {"done", "failed"} : Answering(c, status) /\ UNCHANGED <<poll, settled>>
        BY <1>0, <2>0, <2>2, <3>3, AnsweringShape
      <3>. QED
        BY <2>4, <3>1, <3>2, <3>3 DEF Interact
    <2>5. CASE Policy(c)
      BY <1>0, <2>2, <2>5, PolicyShape DEF Policy
    <2>6. CASE Allow(c)
      BY <1>0, <2>2, <2>6, AllowShape DEF Allow
    <2>7. CASE Dispatch(c)
      <3>1. \E status \in {"done", "failed"} : Answering(c, status)
        BY <2>7 DEF Dispatch
      <3>. QED
        BY <1>0, <2>0, <2>2, <2>7, <3>1, AnsweringShape DEF Dispatch
    <2>8. CASE Store(c)
      <3>1. PICK ok \in BOOLEAN : Over(c, call[c].m, ok)
        BY <2>8 DEF Store
      <3>. QED
        BY <1>0, <2>0, <2>3, <3>1, OverShape
    <2>. QED
      BY <1>8, <2>4, <2>5, <2>6, <2>7, <2>8 DEF CallStep
  <1>9. ASSUME NEW c \in Call, NEW m \in Message, TakeUp(c, m),
               transport = "polling" =>
                 /\ \A d \in Call : ~Busy(d)
                 /\ m = poll.next /\ poll.next <= poll.last
        PROVE  Behind' /\ BusyIsInBatch'
    <2>0. UNCHANGED <<transport, stored>>
      BY <1>9 DEF TakeUp
    <2>1. CASE Over(c, m, TRUE)
      <3>1. Moves(c, Idle) /\ \A d \in Call : call'[d] = call[d]
        BY <1>0, <1>9, <2>1, OverShape, HitShape DEF TakeUp
      <3>2. Behind'
        BY <1>0, <1>9, <2>0, <2>1, <3>1, OverShape, BehindOver
      <3>3. transport = "polling" => \A d \in Call : ~Busy(d)'
        BY <1>9, <3>1 DEF Busy
      <3>. QED
        BY <2>0, <3>2, <3>3 DEF BusyIsInBatch
    <2>2. CASE Begin(c, m) /\ UNCHANGED <<settled, poll>>
      <3>1. /\ \A d \in Call \ {c} : call'[d] = call[d]
            /\ call'[c].m = m
        BY <1>0, <2>2, BeginShape DEF Moves
      <3>2. OneAtATime' /\ BusyIsInBatch'
        BY <1>9, <2>0, <2>2, <3>1 DEF OneAtATime, BusyIsInBatch, Busy
      <3>3. BatchIsBehind' /\ OffsetIsBehind'
        BY <2>0, <2>2 DEF Behind, BatchIsBehind, OffsetIsBehind
      <3>. QED
        BY <3>2, <3>3 DEF Behind
    <2>. QED
      BY <1>9, <2>1, <2>2 DEF TakeUp
  <1>10. ASSUME NEW c \in Call, Handle(c)
         PROVE  Behind' /\ BusyIsInBatch'
    <2>1. poll.next \in Message /\ TakeUp(c, poll.next)
      BY <1>0, <1>10, NextIsMessage, TakesUp
    <2>2. (\A d \in Call : ~Busy(d)) /\ poll.next <= poll.last
      BY <1>0, <1>10, ConstantsAssumption DEF Handle, TypeOK
    <2>. QED
      BY <1>9, <2>1, <2>2
  <1>11. ASSUME NEW c \in Call, NEW m \in Message, Webhook(c, m)
         PROVE  Behind' /\ BusyIsInBatch'
    <2>1. TakeUp(c, m) /\ transport # "polling"
      BY <1>0, <1>11, TakesUp DEF Webhook
    <2>. QED
      BY <1>9, <2>1
  <1>. QED
    BY <1>2, <1>3, <1>4, <1>5, <1>6, <1>7, <1>8, <1>10, <1>11 DEF Next

-----------------------------------------------------------------------------
(* The invariant, and what it says of the properties.                      *)

LEMMA InitIInv == Init => IInv
  <1>. SUFFICES ASSUME Init
                PROVE  IInv
    OBVIOUS
  <1>1. \A c \in Call : ~Busy(c)
    BY DEF Init, Busy
  <1>2. \A m \in Message : ~Hit(m) /\ effects[m] = 0 /\ ~(m < 0)
    BY ConstantsAssumption DEF Init, Hit, Message
  <1>3. stored = 0 /\ poll.offset = 0 /\ poll.next = 0
    BY DEF Init
  <1>4. Access /\ Once
    BY <1>1, <1>2 DEF Access, SeenCovers, PolicyWasSeen, DispatchIsAdmitted,
                      Once, OneCallEach, NotYetTyped, TypedIsHeld, TypedOnce, At
  <1>5. Current /\ Behind /\ BusyIsInBatch
    BY <1>1, <1>2, <1>3 DEF Current, ReadIsCurrent, AnswerIsCurrent, RejectionIsCurrent, At,
                            Behind, OneAtATime, BatchIsBehind, OffsetIsBehind, BusyIsInBatch
  <1>6. Conversations
    BY DEF Init, Conversations, AdmittedOnly
  <1>. QED
    BY <1>4, <1>5, <1>6, InitTypes DEF IInv, Types

\* The inductive invariant holds in every reachable state of the pipeline.
THEOREM IInvCorrect == Spec => []IInv
  <1>1. IInv /\ [Next]_vars => IInv'
    BY StepTypes, StepAccess, StepConversations, StepOnce, StepCurrent, StepBehind DEF IInv, Types
  <1>. QED
    BY <1>1, InitIInv, PTL DEF Spec

\* What is typed into a terminal was let in by a policy and an allowlist that were in force
\* during its call, or goes through a session that was bound for such a message: however
\* commands, other calls, restarts and the relay interleave with it.
THEOREM AdmittedOnlyCorrect == Spec => []AdmittedOnly
  <1>1. IInv => AdmittedOnly
    BY DEF IInv, Conversations
  <1>. QED
    BY <1>1, IInvCorrect, PTL

\* A message is typed twice only for one of the known causes.
THEOREM TypedOnceCorrect == Spec => []TypedOnce
  <1>1. IInv => TypedOnce
    BY DEF IInv, Once
  <1>. QED
    BY <1>1, IInvCorrect, PTL

\* The cache keeps out nobody whom the present configuration lets in, but for an answer
\* that a command has overtaken.
THEOREM RejectionIsCurrentCorrect == Spec => []RejectionIsCurrent
  <1>1. IInv => RejectionIsCurrent
    BY DEF IInv, Current
  <1>. QED
    BY <1>1, IInvCorrect, PTL

\* The polling worker's offsets are never ahead of a message that was not dealt with.
THEOREM OffsetIsBehindCorrect == Spec => []OffsetIsBehind
  <1>1. IInv => OffsetIsBehind
    BY DEF IInv, Behind
  <1>. QED
    BY <1>1, IInvCorrect, PTL

=============================================================================
