-------------------------- MODULE ConnectorWorkers --------------------------
(***************************************************************************)
(* The workers that keep a channel account connected: connectors/wechat,   *)
(* whose worker polls, and connectors/feishu/websocket.rs, whose worker    *)
(* holds a socket.                                                         *)
(*                                                                         *)
(* A supervisor and the commands that change an account compare, each on   *)
(* its own thread, the account that they read from a file with the worker  *)
(* that is in a table.  Aborting a worker drops it where it waits; one     *)
(* that runs goes on until it waits again, next to the worker that takes   *)
(* its place, and may still mark the account as connected or write it to   *)
(* the file.  Accounts do not touch each other; the model has one.         *)
(***************************************************************************)
EXTENDS Integers

CONSTANTS
  Slot,        \* bound of the model: workers that have not ended, and one more
  MaxAttempts  \* BackoffPolicy::max_attempts

ASSUME AttemptsAssumption == MaxAttempts \in Nat \ {0}

Reconciler == {"supervisor", "command"}

NoWorker == "no worker"

ASSUME SlotAssumption == NoWorker \notin Slot

VARIABLES
  channel,    \* which of the two connectors this is
  account,    \* the account's record in the file: absent, disabled or enabled
  needed,     \* an open workspace has a binding to the account
  reconcile,  \* where each call of reconcile is
  handle,     \* WORKERS at the account
  worker,     \* the tasks
  connected,  \* RUNTIME_STATUS has the account
  attempts,   \* RESTART_ATTEMPTS of feishu
  stopped,    \* MANUALLY_STOPPED of feishu has the account
  late        \* history: an aborted worker has set connected

vars == <<channel, account, needed, reconcile, handle, worker, connected, attempts, stopped, late>>

Record == {"absent", "off", "on"}

(* open: waiting for the provider; sleeping: for the next attempt.  copy is  *)
(* the record that update_account_runtime_state is about to write back, then *)
(* where the loop goes from there: on, to sleep, or out after max_attempts.  *)
Worker == [at : {"spawned", "marking", "reading", "open", "updating", "writing", "sleeping",
                 "leaving", "failing", "over"},
           aborted : BOOLEAN, copy : Record, then : {"reading", "sleeping", "leaving"}]

NewWorker == [at |-> "spawned", aborted |-> FALSE, copy |-> "absent",
              then |-> "reading"]

Ended == [NewWorker EXCEPT !.at = "over"]

TypeOK ==
  /\ channel \in {"wechat", "feishu"}
  /\ account \in Record /\ needed \in BOOLEAN
  /\ reconcile \in [Reconciler -> [at : {"idle", "due", "listing", "clearing", "locking"},
                                want : BOOLEAN]]
  /\ handle \in Slot \cup {NoWorker}
  /\ worker \in [Slot -> Worker]
  /\ connected \in BOOLEAN /\ stopped \in BOOLEAN /\ late \in BOOLEAN
  /\ attempts \in Nat

Init ==
  /\ channel \in {"wechat", "feishu"}
  /\ account \in Record /\ needed \in BOOLEAN
  /\ reconcile = [r \in Reconciler |->
       [at |-> IF r = "supervisor" THEN "due" ELSE "idle", want |-> FALSE]]
  /\ handle = NoWorker
  /\ worker = [s \in Slot |-> Ended]
  /\ connected = FALSE /\ stopped = FALSE /\ late = FALSE
  /\ attempts = 0

-----------------------------------------------------------------------------

(* What desired_accounts and desired_websocket_accounts are to find.         *)
Wanted == account = "on" /\ needed

(* channel_connector_account_upsert and _delete, and the login that binds an *)
(* account: they write the record, and reconcile.                            *)
SetAccount(record) ==
  /\ reconcile["command"].at = "idle"
  /\ account' = record
  /\ reconcile' = [reconcile EXCEPT !["command"].at = "due"]
  /\ connected' = (connected /\ ~(channel = "wechat" /\ record = "absent" /\ account # "absent"))
  /\ UNCHANGED <<channel, needed, handle, worker, attempts, stopped, late>>

(* needed_channel_accounts: workspaces open and close, bindings come and go.  *)
SetNeeded ==
  /\ needed' = ~needed
  /\ UNCHANGED <<channel, account, reconcile, handle, worker, connected, attempts, stopped, late>>

(* The interval of the supervisor is over.                                   *)
Tick ==
  /\ reconcile["supervisor"].at = "idle"
  /\ reconcile' = [reconcile EXCEPT !["supervisor"].at = "due"]
  /\ UNCHANGED <<channel, account, needed, handle, worker, connected, attempts, stopped, late>>

(* What reconcile reads before it locks the table: which accounts are needed *)
(* now, and                                                                  *)
Desire(r) ==
  /\ reconcile[r].at = "due"
  /\ reconcile' = [reconcile EXCEPT ![r] = [at |-> "listing", want |-> needed]]
  /\ UNCHANGED <<channel, account, needed, handle, worker, connected, attempts, stopped, late>>

(* which are enabled.  A file that a worker is writing cannot be decoded,    *)
(* and counts as one without accounts.                                       *)
List(r) ==
  /\ reconcile[r].at = "listing"
  /\ \E enabled \in {account = "on"} \cup {FALSE : s \in {t \in Slot : worker[t].at = "writing"}} :
       LET want == reconcile[r].want /\ enabled
       IN  reconcile' = [reconcile EXCEPT ![r] =
             [at |-> IF want /\ channel = "feishu" THEN "clearing" ELSE "locking", want |-> want]]
  /\ UNCHANGED <<channel, account, needed, handle, worker, connected, attempts, stopped, late>>

(* feishu forgets that an account it wants was stopped.                      *)
Clear(r) ==
  /\ reconcile[r].at = "clearing"
  /\ stopped' = FALSE
  /\ reconcile' = [reconcile EXCEPT ![r].at = "locking"]
  /\ UNCHANGED <<channel, account, needed, handle, worker, connected, attempts, late>>

Present == handle # NoWorker

Finished == Present /\ worker[handle].at = "over"

Done(r) == reconcile' = [reconcile EXCEPT ![r] = [at |-> "idle", want |-> FALSE]]

\* Mutant: the status of an account whose worker was aborted is left as it was.
RemoveBug ==
  /\ handle' = NoWorker
  /\ worker' = [s \in Slot |->
       IF s = handle /\ ~Finished THEN [worker[s] EXCEPT !.aborted = TRUE] ELSE worker[s]]
  /\ UNCHANGED connected
  /\ attempts' = IF Present THEN 0 ELSE attempts

(* The account is not wanted: the worker goes, whatever it is doing.         *)
Remove ==
  /\ handle' = NoWorker
  /\ worker' = [s \in Slot |->
       IF s = handle /\ ~Finished THEN [worker[s] EXCEPT !.aborted = TRUE] ELSE worker[s]]
  /\ connected' = (connected /\ ~Present)
  /\ attempts' = IF Present THEN 0 ELSE attempts

\* Mutant: what counts is the status, which a worker that starts has yet to set.
EnsureTwice ==
  IF connected THEN UNCHANGED <<handle, worker, connected, attempts>>
  ELSE /\ \E s \in Slot :
            /\ worker[s].at = "over"
            /\ handle' = s
            /\ worker' = [worker EXCEPT ![s] = NewWorker]
       /\ UNCHANGED <<connected, attempts>>

\* Mutant: a worker that has ended is still in the table, so none takes its place.
EnsureBug ==
  IF Present THEN UNCHANGED <<handle, worker, connected, attempts>>
  ELSE /\ \E s \in Slot :
            /\ worker[s].at = "over"
            /\ handle' = s
            /\ worker' = [worker EXCEPT ![s] = NewWorker]
       /\ UNCHANGED <<connected, attempts>>

(* It is wanted: a worker starts if there is none, or none that goes on;     *)
(* unless another call has stopped it since the two of them looked.          *)
Ensure ==
  IF Present /\ ~Finished THEN UNCHANGED <<handle, worker, connected, attempts>>
  ELSE /\ connected' = (connected /\ ~Finished)
       /\ IF ~stopped /\ attempts < MaxAttempts
          THEN /\ \E s \in Slot :
                    /\ worker[s].at = "over"
                    /\ handle' = s
                    /\ worker' = [worker EXCEPT ![s] = NewWorker]
               /\ attempts' = 0
          ELSE handle' = NoWorker /\ UNCHANGED <<worker, attempts>>

(* reconcile, under the lock of the table.  Attempts are forgotten when a      *)
(* worker starts, so one that fails again and again never reaches the limit. *)
Reconcile(r) ==
  /\ reconcile[r].at = "locking"
  /\ IF reconcile[r].want THEN Ensure /\ UNCHANGED stopped
     ELSE Remove /\ stopped' = (stopped \/ (channel = "feishu" /\ Present /\ ~Finished))
  /\ Done(r)
  /\ UNCHANGED <<channel, account, needed, late>>

-----------------------------------------------------------------------------
(* worker_loop.  Abortion takes effect where the task waits.                 *)

Move(s, at) ==
  worker' = [worker EXCEPT ![s] = IF at = "over" THEN Ended ELSE [@ EXCEPT !.at = at]]

\* An attempt has ended; its outcome is noted in the record.
Note(s, next) ==
  \E then \in next : worker' = [worker EXCEPT ![s].at = "updating", ![s].then = then]

Resume(s) ==
  worker' = [worker EXCEPT ![s] = [NewWorker EXCEPT !.at = worker[s].then,
                                                    !.aborted = worker[s].aborted]]

World == <<channel, account, needed, reconcile, handle, stopped>>

\* The task is scheduled for the first time.
Begin(s) ==
  /\ worker[s].at = "spawned"
  /\ Move(s, IF worker[s].aborted THEN "over"
             ELSE IF channel = "wechat" THEN "marking" ELSE "reading")
  /\ UNCHANGED <<World, connected, attempts, late>>

(* mark_connected(true): wechat before it reads the account, feishu after.   *)
Mark(s) ==
  /\ worker[s].at = "marking"
  /\ connected' = TRUE
  /\ late' = (late \/ worker[s].aborted)
  /\ Move(s, IF channel = "wechat" THEN "reading" ELSE "open")
  /\ UNCHANGED <<World, attempts>>

(* wechat ends without the account, or sleeps if the token cannot be loaded; *)
(* feishu fails without the account or its secret.                           *)
Read(s) ==
  /\ worker[s].at = "reading"
  /\ \/ /\ channel = "wechat"
        /\ Move(s, IF account = "on" THEN "open" ELSE "leaving")
        /\ UNCHANGED attempts
     \/ /\ channel = "wechat" /\ account = "on"
        /\ Note(s, {"sleeping", "leaving"}) /\ UNCHANGED attempts
     \/ /\ channel = "feishu"
        /\ \/ account # "absent" /\ Move(s, IF account = "on" THEN "marking" ELSE "over")
              /\ UNCHANGED attempts
           \/ account # "off" /\ Move(s, "over") /\ attempts' = attempts + 1
  /\ UNCHANGED <<World, connected, late>>

(* The provider answers, or the socket closes; an aborted task is dropped.   *)
Return(s) ==
  /\ worker[s].at = "open"
  /\ IF worker[s].aborted THEN Move(s, "over")
     ELSE IF channel = "wechat" THEN Note(s, {"reading", "sleeping", "leaving"})
     ELSE Move(s, "leaving") \/ Move(s, "failing")
  /\ UNCHANGED <<World, connected, attempts, late>>

(* update_account_runtime_state reads the record, and writes all of it back. *)
Update(s) ==
  /\ worker[s].at = "updating"
  /\ IF account = "absent" THEN Resume(s)
     ELSE worker' = [worker EXCEPT ![s].at = "writing", ![s].copy = account]
  /\ UNCHANGED <<World, connected, attempts, late>>

(* A change or a deletion since then is undone.                              *)
Write(s) ==
  /\ worker[s].at = "writing"
  /\ account' = worker[s].copy
  /\ Resume(s)
  /\ UNCHANGED <<channel, needed, reconcile, handle, connected, attempts, stopped, late>>

Wake(s) ==
  /\ worker[s].at = "sleeping"
  /\ Move(s, IF worker[s].aborted THEN "over" ELSE "reading")
  /\ UNCHANGED <<World, connected, attempts, late>>

(* mark_connected(false), and the end; feishu counts one that failed.        *)
Leave(s) ==
  /\ worker[s].at \in {"leaving", "failing"}
  /\ connected' = FALSE
  /\ late' = (late \/ worker[s].aborted)
  /\ attempts' = IF worker[s].at = "failing" THEN attempts + 1 ELSE attempts
  /\ Move(s, "over")
  /\ UNCHANGED World

Run(s) ==
  \/ Begin(s) \/ Mark(s) \/ Read(s) \/ Update(s) \/ Write(s) \/ Wake(s) \/ Leave(s)

Next ==
  \/ \E record \in Record : SetAccount(record)
  \/ SetNeeded \/ Tick
  \/ \E r \in Reconciler : Desire(r) \/ List(r) \/ Clear(r) \/ Reconcile(r)
  \/ \E s \in Slot : Run(s) \/ Return(s)

Spec == Init /\ [][Next]_vars

(* Time passes, threads run, an aborted task is dropped; not every reading   *)
(* of the file meets a writer.  A socket may stay open for ever.             *)
FairSpec ==
  /\ Spec
  /\ WF_vars(Tick)
  /\ \A r \in Reconciler :
       WF_vars(Desire(r)) /\ WF_vars(List(r)) /\ WF_vars(Clear(r)) /\ WF_vars(Reconcile(r))
  /\ SF_vars(/\ List("supervisor")
             /\ reconcile'["supervisor"].want = (reconcile["supervisor"].want /\ account = "on"))
  /\ \A s \in Slot : WF_vars(Run(s)) /\ WF_vars(worker[s].aborted /\ Return(s))

-----------------------------------------------------------------------------

Alive(s) == worker[s].at # "over" /\ ~worker[s].aborted

\* An account that is wanted gets a worker, and one that is not loses it: whatever
\* ended the worker, and whichever thread read the account too early.  That it is not
\* wanted has to last for one reason: reconcile reads the one and then the other, and may
\* find an account needed while it is disabled, and enabled while it is not needed.
WorkersFollow ==
  LET working == \E s \in Slot : Alive(s)
  IN  /\ Wanted ~> working \/ ~Wanted
      /\ ~needed ~> ~working \/ needed
      /\ account # "on" ~> ~working \/ account = "on"

\* Two workers are never both meant to run.
OneWorker == \A s, t \in Slot : Alive(s) /\ Alive(t) => s = t

Marked(s) ==
  /\ Alive(s)
  /\ worker[s].at \in {"open", "updating", "writing", "sleeping", "leaving", "failing"}
       \cup (IF channel = "wechat" THEN {"reading"} ELSE {})

\* The account is shown as connected only while its worker is between the two marks,
\* and by feishu all that time (wechat clears it when the account is deleted, before
\* the worker ends): as long as no aborted worker was late to set a mark.
ConnectedIsTrue ==
  ~late => LET marked == \E s \in Slot : Marked(s)
           IN  (connected => marked) /\ (channel = "feishu" /\ marked => connected)
=============================================================================
