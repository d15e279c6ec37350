---------------------- MODULE ConnectorWorkers_proofs ----------------------
(***************************************************************************)
(* Theorems about the workers of a channel account, for any number of      *)
(* workers that run at once.  Aborted workers may be many; all that is     *)
(* said of them is that they are not in the table.                         *)
(***************************************************************************)
EXTENDS ConnectorWorkers, TLAPS

\* Only the worker in the table is meant to run.
AliveIsHandle == \A s \in Slot : Alive(s) => handle = s

\* A feishu worker notes no outcome of an attempt and does not sleep.
FeishuHoldsSocket ==
  channel = "feishu" => \A s \in Slot : worker[s].at \notin {"updating", "writing", "sleeping"}

Facts == AliveIsHandle /\ FeishuHoldsSocket /\ ConnectedIsTrue

CInv == TypeOK /\ Facts

-----------------------------------------------------------------------------
(* What a step of a worker does to the table of tasks.                     *)

\* Only task s moves; it runs already, and stays aborted if it was, unless it ends.
Moves(s) ==
  /\ worker \in [Slot -> Worker] /\ worker' \in [Slot -> Worker]
  /\ worker[s].at # "over"
  /\ \A t \in Slot : t # s => worker'[t] = worker[t]
  /\ worker'[s].at # "over" => worker'[s].aborted = worker[s].aborted
  /\ UNCHANGED <<channel, handle>>

\* A task that ends, and one that is new, have their types.
LEMMA WorkerTypes ==
  /\ NewWorker \in Worker /\ NewWorker.at = "spawned" /\ ~NewWorker.aborted
  /\ Ended \in Worker /\ Ended.at = "over" /\ ~Ended.aborted
  BY DEF NewWorker, Ended, Worker, Record

Places == {"spawned", "marking", "reading", "open", "updating", "writing", "sleeping",
           "leaving", "failing", "over"}

\* Moving a task to another place.
LEMMA MoveShape ==
  ASSUME TypeOK, NEW s \in Slot, NEW at \in Places, Move(s, at)
  PROVE  /\ worker' \in [Slot -> Worker] /\ worker'[s].at = at
         /\ \A t \in Slot : t # s => worker'[t] = worker[t]
         /\ at # "over" => worker'[s].aborted = worker[s].aborted
  <1>1. CASE at = "over"
    BY <1>1, WorkerTypes DEF Move, TypeOK
  <1>2. CASE at # "over"
    <2>1. worker' = [worker EXCEPT ![s] = [worker[s] EXCEPT !.at = at]]
      BY <1>2 DEF Move
    <2>2. worker[s] \in Worker
      BY DEF TypeOK
    <2>3. [worker[s] EXCEPT !.at = at] \in Worker
      BY <2>2 DEF Worker, Places
    <2>. QED
      BY <2>1, <2>2, <2>3 DEF TypeOK, Worker
  <1>. QED
    BY <1>1, <1>2

\* Noting an outcome.
LEMMA NoteShape ==
  ASSUME TypeOK, NEW s \in Slot, NEW next \in SUBSET {"reading", "sleeping", "leaving"},
         Note(s, next)
  PROVE  /\ worker' \in [Slot -> Worker] /\ worker'[s].at = "updating"
         /\ \A t \in Slot : t # s => worker'[t] = worker[t]
         /\ worker'[s].aborted = worker[s].aborted
  <1>1. PICK then \in {"reading", "sleeping", "leaving"} :
          worker' = [worker EXCEPT ![s] = [worker[s] EXCEPT !.at = "updating", !.then = then]]
    BY DEF Note
  <1>2. worker[s] \in Worker
    BY DEF TypeOK
  <1>3. [worker[s] EXCEPT !.at = "updating", !.then = then] \in Worker
    BY <1>2 DEF Worker
  <1>. QED
    BY <1>1, <1>2, <1>3 DEF TypeOK, Worker

\* Going on where the loop was to go on.
LEMMA ResumeShape ==
  ASSUME TypeOK, NEW s \in Slot, Resume(s)
  PROVE  /\ worker' \in [Slot -> Worker]
         /\ worker'[s].at \in {"reading", "sleeping", "leaving"}
         /\ \A t \in Slot : t # s => worker'[t] = worker[t]
         /\ worker'[s].aborted = worker[s].aborted
  <1>1. worker[s] \in Worker
    BY DEF TypeOK
  <1>2. [NewWorker EXCEPT !.at = worker[s].then, !.aborted = worker[s].aborted] \in Worker
    BY <1>1, WorkerTypes DEF Worker
  <1>. QED
    BY <1>1, <1>2, WorkerTypes DEF Resume, TypeOK, Worker

AfterMark(at) ==
  at \in {"open", "updating", "writing", "sleeping", "leaving", "failing"}
    \cup (IF channel = "wechat" THEN {"reading"} ELSE {})

\* What a step does to the account's status: nothing, for a worker that stays on its
\* side of the mark; setting it, at the mark; clearing it, at the end.
Signals(s) ==
  \/ UNCHANGED <<connected, late>> /\ (AfterMark(worker'[s].at) <=> AfterMark(worker[s].at))
  \/ UNCHANGED <<connected, late>> /\ worker[s].aborted
  \/ /\ late' = (late \/ worker[s].aborted)
     /\ connected' <=> AfterMark(worker'[s].at)

\* Every step of a worker is of that form, and keeps a feishu worker on its socket.
LEMMA RunShape ==
  ASSUME TypeOK, FeishuHoldsSocket, NEW s \in Slot, Run(s) \/ Return(s)
  PROVE  /\ Moves(s) /\ Signals(s)
         /\ channel = "feishu" => worker'[s].at \notin {"updating", "writing", "sleeping"}
         /\ attempts' \in Nat /\ connected' \in BOOLEAN /\ late' \in BOOLEAN
         /\ account' \in Record /\ UNCHANGED <<needed, reconcile, stopped>>
  <1> USE DEF World, Places, AfterMark
  <1>0. /\ worker \in [Slot -> Worker] /\ worker[s] \in Worker
        /\ attempts \in Nat /\ connected \in BOOLEAN /\ late \in BOOLEAN
        /\ account \in Record /\ channel \in {"wechat", "feishu"}
    BY DEF TypeOK
  <1>1. CASE Begin(s)
    <2>1. PICK at \in {"over", "marking", "reading"} :
            /\ Move(s, at) /\ (worker[s].aborted <=> at = "over")
            /\ at = "reading" => channel = "feishu"
      BY <1>0, <1>1 DEF Begin, Worker
    <2>. QED
      BY <1>0, <1>1, <2>1, MoveShape DEF Begin, Moves, Signals
  <1>2. CASE Mark(s)
    <2>1. PICK at \in {"reading", "open"} :
            Move(s, at) /\ (at = "reading" <=> channel = "wechat")
      BY <1>2 DEF Mark
    <2>. QED
      BY <1>0, <1>2, <2>1, MoveShape DEF Mark, Moves, Signals
  <1>3. CASE Read(s)
    <2>1. CASE channel = "wechat" /\ \E at \in {"open", "leaving"} : Move(s, at)
      BY <1>0, <1>3, <2>1, MoveShape DEF Read, Moves, Signals
    <2>2. CASE channel = "wechat" /\ Note(s, {"sleeping", "leaving"})
      BY <1>0, <1>3, <2>2, NoteShape DEF Read, Moves, Signals
    <2>3. CASE channel = "feishu" /\ \E at \in {"marking", "over"} : Move(s, at)
      BY <1>0, <1>3, <2>3, MoveShape DEF Read, Moves, Signals
    <2>. QED
      BY <1>3, <2>1, <2>2, <2>3 DEF Read
  <1>4. CASE Return(s)
    <2>1. CASE worker[s].aborted /\ Move(s, "over")
      BY <1>0, <1>4, <2>1, MoveShape DEF Return, Moves, Signals
    <2>2. CASE channel = "wechat" /\ Note(s, {"reading", "sleeping", "leaving"})
      BY <1>0, <1>4, <2>2, NoteShape DEF Return, Moves, Signals
    <2>3. CASE \E at \in {"leaving", "failing"} : Move(s, at)
      BY <1>0, <1>4, <2>3, MoveShape DEF Return, Moves, Signals
    <2>. QED
      BY <1>0, <1>4, <2>1, <2>2, <2>3 DEF Return
  <1>5. CASE Update(s)
    <2>0. channel = "wechat"
      BY <1>0, <1>5 DEF Update, FeishuHoldsSocket
    <2>1. CASE account = "absent"
      BY <1>0, <1>5, <2>0, <2>1, ResumeShape DEF Update, Moves, Signals
    <2>2. CASE account # "absent"
      <3>1. worker' = [worker EXCEPT ![s] = [worker[s] EXCEPT !.at = "writing", !.copy = account]]
        BY <1>5, <2>2 DEF Update
      <3>2. [worker[s] EXCEPT !.at = "writing", !.copy = account] \in Worker
        BY <1>0 DEF Worker
      <3>3. /\ worker' \in [Slot -> Worker] /\ worker'[s].at = "writing"
            /\ \A t \in Slot : t # s => worker'[t] = worker[t]
            /\ worker'[s].aborted = worker[s].aborted
        BY <1>0, <3>1, <3>2 DEF Worker
      <3>. QED
        BY <1>0, <1>5, <2>0, <3>3 DEF Update, Moves, Signals
    <2>. QED
      BY <2>1, <2>2
  <1>6. CASE Write(s)
    <2>1. channel = "wechat" /\ account' \in Record
      BY <1>0, <1>6 DEF Write, FeishuHoldsSocket, Worker
    <2>. QED
      BY <1>0, <1>6, <2>1, ResumeShape DEF Write, Moves, Signals
  <1>7. CASE Wake(s)
    <2>0. channel = "wechat"
      BY <1>0, <1>7 DEF Wake, FeishuHoldsSocket
    <2>1. PICK at \in {"over", "reading"} : Move(s, at) /\ (at = "over" <=> worker[s].aborted)
      BY <1>0, <1>7 DEF Wake, Worker
    <2>. QED
      BY <1>0, <1>7, <2>0, <2>1, MoveShape DEF Wake, Moves, Signals
  <1>8. CASE Leave(s)
    <2>1. attempts' \in Nat
      BY <1>0, <1>8 DEF Leave
    <2>. QED
      BY <1>0, <1>8, <2>1, MoveShape DEF Leave, Moves, Signals
  <1>. QED
    BY <1>1, <1>2, <1>3, <1>4, <1>5, <1>6, <1>7, <1>8 DEF Run

-----------------------------------------------------------------------------
(* The facts.                                                              *)

\* A worker's step keeps the facts.  If it is aborted its marks are nobody's; if not,
\* it is the one in the table, and every other worker is aborted or over.
LEMMA FactsRun ==
  ASSUME TypeOK, Facts, NEW s \in Slot, Run(s) \/ Return(s) PROVE Facts'
  <1>1. /\ Moves(s) /\ Signals(s)
        /\ channel = "feishu" => worker'[s].at \notin {"updating", "writing", "sleeping"}
    BY RunShape DEF Facts
  <1>2. \A t \in Slot : Alive(t)' => Alive(t)
    BY <1>1 DEF Moves, Alive
  <1>3. AliveIsHandle'
    BY <1>1, <1>2 DEF Moves, Facts, AliveIsHandle
  <1>4. FeishuHoldsSocket'
    BY <1>1 DEF Moves, Facts, FeishuHoldsSocket
  <1>5. \A t \in Slot : Marked(t) <=> Alive(t) /\ AfterMark(worker[t].at)
    BY DEF Marked, AfterMark
  <1>6. \A t \in Slot : Marked(t)' <=> Alive(t)' /\ AfterMark(worker'[t].at)
    BY <1>1 DEF Moves, Marked, AfterMark
  <1>7. \A t \in Slot : t # s => (Marked(t)' <=> Marked(t))
    BY <1>1, <1>5, <1>6 DEF Moves, Alive
  <1>8. ConnectedIsTrue'
    <2>1. CASE UNCHANGED <<connected, late>> /\ worker[s].aborted
      <3>1. ~Marked(s) /\ ~Marked(s)'
        BY <1>1, <1>5, <1>6, <2>1 DEF Moves, Alive
      <3>2. (\E t \in Slot : Marked(t)') <=> (\E t \in Slot : Marked(t))
        BY <1>7, <3>1
      <3>. QED
        BY <1>1, <2>1, <3>2 DEF Moves, Facts, ConnectedIsTrue
    <2>2. CASE late'
      BY <2>2 DEF ConnectedIsTrue
    <2>3. CASE ~late' /\ ~worker[s].aborted
      <3>1. Alive(s)
        BY <1>1, <2>3 DEF Moves, Alive
      <3>2. \A t \in Slot : t # s => ~Marked(t) /\ ~Marked(t)'
        BY <1>5, <1>7, <3>1 DEF Facts, AliveIsHandle
      <3>3. Marked(s) <=> AfterMark(worker[s].at)
        BY <1>5, <3>1
      <3>4. Marked(s)' <=> AfterMark(worker'[s].at)
        BY <1>1, <1>6, <2>3 DEF Moves, Alive, AfterMark
      <3>5. CASE UNCHANGED <<connected, late>>
                   /\ (AfterMark(worker'[s].at) <=> AfterMark(worker[s].at))
        <4>1. (\E t \in Slot : Marked(t)') <=> (\E t \in Slot : Marked(t))
          BY <3>2, <3>3, <3>4, <3>5
        <4>. QED
          BY <1>1, <3>5, <4>1 DEF Moves, Facts, ConnectedIsTrue
      <3>6. CASE connected' <=> AfterMark(worker'[s].at)
        <4>1. (\E t \in Slot : Marked(t)') <=> connected'
          BY <3>2, <3>4, <3>6
        <4>. QED
          BY <4>1 DEF ConnectedIsTrue
      <3>. QED
        BY <1>1, <2>3, <3>5, <3>6 DEF Signals
    <2>4. late' \/ worker[s].aborted => UNCHANGED <<connected, late>> \/ late'
      BY <1>1, <1>5 DEF Signals
    <2>. QED
      BY <2>1, <2>2, <2>3, <2>4
  <1>. QED
    BY <1>3, <1>4, <1>8 DEF Facts

\* Starting, keeping or aborting a worker keeps the facts: the table is changed
\* together with the tasks, and the status with both.
LEMMA FactsReconcile ==
  ASSUME TypeOK, Facts, NEW r \in Reconciler, Reconcile(r) PROVE Facts' /\ TypeOK'
  <1>0. /\ worker \in [Slot -> Worker] /\ handle \in Slot \cup {NoWorker}
        /\ connected \in BOOLEAN /\ attempts \in Nat
    BY DEF TypeOK
  <1>1. UNCHANGED <<channel, account, needed, late>>
    BY DEF Reconcile
  <1>2. /\ reconcile' \in [Reconciler -> [at : {"idle", "due", "listing", "clearing", "locking"},
                                          want : BOOLEAN]]
        /\ stopped' \in BOOLEAN
    BY DEF Reconcile, Done, TypeOK
  <1>3. CASE Remove
    <2>1. handle' = NoWorker /\ connected' = (connected /\ ~Present) /\ attempts' \in Nat
      BY <1>0, <1>3 DEF Remove
    <2>2. worker' \in [Slot -> Worker]
      BY <1>0, <1>3 DEF Remove, Worker
    <2>3. \A t \in Slot : worker'[t].at = worker[t].at /\ ~Alive(t)'
      BY <1>0, <1>3 DEF Remove, Worker, Facts, AliveIsHandle, Alive, Finished, Present
    <2>4. \A t \in Slot : ~Marked(t)'
      BY <2>3 DEF Marked
    <2>5. ~Present => \A t \in Slot : ~Marked(t)
      BY SlotAssumption DEF Facts, AliveIsHandle, Present, Marked
    <2>6. ConnectedIsTrue'
      BY <1>0, <1>1, <2>1, <2>4, <2>5 DEF Facts, ConnectedIsTrue
    <2>7. AliveIsHandle' /\ FeishuHoldsSocket'
      BY <1>1, <2>3 DEF Facts, AliveIsHandle, FeishuHoldsSocket
    <2>8. connected' \in BOOLEAN
      BY <2>1
    <2>. QED
      BY <1>1, <1>2, <2>1, <2>2, <2>6, <2>7, <2>8 DEF Facts, TypeOK
  <1>4. CASE Ensure /\ Present /\ ~Finished
    <2>1. UNCHANGED <<handle, worker, connected, attempts>>
      BY <1>4 DEF Ensure
    <2>. QED
      BY <1>1, <1>2, <2>1 DEF TypeOK, Facts, AliveIsHandle, FeishuHoldsSocket,
         ConnectedIsTrue, Alive, Marked
  <1>5. CASE Ensure /\ ~(Present /\ ~Finished)
    <2>1. connected' = (connected /\ ~Finished)
      BY <1>5 DEF Ensure
    <2>2. \A t \in Slot : ~Alive(t)
      BY <1>5, SlotAssumption DEF Facts, AliveIsHandle, Present, Finished, Alive
    <2>3. \A t \in Slot : ~Marked(t)
      BY <2>2 DEF Marked
    <2>4. CASE ~stopped /\ attempts < MaxAttempts
      <3>1. PICK s \in Slot : /\ worker[s].at = "over" /\ handle' = s
                              /\ worker' = [worker EXCEPT ![s] = NewWorker]
        BY <1>5, <2>4 DEF Ensure
      <3>2. /\ worker' \in [Slot -> Worker] /\ worker'[s] = NewWorker
            /\ \A t \in Slot : t # s => worker'[t] = worker[t]
        BY <1>0, <3>1, WorkerTypes
      <3>3. \A t \in Slot : t # s => ~Alive(t)'
        BY <2>2, <3>2 DEF Alive
      <3>4. \A t \in Slot : ~Marked(t)'
        BY <3>2, <3>3, WorkerTypes DEF Marked
      <3>5. AliveIsHandle' /\ FeishuHoldsSocket'
        BY <1>1, <3>1, <3>2, <3>3, WorkerTypes DEF Facts, AliveIsHandle, FeishuHoldsSocket
      <3>6. ConnectedIsTrue'
        BY <1>0, <1>1, <2>1, <2>3, <3>4 DEF Facts, ConnectedIsTrue
      <3>7. attempts' \in Nat /\ connected' \in BOOLEAN
        BY <1>5, <2>1, <2>4 DEF Ensure
      <3>. QED
        BY <1>1, <1>2, <3>1, <3>2, <3>5, <3>6, <3>7 DEF Facts, TypeOK
    <2>5. CASE ~(~stopped /\ attempts < MaxAttempts)
      <3>1. handle' = NoWorker /\ UNCHANGED <<worker, attempts>>
        BY <1>5, <2>5 DEF Ensure
      <3>2. \A t \in Slot : ~Alive(t)' /\ ~Marked(t)'
        BY <1>1, <2>2, <3>1 DEF Alive, Marked
      <3>3. AliveIsHandle' /\ FeishuHoldsSocket' /\ ConnectedIsTrue'
        BY <1>0, <1>1, <2>1, <2>3, <3>1, <3>2
        DEF Facts, AliveIsHandle, FeishuHoldsSocket, ConnectedIsTrue
      <3>4. connected' \in BOOLEAN
        BY <2>1
      <3>. QED
        BY <1>1, <1>2, <3>1, <3>3, <3>4 DEF Facts, TypeOK
    <2>. QED
      BY <2>4, <2>5
  <1>. QED
    BY <1>3, <1>4, <1>5 DEF Reconcile

\* What the account, the workspaces and the clock do keeps types and facts.
LEMMA FactsAround ==
  ASSUME TypeOK, Facts,
         \/ \E record \in Record : SetAccount(record)
         \/ SetNeeded \/ Tick \/ \E r \in Reconciler : Desire(r) \/ List(r) \/ Clear(r)
  PROVE  Facts' /\ TypeOK'
  <1>1. UNCHANGED <<channel, handle, worker, late>>
    BY DEF SetAccount, SetNeeded, Tick, Desire, List, Clear
  <1>2. connected' = connected \/ (channel = "wechat" /\ ~connected')
    BY DEF SetAccount, SetNeeded, Tick, Desire, List, Clear, TypeOK
  <1>3. Facts'
    BY <1>1, <1>2 DEF Facts, AliveIsHandle, FeishuHoldsSocket, ConnectedIsTrue, Alive, Marked
  <1>4. TypeOK'
    <2>1. ASSUME NEW record \in Record, SetAccount(record) PROVE TypeOK'
      <3>1. connected' \in BOOLEAN
        BY <2>1 DEF SetAccount
      <3>. QED
        BY <2>1, <3>1 DEF SetAccount, TypeOK, Reconciler
    <2>2. CASE SetNeeded
      BY <2>2 DEF SetNeeded, TypeOK
    <2>3. CASE Tick
      BY <2>3 DEF Tick, TypeOK, Reconciler
    <2>4. ASSUME NEW r \in Reconciler, Desire(r) \/ List(r) PROVE TypeOK'
      <3>1. PICK at \in {"listing", "clearing", "locking"}, want \in BOOLEAN :
              reconcile' = [reconcile EXCEPT ![r] = [at |-> at, want |-> want]]
        <4>1. CASE Desire(r)
          BY <4>1 DEF Desire, TypeOK
        <4>2. CASE List(r)
          <5>1. reconcile[r].want \in BOOLEAN
            BY DEF TypeOK
          <5>. QED
            BY <4>2, <5>1 DEF List
        <4>. QED
          BY <2>4, <4>1, <4>2
      <3>2. [at |-> at, want |-> want] \in
              [at : {"idle", "due", "listing", "clearing", "locking"}, want : BOOLEAN]
        OBVIOUS
      <3>. QED
        BY <2>4, <3>1, <3>2 DEF Desire, List, TypeOK
    <2>5. ASSUME NEW r \in Reconciler, Clear(r) PROVE TypeOK'
      <3>1. [reconcile[r] EXCEPT !.at = "locking"] \in
              [at : {"idle", "due", "listing", "clearing", "locking"}, want : BOOLEAN]
        BY DEF TypeOK
      <3>. QED
        BY <2>5, <3>1 DEF Clear, TypeOK
    <2>. QED
      BY <2>1, <2>2, <2>3, <2>4, <2>5
  <1>. QED
    BY <1>3, <1>4

-----------------------------------------------------------------------------
(* The theorems.                                                           *)

\* The strengthened invariant, types included, holds in every reachable state.
THEOREM CInvCorrect == Spec => []CInv
  <1>1. Init => CInv
    <2> SUFFICES ASSUME Init PROVE CInv
      OBVIOUS
    <2>1. worker \in [Slot -> Worker] /\ \A s \in Slot : worker[s].at = "over"
      BY WorkerTypes DEF Init
    <2>2. reconcile \in [Reconciler -> [at : {"idle", "due", "listing", "clearing", "locking"},
                                        want : BOOLEAN]]
      BY DEF Init
    <2>. QED
      BY <2>1, <2>2 DEF Init, CInv, TypeOK, Facts, AliveIsHandle, FeishuHoldsSocket,
         ConnectedIsTrue, Alive, Marked
  <1>2. CInv /\ [Next]_vars => CInv'
    <2> SUFFICES ASSUME TypeOK, Facts, [Next]_vars PROVE TypeOK' /\ Facts'
      BY DEF CInv
    <2>1. ASSUME NEW s \in Slot, Run(s) \/ Return(s) PROVE TypeOK' /\ Facts'
      <3>1. TypeOK'
        BY <2>1, RunShape DEF Facts, Moves, TypeOK
      <3>. QED
        BY <2>1, <3>1, FactsRun
    <2>2. CASE UNCHANGED vars
      BY <2>2 DEF vars, TypeOK, Facts, AliveIsHandle, FeishuHoldsSocket, ConnectedIsTrue,
         Alive, Marked
    <2>. QED
      BY <2>1, <2>2, FactsReconcile, FactsAround DEF Next
  <1>. QED
    BY <1>1, <1>2, PTL DEF Spec

\* In every reachable state the variables have their types.
THEOREM TypeCorrect == Spec => []TypeOK
  <1>1. CInv => TypeOK
    BY DEF CInv
  <1>. QED
    BY <1>1, CInvCorrect, PTL

\* Two workers are never both meant to run, however supervisor, commands and workers
\* that were aborted overlap.
THEOREM OneWorkerCorrect == Spec => []OneWorker
  <1>1. CInv => OneWorker
    BY DEF CInv, Facts, AliveIsHandle, OneWorker
  <1>. QED
    BY <1>1, CInvCorrect, PTL

\* As long as no aborted worker has set a mark, an account is shown as connected only
\* while its worker is between its marks, and a feishu account all that time.
THEOREM ConnectedIsTrueCorrect == Spec => []ConnectedIsTrue
  <1>1. CInv => ConnectedIsTrue
    BY DEF CInv, Facts
  <1>. QED
    BY <1>1, CInvCorrect, PTL
=============================================================================
