----------------------------- MODULE GitStatus_proofs -----------------------------
(***************************************************************************)
(* Theorems about the git status of a workspace, for any statuses,         *)
(* callers, workers, events on their way and bounds: first the             *)
(* coordinator, then the activity feed composed with it.                   *)
(***************************************************************************)
EXTENDS GitActivityFeed, TLAPS

-----------------------------------------------------------------------------
(***************************************************************************)
(* The coordinator.  None of its safety properties is inductive: that      *)
(* a generation has one worker rests on where generations come from (an    *)
(* activator that drew one and has not inserted it yet holds it alone),    *)
(* and the rest on the one worker.                                         *)
(***************************************************************************)

-----------------------------------------------------------------------------
(* The strengthening.                                                      *)

WorkOn(w, g) == Live(w) /\ worker[w].gen = g

\* Live workers have an activated generation, each its own.
WorkersApart ==
  /\ \A w \in Worker : Live(w) =>
       worker[w].gen \in Generation /\ worker[w].gen < nextGeneration
  /\ \A v, w \in Worker :
       Live(v) /\ Live(w) /\ worker[v].gen = worker[w].gen => v = w

\* The entry's generation is a drawn one whose token is not cancelled.
EntryIsCurrent ==
  active => /\ generation \in Generation /\ generation < nextGeneration
            /\ generation \notin cancelled

\* An activator's generation is nobody else's until it is inserted.
DrawnIsFresh ==
  \A a \in Activator : callers[a] = "insert" =>
    /\ drawn[a] \in Generation /\ drawn[a] < nextGeneration
    /\ drawn[a] \notin cancelled
    /\ active => generation # drawn[a]
    /\ \A w \in Worker : Live(w) => worker[w].gen # drawn[a]
    /\ emitted[drawn[a]] = 0

DrawnApart ==
  \A a, b \in Activator :
    callers[a] = "insert" /\ callers[b] = "insert" /\ drawn[a] = drawn[b] => a = b

CancelledWereDrawn == \A g \in cancelled : g < nextGeneration

ScheduledIsWorked ==
  active => (scheduled <=> \E w \in Worker : WorkOn(w, generation))

Structure ==
  /\ TypeOK
  /\ WorkersApart
  /\ EntryIsCurrent
  /\ DrawnIsFresh
  /\ DrawnApart
  /\ CancelledWereDrawn
  /\ ScheduledIsWorked

\* A dirty entry has its worker, and a status about to be published is the
\* repository's unless the entry is dirty again.
ReadIsFreshOrDirty ==
  /\ active /\ dirty => scheduled
  /\ \A w \in Worker :
       active /\ asked /\ worker[w].gen = generation /\ At(w, "publish") =>
         dirty \/ worker[w].status = repo

\* The generations not yet drawn emitted nothing; an entry's emitted revision is
\* not beyond its own; a payload on its way is newer than what was emitted and,
\* while its entry stands, the entry's revision.
PayloadIsNext ==
  /\ \A g \in Generation : g >= nextGeneration => emitted[g] = 0
  /\ active => emitted[generation] <= revision
  /\ \A w \in Worker : worker[w].pc \in {"recheck", "emit"} =>
       /\ worker[w].payload > emitted[worker[w].gen]
       /\ active /\ worker[w].gen = generation => worker[w].payload = revision

GInv == /\ Structure
        /\ ReadIsFreshOrDirty
        /\ NoRefreshIsLost
        /\ PayloadIsNext
        /\ PublishedIsEmitted
-----------------------------------------------------------------------------
(* What a worker's step does to the tasks: it moves within its cycle, or   *)
(* ends.  It never touches the generations or the callers.                 *)

Moves(w) ==
  /\ worker'[w].pc # "none" /\ worker'[w].gen = worker[w].gen
  /\ \A v \in Worker : v # w => worker'[v] = worker[v]

Leaves(w) ==
  /\ worker'[w] = Free
  /\ \A v \in Worker : v # w => worker'[v] = worker[v]

\* A step of a worker keeps the fields that identify the entry; when it ends as
\* the entry's own worker it leaves the entry unscheduled.
WorkerShape(w) ==
  /\ Live(w)
  /\ UNCHANGED <<repo, nextGeneration, callers, drawn, cancelled, active, generation>>
  /\ \/ Moves(w) /\ scheduled' = scheduled
     \/ Moves(w) /\ Current(w) /\ scheduled'
     \/ Leaves(w) /\ ~Current(w) /\ scheduled' = scheduled
     \/ Leaves(w) /\ Current(w) /\ ~scheduled'
-----------------------------------------------------------------------------
(* Types.                                                                  *)

\* The initial state has its type.
LEMMA TypeInit == Init => TypeOK
  <1> SUFFICES ASSUME Init PROVE TypeOK
    OBVIOUS
  <1>1. Free \in WorkerState
    BY BoundsAssumption DEF Free, WorkerState, Place
  <1>2. worker \in [Worker -> WorkerState]
    BY <1>1 DEF Init
  <1>3. /\ callers \in [Activator -> {"idle", "draw", "insert", "refresh"}]
        /\ drawn \in [Activator -> 0..MaxGeneration]
        /\ emitted \in [Generation -> Nat]
    BY BoundsAssumption DEF Init
  <1>4. /\ nextGeneration \in 1..(MaxGeneration + 1)
        /\ generation \in 0..MaxGeneration /\ revision \in Nat
    BY BoundsAssumption DEF Init
  <1>5. /\ active \in BOOLEAN /\ dirty \in BOOLEAN /\ scheduled \in BOOLEAN
        /\ immediateRequested \in BOOLEAN /\ asked \in BOOLEAN
        /\ failed \in BOOLEAN /\ dropped \in BOOLEAN
    BY DEF Init
  <1>6. repo \in Status /\ lastFingerprint \in Status \cup {NoStatus}
        /\ cancelled \subseteq 0..MaxGeneration
    BY DEF Init
  <1>. QED
    BY <1>2, <1>3, <1>4, <1>5, <1>6 DEF TypeOK

\* A request keeps the types: it may spawn a worker with the entry's generation.
LEMMA RequestTypes ==
  ASSUME TypeOK, NEW immediate \in BOOLEAN, RequestRefresh(immediate)
  PROVE  /\ dirty' \in BOOLEAN /\ scheduled' \in BOOLEAN
         /\ immediateRequested' \in BOOLEAN
         /\ worker' \in [Worker -> WorkerState]
         /\ asked' \in BOOLEAN
  <1>1. \A w \in Worker : Spawn(w) => worker' \in [Worker -> WorkerState]
    <2>1. [Free EXCEPT !.pc = "top", !.gen = generation] \in WorkerState
      BY BoundsAssumption DEF TypeOK, Free, WorkerState, Place
    <2>. QED
      BY <2>1 DEF TypeOK, Spawn
  <1>2. worker' \in [Worker -> WorkerState]
    BY <1>1 DEF RequestRefresh, TypeOK
  <1>3. asked' \in BOOLEAN
    BY DEF RequestRefresh, TypeOK
  <1>. QED
    BY <1>2, <1>3 DEF RequestRefresh, TypeOK

\* A worker's step keeps the types, an action at a time.
LEMMA WorkerTypes ==
  ASSUME TypeOK, NEW w \in Worker, WorkerStep(w)
  PROVE  TypeOK'
  <1> USE DEF outside, callerVars, entry, history
  <1>1. /\ worker[w] \in WorkerState /\ Free \in WorkerState
        /\ \A p \in Place : [worker EXCEPT ![w].pc = p] \in [Worker -> WorkerState]
        /\ [worker EXCEPT ![w] = Free] \in [Worker -> WorkerState]
    BY BoundsAssumption DEF TypeOK, WorkerState, Place, Free
  <1>2. \A p \in Place : Goto(w, p) => worker' \in [Worker -> WorkerState]
    BY <1>1 DEF Goto
  <1>3. Finish(w) => worker' \in [Worker -> WorkerState]
    BY <1>1 DEF Finish
  <1>4. CASE GiveUp(w)
    BY <1>3, <1>4 DEF GiveUp, TypeOK
  <1>5. CASE Top(w)
    <2>1. worker' \in [Worker -> WorkerState]
      BY <1>5 DEF Top, TypeOK, WorkerState, Place
    <2>. QED
      BY <2>1, <1>5 DEF Top, TypeOK
  <1>6. CASE Debounce(w)
    <2>1. worker' \in [Worker -> WorkerState]
      BY <1>2, <1>3, <1>6 DEF Debounce, Place
    <2>. QED
      BY <2>1, <1>6 DEF Debounce, TypeOK
  <1>7. CASE Clear(w)
    BY <1>2, <1>7 DEF Clear, TypeOK, Place
  <1>8. CASE Check(w)
    <2>1. worker' \in [Worker -> WorkerState]
      BY <1>2, <1>8 DEF Check, Place
    <2>. QED
      BY <2>1, <1>8 DEF Check, TypeOK
  <1>9. CASE Read(w)
    <2>1. worker' \in [Worker -> WorkerState]
      BY <1>9 DEF Read, TypeOK, WorkerState, Place
    <2>. QED
      BY <2>1, <1>9 DEF Read, TypeOK
  <1>10. CASE ReadFails(w)
    <2>1. failed' \in BOOLEAN
      BY <1>10 DEF ReadFails, TypeOK
    <2>2. worker' \in [Worker -> WorkerState]
      BY <1>2, <1>10 DEF ReadFails, Place
    <2>. QED
      BY <2>1, <2>2, <1>10 DEF ReadFails, TypeOK
  <1>11. CASE PublishSkip(w)
    <2>1. worker' \in [Worker -> WorkerState]
      BY <1>2, <1>11 DEF PublishSkip, Place
    <2>. QED
      BY <2>1, <1>11 DEF PublishSkip, TypeOK
  <1>12. CASE Publish(w)
    <2>1. worker' \in [Worker -> WorkerState]
      <3>1. revision + 1 \in Nat
        BY DEF TypeOK
      <3>2. [worker[w] EXCEPT !.payload = revision + 1, !.pc = "recheck"] \in WorkerState
        BY <1>1, <3>1 DEF WorkerState, Place
      <3>. QED
        BY <3>2, <1>12 DEF Publish, TypeOK
    <2>3. revision' \in Nat
      BY <1>12 DEF Publish, TypeOK
    <2>2. lastFingerprint' \in Status \cup {NoStatus}
      BY <1>1, <1>12 DEF Publish, WorkerState
    <2>. QED
      BY <2>1, <2>2, <2>3, <1>12, Zenon DEF Publish, TypeOK, Generation
  <1>13. CASE Recheck(w)
    <2>1. worker' \in [Worker -> WorkerState]
      BY <1>2, <1>13 DEF Recheck, Place
    <2>. QED
      BY <2>1, <1>13 DEF Recheck, TypeOK
  <1>14. CASE Emit(w)
    <2>1. worker' \in [Worker -> WorkerState]
      BY <1>2, <1>14 DEF Emit, Place
    <2>2. emitted' \in [Generation -> Nat]
      BY <1>1, <1>14 DEF Emit, TypeOK, WorkerState
    <2>. QED
      BY <2>1, <2>2, <1>14 DEF Emit, TypeOK
  <1>15. CASE EmitFails(w)
    <2>1. dropped' \in BOOLEAN
      BY <1>15 DEF EmitFails, TypeOK
    <2>2. worker' \in [Worker -> WorkerState]
      BY <1>2, <1>15 DEF EmitFails, Place
    <2>. QED
      BY <2>1, <2>2, <1>15 DEF EmitFails, TypeOK
  <1>16. CASE End(w)
    <2>1. worker' \in [Worker -> WorkerState]
      BY <1>1, <1>16, BoundsAssumption DEF End, TypeOK, WorkerState, Place, Free
    <2>. QED
      BY <2>1, <1>16 DEF End, TypeOK
  <1>. QED
    BY <1>4, <1>5, <1>6, <1>7, <1>8, <1>9, <1>10, <1>11, <1>12, <1>13, <1>14,
       <1>15, <1>16 DEF WorkerStep

LEMMA TypeStep == TypeOK /\ [Next]_vars => TypeOK'
  <1> SUFFICES ASSUME TypeOK, [Next]_vars PROVE TypeOK'
    OBVIOUS
  <1> USE DEF callerVars, entry, history
  <1>1. ASSUME NEW t \in Status, ChangeRepo(t) PROVE TypeOK'
    BY <1>1 DEF ChangeRepo, TypeOK
  <1>2. ASSUME NEW immediate \in BOOLEAN, Request(immediate) PROVE TypeOK'
    BY <1>2, RequestTypes DEF Request, RequestRefresh, TypeOK
  <1>3. ASSUME NEW a \in Activator, ActivateCheck(a) \/ ActivateFails(a) PROVE TypeOK'
    BY <1>3 DEF ActivateCheck, ActivateFails, Caller, TypeOK
  <1>4. ASSUME NEW a \in Activator, ActivateDraw(a) PROVE TypeOK'
    BY <1>4, BoundsAssumption DEF ActivateDraw, Caller, TypeOK
  <1>5. ASSUME NEW a \in Activator, ActivateInsert(a) PROVE TypeOK'
    <2>1. cancelled' \subseteq 0..MaxGeneration
      BY <1>5 DEF ActivateInsert, CancelCurrent, TypeOK
    <2>. QED
      <3>1. callers' \in [Activator -> {"idle", "draw", "insert", "refresh"}]
        BY <1>5 DEF ActivateInsert, Caller, TypeOK
      <3>2. drawn' \in [Activator -> 0..MaxGeneration]
        BY <1>5, BoundsAssumption DEF ActivateInsert, TypeOK
      <3>3. generation' \in 0..MaxGeneration /\ revision' \in Nat
        BY <1>5 DEF ActivateInsert, TypeOK
      <3>. QED
        BY <2>1, <3>1, <3>2, <3>3, <1>5 DEF ActivateInsert, TypeOK
  <1>6. ASSUME NEW a \in Activator, ActivateRefresh(a) PROVE TypeOK'
    <2>1. callers' \in [Activator -> {"idle", "draw", "insert", "refresh"}]
      BY <1>6 DEF ActivateRefresh, Caller, TypeOK
    <2>. QED
      BY <2>1, <1>6, RequestTypes DEF ActivateRefresh, RequestRefresh, TypeOK
  <1>7. CASE Deactivate
    <2>1. cancelled' \subseteq 0..MaxGeneration
      BY <1>7 DEF Deactivate, CancelCurrent, TypeOK
    <2>2. generation' \in 0..MaxGeneration /\ revision' \in Nat
      BY <1>7, BoundsAssumption DEF Deactivate
    <2>. QED
      BY <2>1, <2>2, <1>7 DEF Deactivate, TypeOK
  <1>8. CASE UNCHANGED vars
    BY <1>8 DEF vars, TypeOK
  <1>. QED
    BY <1>1, <1>2, <1>3, <1>4, <1>5, <1>6, <1>7, <1>8, WorkerTypes
    DEF Next, ActivatorStep

\* Every reachable state of the coordinator, its callers and its workers has its
\* type, for all statuses, callers, workers and bounds.
THEOREM TypeCorrect == Spec => []TypeOK
  BY TypeInit, TypeStep, PTL DEF Spec

-----------------------------------------------------------------------------
(* One worker for each generation.                                         *)

\* The shape of a worker's step, by its action.
LEMMA ShapeOfWorkerStep ==
  ASSUME TypeOK, NEW w \in Worker, WorkerStep(w)
  PROVE  WorkerShape(w)
  <1> USE DEF outside, callerVars, entry, history
  <1>1. worker \in [Worker -> WorkerState] /\ worker[w] \in WorkerState
    BY DEF TypeOK
  <1>2. \A p \in Place \ {"none"} : Goto(w, p) => Moves(w)
    BY <1>1 DEF Goto, Moves, WorkerState, Place
  <1>3. Finish(w) => Leaves(w)
    BY <1>1 DEF Finish, Leaves
  <1>4. CASE GiveUp(w)
    BY <1>3, <1>4 DEF GiveUp, WorkerShape, Live
  <1>5. CASE Top(w)
    BY <1>1, <1>5 DEF Top, At, WorkerShape, Live, Moves, WorkerState
  <1>6. CASE Debounce(w)
    BY <1>2, <1>3, <1>6 DEF Debounce, At, WorkerShape, Live, Place, Current
  <1>7. CASE Clear(w)
    BY <1>2, <1>7 DEF Clear, At, WorkerShape, Live, Place
  <1>8. CASE Check(w)
    BY <1>2, <1>8 DEF Check, At, WorkerShape, Live, Place
  <1>9. CASE Read(w)
    BY <1>1, <1>9 DEF Read, At, WorkerShape, Live, Moves, WorkerState
  <1>10. CASE ReadFails(w)
    BY <1>2, <1>10 DEF ReadFails, At, WorkerShape, Live, Place
  <1>11. CASE PublishSkip(w)
    BY <1>2, <1>11 DEF PublishSkip, At, WorkerShape, Live, Place
  <1>12. CASE Publish(w)
    BY <1>1, <1>12 DEF Publish, At, WorkerShape, Live, Moves, WorkerState
  <1>13. CASE Recheck(w)
    BY <1>2, <1>13 DEF Recheck, At, WorkerShape, Live, Place
  <1>14. CASE Emit(w)
    BY <1>2, <1>14 DEF Emit, At, WorkerShape, Live, Place
  <1>15. CASE EmitFails(w)
    BY <1>2, <1>15 DEF EmitFails, At, WorkerShape, Live, Place
  <1>16. CASE End(w)
    <2>1. Live(w) /\ Current(w)
      BY <1>16 DEF End, At, Live
    <2>2. UNCHANGED <<repo, nextGeneration, callers, drawn, cancelled, active, generation>>
      BY <1>16 DEF End
    <2>3. CASE dirty
      <3>1. worker' = [worker EXCEPT ![w] = [Free EXCEPT !.pc = "top", !.gen = worker[w].gen]]
            /\ scheduled'
        BY <1>16, <2>3 DEF End
      <3>2. Moves(w)
        BY <1>1, <2>1, <3>1 DEF Moves, Free, Current
      <3>. QED
        BY <2>1, <2>2, <3>1, <3>2 DEF WorkerShape
    <2>4. CASE ~dirty
      <3>1. worker' = [worker EXCEPT ![w] = Free] /\ ~scheduled'
        BY <1>16, <2>4 DEF End
      <3>. QED
        BY <1>1, <2>1, <2>2, <3>1 DEF WorkerShape, Leaves
    <2>. QED
      BY <2>3, <2>4
  <1>. QED
    BY <1>4, <1>5, <1>6, <1>7, <1>8, <1>9, <1>10, <1>11, <1>12, <1>13, <1>14,
       <1>15, <1>16 DEF WorkerStep

\* Only Emit writes `emitted`, and only for a live worker's generation.
LEMMA EmittedByWorker ==
  ASSUME TypeOK, NEW w \in Worker, WorkerStep(w)
  PROVE  \A g \in Generation : g # worker[w].gen => emitted'[g] = emitted[g]
  BY DEF TypeOK, WorkerStep, GiveUp, Top, Debounce, Clear, Check, Read, ReadFails,
         PublishSkip, Publish, Recheck, Emit, EmitFails, End, history

\* What a request does to the workers: nothing, or one more, of the entry's own
\* generation and only when none was scheduled.
LEMMA RequestShape ==
  ASSUME TypeOK, NEW immediate \in BOOLEAN, RequestRefresh(immediate)
  PROVE  /\ UNCHANGED <<active, generation, lastFingerprint, revision>>
         /\ scheduled' = (active \/ scheduled)
         /\ \/ worker' = worker /\ (active => scheduled)
            \/ /\ active /\ ~scheduled
               /\ \E w \in Worker :
                    /\ worker[w] = Free
                    /\ worker'[w].pc = "top" /\ worker'[w].gen = generation
                    /\ \A v \in Worker : v # w => worker'[v] = worker[v]
  <1>1. \A w \in Worker : Spawn(w) =>
          /\ worker[w] = Free
          /\ worker'[w].pc = "top" /\ worker'[w].gen = generation
          /\ \A v \in Worker : v # w => worker'[v] = worker[v]
    BY DEF Spawn, TypeOK, Free
  <1>2. scheduled' = (active \/ scheduled)
    BY DEF RequestRefresh
  <1>3. CASE active /\ ~scheduled
    BY <1>1, <1>2, <1>3 DEF RequestRefresh
  <1>4. CASE ~(active /\ ~scheduled)
    BY <1>2, <1>4 DEF RequestRefresh, TypeOK
  <1>. QED
    BY <1>3, <1>4

LEMMA StructureInit == Init => Structure
  <1> SUFFICES ASSUME Init PROVE Structure
    OBVIOUS
  <1>1. \A w \in Worker : ~Live(w)
    BY DEF Init, Live, Free
  <1>2. \A a \in Activator : callers[a] # "insert"
    BY DEF Init
  <1>3. ~active /\ cancelled = {}
    BY DEF Init
  <1>. QED
    BY <1>1, <1>2, <1>3, TypeInit DEF Structure, WorkersApart, EntryIsCurrent,
       DrawnIsFresh, DrawnApart, CancelledWereDrawn, ScheduledIsWorked

\* A request keeps the structure: the worker it spawns has the generation of an
\* entry that had none.
LEMMA StructureRequest ==
  ASSUME Structure, NEW immediate \in BOOLEAN, RequestRefresh(immediate), TypeOK',
         nextGeneration' = nextGeneration, drawn' = drawn, cancelled' = cancelled,
         emitted' = emitted,
         \A a \in Activator : callers'[a] = "insert" => callers[a] = "insert"
  PROVE  Structure'
  <1>1. UNCHANGED <<active, generation>> /\ scheduled' = (active \/ scheduled)
    BY RequestShape DEF Structure
  <1>2. CASE worker' = worker /\ (active => scheduled)
    BY <1>1, <1>2 DEF Structure, WorkersApart, EntryIsCurrent, DrawnIsFresh,
       DrawnApart, CancelledWereDrawn, ScheduledIsWorked, WorkOn, Live
  <1>3. ASSUME active, ~scheduled, NEW w \in Worker, worker[w] = Free,
               worker'[w].pc = "top", worker'[w].gen = generation,
               \A v \in Worker : v # w => worker'[v] = worker[v]
        PROVE  Structure'
    <2>1. \A v \in Worker : Live(v) => worker[v].gen # generation
      BY <1>3 DEF Structure, ScheduledIsWorked, WorkOn
    <2>2. \A v \in Worker : Live(v)' => v = w \/ Live(v)
      BY <1>3 DEF Live
    <2>3. WorkersApart'
      BY <1>1, <1>3, <2>1, <2>2 DEF Structure, WorkersApart, EntryIsCurrent
    <2>4. DrawnIsFresh'
      BY <1>1, <1>3, <2>2 DEF Structure, DrawnIsFresh
    <2>5. ScheduledIsWorked'
      BY <1>1, <1>3 DEF ScheduledIsWorked, WorkOn, Live
    <2>. QED
      BY <1>1, <2>3, <2>4, <2>5 DEF Structure, EntryIsCurrent, DrawnApart,
         CancelledWereDrawn
  <1>. QED
    BY <1>2, <1>3, RequestShape DEF Structure

\* A worker's step keeps the structure: it stays its generation's worker, or
\* ends, and then the entry is unscheduled if it was its own.
LEMMA StructureWorker ==
  ASSUME Structure, NEW w \in Worker, WorkerStep(w), TypeOK'
  PROVE  Structure'
  <1>1. WorkerShape(w)
    BY ShapeOfWorkerStep DEF Structure
  <1>2. /\ Live(w)
        /\ UNCHANGED <<nextGeneration, callers, drawn, cancelled, active, generation>>
    BY <1>1 DEF WorkerShape
  <1>3. worker[w].gen \in Generation
    BY <1>2 DEF Structure, WorkersApart
  <1>4. \A v \in Worker : Live(v)' => Live(v) /\ worker'[v].gen = worker[v].gen
    BY <1>1, <1>2 DEF WorkerShape, Moves, Leaves, Live, Free
  <1>5. WorkersApart'
    BY <1>2, <1>4 DEF Structure, WorkersApart
  <1>6. DrawnIsFresh'
    BY <1>2, <1>3, <1>4, EmittedByWorker DEF Structure, DrawnIsFresh
  <1>7. ScheduledIsWorked'
    <2> SUFFICES ASSUME active
                 PROVE  scheduled' <=> \E v \in Worker : WorkOn(v, generation)'
      BY <1>2 DEF ScheduledIsWorked, WorkOn, Live
    <2>1. scheduled <=> \E v \in Worker : WorkOn(v, generation)
      BY DEF Structure, ScheduledIsWorked
    <2>2. Current(w) <=> worker[w].gen = generation
      BY DEF Structure, EntryIsCurrent, Current
    <2>3. CASE Moves(w) /\ scheduled' = scheduled
      BY <1>2, <2>1, <2>3 DEF Moves, WorkOn, Live
    <2>4. CASE Moves(w) /\ Current(w) /\ scheduled'
      BY <1>2, <2>2, <2>4 DEF Moves, WorkOn, Live
    <2>5. CASE Leaves(w) /\ ~Current(w) /\ scheduled' = scheduled
      BY <1>2, <2>1, <2>2, <2>5 DEF Leaves, WorkOn, Live, Free
    <2>6. CASE Leaves(w) /\ Current(w) /\ ~scheduled'
      <3>1. \A v \in Worker : ~WorkOn(v, generation)'
        BY <1>2, <1>4, <2>2, <2>6 DEF Structure, WorkersApart, Leaves, WorkOn, Live, Free
      <3>. QED
        BY <2>6, <3>1
    <2>. QED
      BY <1>1, <2>3, <2>4, <2>5, <2>6 DEF WorkerShape
  <1>. QED
    BY <1>2, <1>5, <1>6, <1>7 DEF Structure, EntryIsCurrent, DrawnApart, CancelledWereDrawn

\* An activator inserts a generation no worker has, and the entry it replaces
\* has its token cancelled.
LEMMA StructureInsert ==
  ASSUME Structure, NEW a \in Activator, ActivateInsert(a), TypeOK'
  PROVE  Structure'
  <1>1. /\ callers[a] = "insert" /\ callers'[a] = "refresh"
        /\ \A b \in Activator : b # a => callers'[b] = callers[b] /\ drawn'[b] = drawn[b]
        /\ active' /\ generation' = drawn[a] /\ ~scheduled'
        /\ UNCHANGED <<nextGeneration, worker, emitted>>
    BY DEF ActivateInsert, Caller, Structure, TypeOK
  <1>2. cancelled' = IF active THEN cancelled \cup {generation} ELSE cancelled
    BY DEF ActivateInsert, CancelCurrent
  <1>3. /\ drawn[a] \in Generation /\ drawn[a] < nextGeneration
        /\ drawn[a] \notin cancelled'
        /\ \A w \in Worker : Live(w) => worker[w].gen # drawn[a]
    BY <1>1, <1>2 DEF Structure, DrawnIsFresh
  <1>4. WorkersApart'
    BY <1>1 DEF Structure, WorkersApart, Live
  <1>5. EntryIsCurrent'
    BY <1>1, <1>3 DEF EntryIsCurrent
  <1>6. DrawnIsFresh'
    <2> SUFFICES ASSUME NEW b \in Activator, callers'[b] = "insert"
                 PROVE  /\ drawn'[b] \in Generation /\ drawn'[b] < nextGeneration'
                        /\ drawn'[b] \notin cancelled'
                        /\ active' => generation' # drawn'[b]
                        /\ \A w \in Worker : Live(w)' => worker'[w].gen # drawn'[b]
                        /\ emitted'[drawn'[b]] = 0
      BY DEF DrawnIsFresh
    <2>1. b # a /\ callers[b] = "insert" /\ drawn'[b] = drawn[b]
      BY <1>1
    <2>2. drawn[b] # drawn[a]
      BY <1>1, <2>1 DEF Structure, DrawnApart
    <2>. QED
      BY <1>1, <1>2, <2>1, <2>2 DEF Structure, DrawnIsFresh, Live
  <1>7. DrawnApart'
    BY <1>1 DEF Structure, DrawnApart
  <1>8. CancelledWereDrawn'
    BY <1>1, <1>2 DEF Structure, CancelledWereDrawn, EntryIsCurrent
  <1>9. ScheduledIsWorked'
    BY <1>1, <1>3 DEF ScheduledIsWorked, WorkOn, Live
  <1>. QED
    BY <1>4, <1>5, <1>6, <1>7, <1>8, <1>9 DEF Structure

\* The generation an activator draws is above all the others.
LEMMA StructureDraw ==
  ASSUME Structure, PayloadIsNext, NEW a \in Activator, ActivateDraw(a), TypeOK'
  PROVE  Structure'
  <1>1. /\ callers'[a] = "insert" /\ drawn'[a] = nextGeneration
        /\ \A b \in Activator : b # a => callers'[b] = callers[b] /\ drawn'[b] = drawn[b]
        /\ nextGeneration \in Generation /\ nextGeneration' = nextGeneration + 1
        /\ UNCHANGED <<active, generation, scheduled, cancelled, worker, emitted>>
    BY DEF ActivateDraw, Caller, Structure, TypeOK, Generation, entry, history
  <1>2. nextGeneration \in Int
    BY DEF Structure, TypeOK
  <1>3. WorkersApart'
    <2>1. \A w \in Worker : Live(w)' <=> Live(w)
      BY <1>1 DEF Live
    <2>2. \A g \in Generation : g < nextGeneration => g < nextGeneration'
      BY <1>1, <1>2, BoundsAssumption DEF Generation
    <2>. QED
      BY <1>1, <2>1, <2>2 DEF Structure, WorkersApart
  <1>4. EntryIsCurrent'
    BY <1>1, BoundsAssumption DEF Structure, EntryIsCurrent, Generation
  <1>5. DrawnIsFresh'
    <2> SUFFICES ASSUME NEW b \in Activator, callers'[b] = "insert"
                 PROVE  /\ drawn'[b] \in Generation /\ drawn'[b] < nextGeneration'
                        /\ drawn'[b] \notin cancelled'
                        /\ active' => generation' # drawn'[b]
                        /\ \A w \in Worker : Live(w)' => worker'[w].gen # drawn'[b]
                        /\ emitted'[drawn'[b]] = 0
      BY DEF DrawnIsFresh
    <2>1. CASE b = a
      <3>1. drawn'[b] = nextGeneration /\ drawn'[b] \in Generation
            /\ drawn'[b] < nextGeneration'
        BY <1>1, <1>2, <2>1
      <3>2. nextGeneration \notin cancelled
        BY <1>2 DEF Structure, CancelledWereDrawn
      <3>3. active => generation # nextGeneration
        BY <1>2 DEF Structure, EntryIsCurrent
      <3>4. \A w \in Worker : Live(w) => worker[w].gen # nextGeneration
        BY <1>2 DEF Structure, WorkersApart
      <3>5. emitted[nextGeneration] = 0
        BY <1>1, <1>2 DEF PayloadIsNext
      <3>. QED
        BY <1>1, <3>1, <3>2, <3>3, <3>4, <3>5 DEF Live
    <2>2. CASE b # a
      <3>1. callers[b] = "insert" /\ drawn'[b] = drawn[b]
        BY <1>1, <2>2
      <3>2. drawn[b] \in Generation /\ drawn[b] < nextGeneration'
        BY <1>1, <1>2, <3>1, BoundsAssumption DEF Structure, DrawnIsFresh, Generation
      <3>. QED
        BY <1>1, <3>1, <3>2 DEF Structure, DrawnIsFresh, Live
    <2>. QED
      BY <2>1, <2>2
  <1>6. DrawnApart'
    BY <1>1, <1>2 DEF Structure, DrawnApart, DrawnIsFresh
  <1>7. CancelledWereDrawn'
    <2>1. \A g \in cancelled : g \in Int
      BY BoundsAssumption DEF Structure, TypeOK
    <2>. QED
      BY <1>1, <1>2, <2>1 DEF Structure, CancelledWereDrawn
  <1>8. ScheduledIsWorked'
    BY <1>1 DEF Structure, ScheduledIsWorked, WorkOn, Live
  <1>. QED
    BY <1>3, <1>4, <1>5, <1>6, <1>7, <1>8 DEF Structure

LEMMA StructureStep == Structure /\ PayloadIsNext /\ [Next]_vars => Structure'
  <1> SUFFICES ASSUME Structure, PayloadIsNext, [Next]_vars PROVE Structure'
    OBVIOUS
  <1> USE DEF callerVars, entry, history
  <1>0. TypeOK'
    BY TypeStep DEF Structure
  <1>1. ASSUME NEW t \in Status, ChangeRepo(t) PROVE Structure'
    BY <1>0, <1>1 DEF ChangeRepo, Structure, WorkersApart, EntryIsCurrent,
       DrawnIsFresh, DrawnApart, CancelledWereDrawn, ScheduledIsWorked, WorkOn, Live
  <1>2. ASSUME NEW immediate \in BOOLEAN, Request(immediate) PROVE Structure'
    BY <1>0, <1>2, StructureRequest DEF Request
  <1>3. ASSUME NEW a \in Activator, ActivateCheck(a) \/ ActivateFails(a) PROVE Structure'
    <2>1. \A b \in Activator : callers'[b] = "insert" => callers[b] = "insert"
      BY <1>3 DEF ActivateCheck, ActivateFails, Caller, Structure, TypeOK
    <2>. QED
      BY <1>0, <1>3, <2>1 DEF ActivateCheck, ActivateFails, Structure, WorkersApart, EntryIsCurrent,
         DrawnIsFresh, DrawnApart, CancelledWereDrawn, ScheduledIsWorked, WorkOn, Live
  <1>4. ASSUME NEW a \in Activator, ActivateDraw(a) PROVE Structure'
    BY <1>0, <1>4, StructureDraw
  <1>5. ASSUME NEW a \in Activator, ActivateInsert(a) PROVE Structure'
    BY <1>0, <1>5, StructureInsert
  <1>6. ASSUME NEW a \in Activator, ActivateRefresh(a) PROVE Structure'
    <2>1. \A b \in Activator : callers'[b] = "insert" => callers[b] = "insert"
      BY <1>6 DEF ActivateRefresh, Caller, Structure, TypeOK
    <2>2. RequestRefresh(TRUE) /\ UNCHANGED <<nextGeneration, drawn, cancelled, emitted>>
      BY <1>6 DEF ActivateRefresh
    <2>. QED
      BY <1>0, <2>1, <2>2, StructureRequest
  <1>7. CASE Deactivate
    <2>1. ~active' /\ cancelled' = cancelled \cup {generation}
          /\ UNCHANGED <<callers, drawn, nextGeneration, worker, emitted>> /\ active
      BY <1>7 DEF Deactivate, CancelCurrent
    <2>. QED
      BY <1>0, <2>1 DEF Structure, WorkersApart, EntryIsCurrent, DrawnIsFresh,
         DrawnApart, CancelledWereDrawn, ScheduledIsWorked, Live
  <1>8. ASSUME NEW w \in Worker, WorkerStep(w) PROVE Structure'
    BY <1>0, <1>8, StructureWorker
  <1>9. CASE UNCHANGED vars
    BY <1>0, <1>9 DEF vars, Structure, WorkersApart, EntryIsCurrent,
       DrawnIsFresh, DrawnApart, CancelledWereDrawn, ScheduledIsWorked, WorkOn, Live
  <1>. QED
    BY <1>1, <1>2, <1>3, <1>4, <1>5, <1>6, <1>7, <1>8, <1>9 DEF Next, ActivatorStep

-----------------------------------------------------------------------------
(* What is published is emitted, in order.                                 *)

Payloads == PayloadIsNext /\ PublishedIsEmitted

\* Steps that leave the workers, the revision and the emitted history of a
\* standing entry alone.
LEMMA PayloadsKept ==
  ASSUME Payloads, UNCHANGED <<emitted, dropped, generation, revision>>,
         active' = active, TypeOK, nextGeneration' >= nextGeneration,
         nextGeneration' \in Nat,
         \A w \in Worker : worker'[w].pc \in {"recheck", "emit"} =>
           worker'[w] = worker[w],
         \A w \in Worker : worker[w].pc \in {"recheck", "emit"} =>
           worker'[w] = worker[w]
  PROVE  Payloads'
  <1>1. \A g \in Generation : g >= nextGeneration' => emitted'[g] = 0
    BY BoundsAssumption DEF Payloads, PayloadIsNext, Generation, TypeOK
  <1>2. PayloadIsNext'
    BY <1>1 DEF Payloads, PayloadIsNext
  <1>3. PublishedIsEmitted'
    BY DEF Payloads, PublishedIsEmitted
  <1>. QED
    BY <1>2, <1>3 DEF Payloads

\* A request leaves the workers with a payload alone.
LEMMA PayloadsRequest ==
  ASSUME Structure, Payloads, NEW immediate \in BOOLEAN, RequestRefresh(immediate),
         UNCHANGED <<emitted, dropped, nextGeneration>>
  PROVE  Payloads'
  <1>1. UNCHANGED <<active, generation, revision>>
    BY RequestShape DEF Structure
  <1>2. \A w \in Worker : worker'[w] = worker[w]
                          \/ (worker[w] = Free /\ worker'[w].pc = "top")
    <2>1. CASE worker' = worker
      BY <2>1
    <2>2. ASSUME NEW v \in Worker, worker[v] = Free, worker'[v].pc = "top",
                 \A u \in Worker : u # v => worker'[u] = worker[u]
          PROVE  \A w \in Worker : worker'[w] = worker[w]
                                   \/ (worker[w] = Free /\ worker'[w].pc = "top")
      BY <2>2
    <2>3. TypeOK
      BY DEF Structure
    <2>. QED
      BY <2>1, <2>2, <2>3, RequestShape
  <1>3. nextGeneration' \in Nat /\ nextGeneration' >= nextGeneration
    BY BoundsAssumption DEF Structure, TypeOK
  <1>. QED
    BY <1>1, <1>2, <1>3, PayloadsKept DEF Structure, Free

\* A worker's step: publishing makes the next payload, emitting sends it.
LEMMA PayloadsWorker ==
  ASSUME Structure, Payloads, NEW w \in Worker, WorkerStep(w)
  PROVE  Payloads'
  <1> USE DEF outside, callerVars, entry, history
  <1>0. /\ worker \in [Worker -> WorkerState] /\ worker[w] \in WorkerState
        /\ TypeOK /\ nextGeneration \in Nat /\ revision \in Nat
    BY BoundsAssumption DEF Structure, TypeOK
  <1>1. /\ Live(w)
        /\ UNCHANGED <<nextGeneration, active, generation>>
        /\ \A v \in Worker : v # w => worker'[v] = worker[v]
    BY ShapeOfWorkerStep DEF Structure, WorkerShape, Moves, Leaves
  <1>2. /\ worker[w].gen \in Generation
        /\ \A v \in Worker : Live(v) /\ v # w => worker[v].gen # worker[w].gen
        /\ worker[w].gen < nextGeneration
    BY <1>1 DEF Structure, WorkersApart
  <1>3. active => (Current(w) <=> worker[w].gen = generation)
    BY DEF Structure, EntryIsCurrent, Current
  <1>4. ASSUME UNCHANGED <<emitted, dropped, revision>>,
               worker[w].pc \notin {"recheck", "emit"},
               worker'[w].pc \notin {"recheck", "emit"}
        PROVE  Payloads'
    <2>1. \A v \in Worker :
            worker'[v].pc \in {"recheck", "emit"} \/ worker[v].pc \in {"recheck", "emit"}
              => worker'[v] = worker[v]
      BY <1>1, <1>4
    <2>. QED
      BY <1>0, <1>1, <1>4, <2>1, PayloadsKept
  <1>5. CASE GiveUp(w) \/ Top(w) \/ Debounce(w) \/ Clear(w) \/ Check(w) \/ Read(w)
             \/ ReadFails(w) \/ PublishSkip(w) \/ End(w)
    <2>1. UNCHANGED <<emitted, dropped, revision>>
      BY <1>5 DEF GiveUp, Top, Debounce, Clear, Check, Read, ReadFails, PublishSkip, End
    <2>2. worker[w].pc \notin {"recheck", "emit"}
      BY <1>5 DEF GiveUp, Top, Debounce, Clear, Check, Read, ReadFails, PublishSkip,
                  End, At
    <2>3. worker'[w].pc \notin {"recheck", "emit"}
      <3>1. \A p \in Place : Goto(w, p) => worker'[w].pc = p
        BY <1>0 DEF Goto, WorkerState
      <3>2. Finish(w) => worker'[w].pc = "none"
        BY <1>0 DEF Finish, Free
      <3>3. Top(w) => worker'[w].pc \in {"clear", "debounce"}
        BY <1>0 DEF Top, WorkerState
      <3>4. Read(w) => worker'[w].pc = "publish"
        BY <1>0 DEF Read, WorkerState
      <3>5. End(w) => worker'[w].pc \in {"top", "none"}
        BY <1>0 DEF End, Free
      <3>6. GiveUp(w) => worker'[w].pc = "none"
        BY <3>2 DEF GiveUp
      <3>7. Debounce(w) => worker'[w].pc \in {"clear", "none"}
        BY <3>1, <3>2 DEF Debounce, Place
      <3>8. Clear(w) => worker'[w].pc = "check"
        BY <3>1 DEF Clear, Place
      <3>9. Check(w) => worker'[w].pc \in {"read", "end"}
        BY <3>1 DEF Check, Place
      <3>10. ReadFails(w) \/ PublishSkip(w) => worker'[w].pc = "end"
        BY <3>1 DEF ReadFails, PublishSkip, Place
      <3>. QED
        BY <1>5, <3>3, <3>4, <3>5, <3>6, <3>7, <3>8, <3>9, <3>10
    <2>. QED
      BY <1>4, <2>1, <2>2, <2>3
  <1>6. CASE Publish(w)
    <2>1. /\ revision' = revision + 1 /\ active /\ worker[w].gen = generation
          /\ worker'[w].pc = "recheck" /\ worker'[w].payload = revision + 1
          /\ worker'[w].gen = worker[w].gen
          /\ UNCHANGED <<emitted>>
      BY <1>0, <1>6 DEF Publish, Current, WorkerState
    <2>2. emitted[generation] <= revision /\ emitted[generation] \in Nat
      BY <1>2, <2>1 DEF Payloads, PayloadIsNext, Structure, TypeOK
    <2>3. PayloadIsNext'
      BY <1>0, <1>1, <1>2, <2>1, <2>2 DEF Payloads, PayloadIsNext, Live
    <2>4. PublishedIsEmitted'
      BY <1>1, <2>1 DEF PublishedIsEmitted
    <2>. QED
      BY <2>3, <2>4 DEF Payloads
  <1>7. CASE Recheck(w)
    <2>1. /\ UNCHANGED <<emitted, dropped, revision>>
          /\ worker[w].pc = "recheck"
          /\ worker'[w] = [worker[w] EXCEPT !.pc = IF Current(w) THEN "emit" ELSE "end"]
      BY <1>0, <1>7 DEF Recheck, At, Goto
    <2>2. /\ worker'[w].gen = worker[w].gen /\ worker'[w].payload = worker[w].payload
          /\ worker'[w].pc = IF Current(w) THEN "emit" ELSE "end"
      BY <1>0, <2>1 DEF WorkerState
    <2>3. PayloadIsNext'
      BY <1>1, <2>1, <2>2 DEF Payloads, PayloadIsNext
    <2>4. PublishedIsEmitted'
      BY <1>1, <1>3, <2>1, <2>2 DEF Payloads, PublishedIsEmitted
    <2>. QED
      BY <2>3, <2>4 DEF Payloads
  <1>8. CASE Emit(w)
    <2>1. /\ UNCHANGED <<dropped, revision>>
          /\ worker[w].pc = "emit" /\ worker'[w].pc = "end"
          /\ emitted' = [emitted EXCEPT ![worker[w].gen] = worker[w].payload]
      BY <1>0, <1>8 DEF Emit, At, Goto, WorkerState
    <2>2. /\ emitted'[worker[w].gen] = worker[w].payload
          /\ \A g \in Generation : g # worker[w].gen => emitted'[g] = emitted[g]
      BY <1>2, <2>1 DEF Structure, TypeOK
    <2>3. active => generation \in Generation
      BY DEF Structure, EntryIsCurrent
    <2>4. \A v \in Worker : worker'[v].pc \in {"recheck", "emit"} =>
            v # w /\ Live(v) /\ worker[v].gen \in Generation
      BY <1>1, <2>1 DEF Live, Structure, WorkersApart
    <2>5. \A g \in Generation : g >= nextGeneration => g # worker[w].gen
      BY <1>0, <1>2, BoundsAssumption DEF Generation
    <2>6. PayloadIsNext'
      <3>1. \A g \in Generation : g >= nextGeneration' => emitted'[g] = 0
        BY <1>1, <2>2, <2>5 DEF Payloads, PayloadIsNext
      <3>2. active' => emitted'[generation'] <= revision'
        BY <1>0, <1>1, <2>1, <2>2, <2>3 DEF Payloads, PayloadIsNext
      <3>3. ASSUME NEW v \in Worker, worker'[v].pc \in {"recheck", "emit"}
            PROVE  /\ worker'[v].payload > emitted'[worker'[v].gen]
                   /\ active' /\ worker'[v].gen = generation' =>
                        worker'[v].payload = revision'
        <4>1. v # w /\ Live(v) /\ worker[v].gen \in Generation /\ worker'[v] = worker[v]
          BY <1>1, <2>4, <3>3
        <4>2. emitted'[worker[v].gen] = emitted[worker[v].gen]
          BY <1>2, <2>2, <4>1
        <4>. QED
          BY <1>1, <2>1, <3>3, <4>1, <4>2 DEF Payloads, PayloadIsNext
      <3>. QED
        BY <3>1, <3>2, <3>3 DEF PayloadIsNext
    <2>7. PublishedIsEmitted'
      <3> SUFFICES ASSUME active, revision > 0
                   PROVE  PublishedIsEmitted'
        BY <1>1, <2>1 DEF PublishedIsEmitted
      <3>1. CASE worker[w].gen = generation
        BY <1>1, <2>1, <2>2, <3>1 DEF Payloads, PayloadIsNext, PublishedIsEmitted
      <3>2. CASE worker[w].gen # generation
        BY <1>1, <2>1, <2>2, <2>3, <3>2 DEF Payloads, PublishedIsEmitted
      <3>. QED
        BY <3>1, <3>2
    <2>. QED
      BY <2>6, <2>7 DEF Payloads
  <1>9. CASE EmitFails(w)
    <2>1. /\ UNCHANGED <<emitted, revision>> /\ dropped' = (dropped \/ Current(w))
          /\ worker[w].pc = "emit" /\ worker'[w].pc = "end"
      BY <1>0, <1>9 DEF EmitFails, At, Goto, WorkerState
    <2>2. PayloadIsNext'
      BY <1>1, <2>1 DEF Payloads, PayloadIsNext
    <2>3. PublishedIsEmitted'
      BY <1>1, <1>3, <2>1 DEF Payloads, PublishedIsEmitted
    <2>. QED
      BY <2>2, <2>3 DEF Payloads
  <1>. QED
    BY <1>5, <1>6, <1>7, <1>8, <1>9 DEF WorkerStep

LEMMA PayloadsStep ==
  Structure /\ TypeOK' /\ Payloads /\ [Next]_vars => Payloads'
  <1> SUFFICES ASSUME Structure, TypeOK', Payloads, [Next]_vars PROVE Payloads'
    OBVIOUS
  <1> USE DEF callerVars, entry, history
  <1>0. TypeOK /\ nextGeneration \in Nat /\ nextGeneration' \in Nat
    BY BoundsAssumption DEF Structure, TypeOK
  <1>1. ASSUME NEW t \in Status, ChangeRepo(t) PROVE Payloads'
    BY <1>0, <1>1, PayloadsKept DEF ChangeRepo
  <1>2. ASSUME NEW immediate \in BOOLEAN, Request(immediate) PROVE Payloads'
    BY <1>2, PayloadsRequest DEF Request
  <1>3. ASSUME NEW a \in Activator, ActivateCheck(a) \/ ActivateFails(a) PROVE Payloads'
    BY <1>0, <1>3, PayloadsKept DEF ActivateCheck, ActivateFails
  <1>4. ASSUME NEW a \in Activator, ActivateDraw(a) PROVE Payloads'
    BY <1>0, <1>4, PayloadsKept DEF ActivateDraw
  <1>5. ASSUME NEW a \in Activator, ActivateInsert(a) PROVE Payloads'
    <2>1. /\ callers[a] = "insert" /\ generation' = drawn[a] /\ revision' = 0
          /\ UNCHANGED <<nextGeneration, worker, emitted>>
      BY <1>5 DEF ActivateInsert, Caller
    <2>2. emitted[drawn[a]] = 0
          /\ \A w \in Worker : Live(w) => worker[w].gen # drawn[a]
      BY <2>1 DEF Structure, DrawnIsFresh
    <2>3. PayloadIsNext'
      BY <2>1, <2>2 DEF Payloads, PayloadIsNext, Live
    <2>4. PublishedIsEmitted'
      BY <2>1 DEF PublishedIsEmitted
    <2>. QED
      BY <2>3, <2>4 DEF Payloads
  <1>6. ASSUME NEW a \in Activator, ActivateRefresh(a) PROVE Payloads'
    BY <1>6, PayloadsRequest DEF ActivateRefresh
  <1>7. CASE Deactivate
    BY <1>7 DEF Deactivate, Payloads, PayloadIsNext, PublishedIsEmitted
  <1>8. ASSUME NEW w \in Worker, WorkerStep(w) PROVE Payloads'
    BY <1>8, PayloadsWorker
  <1>9. CASE UNCHANGED vars
    BY <1>0, <1>9, PayloadsKept DEF vars
  <1>. QED
    BY <1>1, <1>2, <1>3, <1>4, <1>5, <1>6, <1>7, <1>8, <1>9 DEF Next, ActivatorStep

-----------------------------------------------------------------------------
(* A refresh is not lost.                                                  *)

Refreshes == ReadIsFreshOrDirty /\ NoRefreshIsLost

\* A request makes the entry dirty and gives it a worker.
LEMMA RefreshesRequest ==
  ASSUME Structure, Refreshes, NEW immediate \in BOOLEAN, RequestRefresh(immediate),
         UNCHANGED <<repo, failed>>
  PROVE  Refreshes'
  <1>1. UNCHANGED <<active, generation>> /\ scheduled' = (active \/ scheduled)
    BY RequestShape DEF Structure
  <1>2. asked' = active /\ dirty' = (active \/ dirty)
    BY DEF RequestRefresh
  <1>3. CASE active
    BY <1>1, <1>2, <1>3 DEF Refreshes, ReadIsFreshOrDirty, NoRefreshIsLost
  <1>4. CASE ~active
    BY <1>1, <1>4 DEF Refreshes, ReadIsFreshOrDirty, NoRefreshIsLost
  <1>. QED
    BY <1>3, <1>4

\* A worker's step: the entry is clean only from Clear on, and then its worker has
\* yet to read; what it read stays current until the entry is dirty again.
LEMMA RefreshesWorker ==
  ASSUME Structure, Refreshes, NEW w \in Worker, WorkerStep(w)
  PROVE  Refreshes'
  <1> USE DEF outside, callerVars, entry, history
  <1>0. worker \in [Worker -> WorkerState] /\ worker[w] \in WorkerState /\ TypeOK
    BY DEF Structure, TypeOK
  <1>1. /\ Live(w)
        /\ UNCHANGED <<repo, active, generation>>
        /\ \A v \in Worker : v # w => worker'[v] = worker[v]
    BY ShapeOfWorkerStep DEF Structure, WorkerShape, Moves, Leaves
  <1>2. asked' = asked
    BY DEF WorkerStep, GiveUp, Top, Debounce, Clear, Check, Read, ReadFails,
           PublishSkip, Publish, Recheck, Emit, EmitFails, End
  <1>3. CASE ~active
    BY <1>1, <1>3 DEF Refreshes, ReadIsFreshOrDirty, NoRefreshIsLost
  <1>4. CASE active /\ worker[w].gen # generation
    <2>1. ~Current(w)
      BY <1>4 DEF Current
    <2>2. UNCHANGED <<dirty, scheduled, lastFingerprint, failed>>
      BY <1>0, <2>1 DEF WorkerStep, GiveUp, Top, Debounce, Clear, Check, Read, ReadFails,
           PublishSkip, Publish, Recheck, Emit, EmitFails, End, TypeOK
    <2>3. worker'[w].pc = "none" \/ worker'[w].gen = worker[w].gen
      BY ShapeOfWorkerStep, <1>0 DEF WorkerShape, Moves, Leaves, Free
    <2>4. ReadIsFreshOrDirty'
      BY <1>1, <1>2, <1>4, <2>2, <2>3 DEF Refreshes, ReadIsFreshOrDirty, At
    <2>5. NoRefreshIsLost'
      BY <1>1, <1>2, <1>4, <2>2 DEF Refreshes, NoRefreshIsLost, Live
    <2>. QED
      BY <2>4, <2>5 DEF Refreshes
  <1>5. CASE active /\ worker[w].gen = generation
    <2>1. Current(w)
      BY <1>5 DEF Current, Structure, EntryIsCurrent
    <2>2. \A v \in Worker : Live(v) /\ worker[v].gen = generation => v = w
      BY <1>1, <1>5 DEF Structure, WorkersApart
    <2>3. \A v \in Worker : v # w =>
            ~(worker'[v].gen = generation' /\ worker'[v].pc # "none")
      BY <1>1, <2>2 DEF Live
    <2>4. scheduled
      BY <1>1, <1>5 DEF Structure, ScheduledIsWorked, WorkOn
    <2>5. \* what has to hold of w alone
          ASSUME dirty' => scheduled',
                 asked /\ worker'[w].gen = generation /\ worker'[w].pc = "publish" =>
                   dirty' \/ worker'[w].status = repo,
                 asked => \/ dirty' /\ scheduled'
                          \/ /\ worker'[w].pc # "none" /\ worker'[w].gen = generation
                             /\ \/ worker'[w].pc \in {"check", "read"}
                                \/ worker'[w].pc = "publish" /\ worker'[w].status = repo
                          \/ lastFingerprint' = repo
                          \/ failed'
          PROVE  Refreshes'
      <3>1. ReadIsFreshOrDirty'
        BY <1>1, <1>2, <2>3, <2>5 DEF ReadIsFreshOrDirty, At
      <3>2. NoRefreshIsLost'
        BY <1>1, <1>2, <2>5 DEF NoRefreshIsLost, Live
      <3>. QED
        BY <3>1, <3>2 DEF Refreshes
    <2>6. asked /\ ~dirty =>
            \/ worker[w].pc \in {"check", "read"}
            \/ worker[w].pc = "publish" /\ worker[w].status = repo
            \/ lastFingerprint = repo
            \/ failed
      BY <1>5, <2>2 DEF Refreshes, NoRefreshIsLost
    <2>7. asked /\ worker[w].pc = "publish" => dirty \/ worker[w].status = repo
      BY <1>5 DEF Refreshes, ReadIsFreshOrDirty, At
    <2>8. CASE Top(w) \/ Debounce(w)
      <3>1. /\ worker[w].pc \in {"top", "debounce"}
            /\ UNCHANGED <<dirty, scheduled, lastFingerprint, failed>>
        BY <2>8 DEF Top, Debounce, At
      <3>2. worker'[w].pc # "publish"
        BY <1>0, <2>8 DEF Top, Debounce, Goto, Finish, Free, WorkerState
      <3>. QED
        BY <2>4, <2>5, <2>6, <3>1, <3>2
    <2>9. CASE Clear(w)
      BY <1>0, <1>5, <2>5, <2>9 DEF Clear, Goto, WorkerState
    <2>10. CASE Check(w)
      BY <1>0, <1>5, <2>1, <2>4, <2>5, <2>6, <2>10 DEF Check, Goto, WorkerState
    <2>11. CASE Read(w)
      BY <1>0, <1>5, <2>4, <2>5, <2>11 DEF Read, WorkerState
    <2>12. CASE ReadFails(w)
      <3>1. failed' /\ worker'[w].pc = "end" /\ UNCHANGED <<dirty, scheduled>>
        BY <1>0, <2>1, <2>12 DEF ReadFails, Goto, WorkerState
      <3>. QED
        BY <2>4, <2>5, <3>1
    <2>13. CASE PublishSkip(w)
      <3>1. /\ worker[w].pc = "publish" /\ worker'[w].pc = "end"
            /\ lastFingerprint = worker[w].status
            /\ UNCHANGED <<dirty, scheduled, lastFingerprint, failed>>
        BY <1>0, <2>1, <2>13 DEF PublishSkip, Goto, WorkerState, At
      <3>. QED
        BY <2>4, <2>5, <2>7, <3>1
    <2>14. CASE Publish(w)
      <3>1. /\ worker[w].pc = "publish" /\ worker'[w].pc = "recheck"
            /\ lastFingerprint' = worker[w].status
            /\ UNCHANGED <<dirty, scheduled>>
        BY <1>0, <2>14 DEF Publish, WorkerState, At
      <3>. QED
        BY <2>4, <2>5, <2>7, <3>1
    <2>15. CASE Recheck(w) \/ Emit(w) \/ EmitFails(w)
      <3>1. /\ worker[w].pc \in {"recheck", "emit"}
            /\ UNCHANGED <<dirty, scheduled, lastFingerprint, failed>>
        BY <2>15 DEF Recheck, Emit, EmitFails, At
      <3>2. worker'[w].pc # "publish"
        BY <1>0, <2>15 DEF Recheck, Emit, EmitFails, Goto, WorkerState
      <3>. QED
        BY <2>4, <2>5, <2>6, <3>1, <3>2
    <2>16. CASE End(w)
      <3>1. /\ worker[w].pc = "end" /\ scheduled' = dirty
            /\ UNCHANGED <<dirty, lastFingerprint, failed>>
        BY <2>16 DEF End, At
      <3>2. worker'[w].pc # "publish"
        BY <1>0, <2>16 DEF End, Free
      <3>3. dirty \in BOOLEAN
        BY <1>0 DEF TypeOK
      <3>. QED
        BY <2>5, <2>6, <3>1, <3>2, <3>3
    <2>17. ~GiveUp(w)
      BY <2>1 DEF GiveUp
    <2>. QED
      BY <2>8, <2>9, <2>10, <2>11, <2>12, <2>13, <2>14, <2>15, <2>16, <2>17
      DEF WorkerStep
  <1>. QED
    BY <1>3, <1>4, <1>5

LEMMA RefreshesStep == Structure /\ Refreshes /\ [Next]_vars => Refreshes'
  <1> SUFFICES ASSUME Structure, Refreshes, [Next]_vars PROVE Refreshes'
    OBVIOUS
  <1> USE DEF callerVars, entry, history
  <1>0. ASSUME UNCHANGED <<entry, worker, failed>>, repo' = repo, asked' = asked
        PROVE  Refreshes'
    BY <1>0 DEF Refreshes, ReadIsFreshOrDirty, NoRefreshIsLost, Live, At
  <1>1. ASSUME NEW t \in Status, ChangeRepo(t) PROVE Refreshes'
    BY <1>1 DEF ChangeRepo, Refreshes, ReadIsFreshOrDirty, NoRefreshIsLost
  <1>2. ASSUME NEW immediate \in BOOLEAN, Request(immediate) PROVE Refreshes'
    BY <1>2, RefreshesRequest DEF Request
  <1>3. ASSUME NEW a \in Activator, ActivateCheck(a) \/ ActivateFails(a) PROVE Refreshes'
    BY <1>0, <1>3 DEF ActivateCheck, ActivateFails
  <1>4. ASSUME NEW a \in Activator, ActivateDraw(a) PROVE Refreshes'
    BY <1>0, <1>4 DEF ActivateDraw
  <1>5. ASSUME NEW a \in Activator, ActivateInsert(a) PROVE Refreshes'
    BY <1>5 DEF ActivateInsert, Refreshes, ReadIsFreshOrDirty, NoRefreshIsLost
  <1>6. ASSUME NEW a \in Activator, ActivateRefresh(a) PROVE Refreshes'
    BY <1>6, RefreshesRequest DEF ActivateRefresh
  <1>7. CASE Deactivate
    BY <1>7 DEF Deactivate, Refreshes, ReadIsFreshOrDirty, NoRefreshIsLost
  <1>8. ASSUME NEW w \in Worker, WorkerStep(w) PROVE Refreshes'
    BY <1>8, RefreshesWorker
  <1>9. CASE UNCHANGED vars
    BY <1>0, <1>9 DEF vars
  <1>. QED
    BY <1>1, <1>2, <1>3, <1>4, <1>5, <1>6, <1>7, <1>8, <1>9 DEF Next, ActivatorStep

-----------------------------------------------------------------------------
(* The theorems.                                                           *)

\* The strengthened invariant holds in every reachable state.
THEOREM GInvCorrect == Spec => []GInv
  <1>1. Init => GInv
    <2> SUFFICES ASSUME Init PROVE GInv
      OBVIOUS
    <2>1. ~active /\ ~dirty
      BY DEF Init
    <2>2. \A w \in Worker : worker[w].pc = "none"
      BY DEF Init, Free
    <2>3. \A g \in Generation : emitted[g] = 0
      BY DEF Init
    <2>. QED
      BY <2>1, <2>2, <2>3, StructureInit DEF GInv, ReadIsFreshOrDirty,
         NoRefreshIsLost, PayloadIsNext, PublishedIsEmitted
  <1>2. GInv /\ [Next]_vars => GInv'
    <2> SUFFICES ASSUME GInv, [Next]_vars PROVE GInv'
      OBVIOUS
    <2>1. Structure'
      BY StructureStep DEF GInv
    <2>2. TypeOK'
      BY <2>1 DEF Structure
    <2>3. Payloads'
      BY <2>2, PayloadsStep DEF GInv, Payloads
    <2>4. Refreshes'
      BY RefreshesStep DEF GInv, Refreshes
    <2>. QED
      BY <2>1, <2>3, <2>4 DEF GInv, Payloads, Refreshes
  <1>. QED
    BY <1>1, <1>2, PTL DEF Spec

\* However activations, closes and requests interleave, a generation never has two
\* workers, and a standing entry is scheduled exactly while it has one.
THEOREM OneWorkerPerGenerationCorrect == Spec => []OneWorkerPerGeneration
  <1>1. GInv => OneWorkerPerGeneration
    BY DEF GInv, Structure, WorkersApart, ScheduledIsWorked, OneWorkerPerGeneration, WorkOn
  <1>. QED
    BY <1>1, GInvCorrect, PTL

\* A refresh asked for since the last change of the repository is on its way,
\* served, or failed: never forgotten.
THEOREM NoRefreshIsLostCorrect == Spec => []NoRefreshIsLost
  <1>1. GInv => NoRefreshIsLost
    BY DEF GInv
  <1>. QED
    BY <1>1, GInvCorrect, PTL

\* What an entry published was emitted, is about to be, or failed to be.
THEOREM PublishedIsEmittedCorrect == Spec => []PublishedIsEmitted
  <1>1. GInv => PublishedIsEmitted
    BY DEF GInv
  <1>. QED
    BY <1>1, GInvCorrect, PTL

\* The revisions of a generation are emitted in order.
THEOREM RevisionsIncreaseCorrect == Spec => RevisionsIncrease
  <1>1. ASSUME GInv, [Next]_vars, NEW g \in Generation, emitted'[g] # emitted[g]
        PROVE  /\ emitted'[g] > emitted[g]
               /\ active /\ generation = g => emitted'[g] <= revision
    <2>0. TypeOK /\ Structure /\ PayloadIsNext
      BY <1>1 DEF GInv, Structure
    <2>1. PICK w \in Worker : WorkerStep(w)
      BY <1>1 DEF Next, vars, history, ChangeRepo, Request, ActivatorStep, ActivateCheck,
         ActivateFails, ActivateDraw, ActivateInsert, ActivateRefresh, Deactivate
    <2>2. Emit(w)
      BY <1>1, <2>1 DEF WorkerStep, GiveUp, Top, Debounce, Clear, Check, Read, ReadFails,
         PublishSkip, Publish, Recheck, EmitFails, End, history
    <2>3. /\ worker[w].pc = "emit"
          /\ emitted' = [emitted EXCEPT ![worker[w].gen] = worker[w].payload]
      BY <2>2 DEF Emit, At
    <2>4. worker[w].gen = g /\ emitted'[g] = worker[w].payload
      BY <1>1, <2>0, <2>3 DEF TypeOK
    <2>5. revision \in Nat
      BY <2>0 DEF TypeOK
    <2>. QED
      BY <2>0, <2>3, <2>4, <2>5 DEF PayloadIsNext
  <1>2. GInv /\ [Next]_vars =>
          [\A g \in Generation : emitted'[g] # emitted[g] =>
             /\ emitted'[g] > emitted[g]
             /\ active /\ generation = g => emitted'[g] <= revision]_vars
    BY <1>1
  <1>. QED
    BY <1>2, GInvCorrect, PTL DEF Spec, RevisionsIncrease

-----------------------------------------------------------------------------
(***************************************************************************)
(* The feed.  Every step of it is a step of the coordinator or leaves it   *)
(* alone, so what is proved of the coordinator holds here: a revision that *)
(* is emitted is newer than those before it.                               *)
(***************************************************************************)

-----------------------------------------------------------------------------
(* The strengthening.                                                      *)

\* The newest push of a generation is about what the coordinator has emitted.
NewestWasEmitted ==
  \A g \in Generation : newest[g] # NoSnapshot =>
    newest[g].gen = g /\ newest[g].revision <= emitted[g]

\* What was pushed is the newest of its generation, or older than it.
NotAhead(event) ==
  /\ newest[event.gen] # NoSnapshot
  /\ event = newest[event.gen] \/ event.revision < newest[event.gen].revision

PushesAreNotAhead == \A event \in pushes : NotAhead(event)

SnapshotIsNotAhead == snapshot # NoSnapshot => NotAhead(snapshot)

\* The newest of a generation is on its way or kept, or the generation is held back.
NewestArrives ==
  \A g \in Generation : newest[g] # NoSnapshot =>
    newest[g] \in pushes \/ snapshot = newest[g] \/ HeldBack(g)

Feed ==
  FeedTypeOK /\ NewestWasEmitted /\ PushesAreNotAhead /\ SnapshotIsNotAhead /\ NewestArrives

\* A worker that has got as far as to publish has read a status.
StatusIsRead ==
  \A w \in Worker : worker[w].pc \in {"publish", "recheck", "emit"} => worker[w].status \in Status

FInv == GInv /\ StatusIsRead /\ Feed

-----------------------------------------------------------------------------
(* The coordinator in the feed.                                            *)

\* A step of the feed is a step of the coordinator, or none.
LEMMA StepOfCoordinator == [FeedNext]_<<vars, feedVars>> => [Next]_vars
  BY DEF FeedNext, CoordinatorStep, EmitToHook, Watch, Push, Next, WorkerStep

\* So the feed's coordinator behaves as its specification says.
THEOREM FeedHasCoordinator == FeedSpec => Spec
  <1>1. FeedInit => Init
    BY DEF FeedInit
  <1>. QED
    BY <1>1, StepOfCoordinator, PTL DEF FeedSpec, Spec

-----------------------------------------------------------------------------
(* The steps.                                                              *)

\* Tasks are spawned at the top of the loop, and read before they publish.
LEMMA StatusStep ==
  ASSUME GInv, StatusIsRead, [Next]_vars
  PROVE  StatusIsRead'
  <1> USE DEF callerVars, entry, history, outside
  <1>0. worker \in [Worker -> WorkerState] /\ repo \in Status
    BY DEF GInv, Structure, TypeOK
  <1>1. ASSUME UNCHANGED worker
        PROVE  StatusIsRead'
    BY <1>1 DEF StatusIsRead
  <1>2. ASSUME NEW immediate \in BOOLEAN, RequestRefresh(immediate)
        PROVE  StatusIsRead'
    <2>1. ASSUME NEW v \in Worker, Spawn(v)
          PROVE  StatusIsRead'
      <3>1. worker'[v].pc = "top" /\ \A w \in Worker \ {v} : worker'[w] = worker[w]
        BY <1>0, <2>1 DEF Spawn, Free
      <3>. QED
        BY <3>1 DEF StatusIsRead
    <2>. QED
      BY <1>1, <1>2, <2>1 DEF RequestRefresh
  <1>3. ASSUME NEW v \in Worker, WorkerStep(v)
        PROVE  StatusIsRead'
    <2>0. worker[v] \in WorkerState /\ \A w \in Worker \ {v} : worker'[w] = worker[w]
      BY <1>0, <1>3, ShapeOfWorkerStep DEF WorkerShape, Moves, Leaves, GInv, Structure
    <2>1. CASE Read(v)
      <3>1. worker'[v].status = repo
        BY <1>0, <2>0, <2>1 DEF Read, WorkerState
      <3>. QED
        BY <1>0, <2>0, <3>1 DEF StatusIsRead
    <2>2. CASE Publish(v) \/ Recheck(v)
      <3>1. worker'[v].status = worker[v].status /\ worker[v].pc \in {"publish", "recheck"}
        BY <1>0, <2>0, <2>2 DEF Publish, Recheck, Goto, At, WorkerState
      <3>. QED
        BY <2>0, <3>1 DEF StatusIsRead
    <2>3. CASE ~Read(v) /\ ~Publish(v) /\ ~Recheck(v)
      <3>1. ASSUME NEW place \in {"clear", "check", "read", "end"}, Goto(v, place)
            PROVE  worker'[v].pc \notin {"publish", "recheck", "emit"}
        BY <1>0, <3>1 DEF Goto, WorkerState
      <3>2. ASSUME Finish(v) \/ End(v)
            PROVE  worker'[v].pc \notin {"publish", "recheck", "emit"}
        <4>1. worker'[v] = Free \/ worker'[v] = [Free EXCEPT !.pc = "top", !.gen = worker[v].gen]
          BY <1>0, <3>2 DEF Finish, End
        <4>2. [Free EXCEPT !.pc = "top", !.gen = worker[v].gen].pc = "top" /\ Free.pc = "none"
          BY DEF Free
        <4>. QED
          BY <4>1, <4>2
      <3>3. ASSUME Top(v)
            PROVE  worker'[v].pc \notin {"publish", "recheck", "emit"}
        BY <1>0, <2>0, <3>3 DEF Top, WorkerState
      <3>4. worker'[v].pc \notin {"publish", "recheck", "emit"}
        BY <1>3, <2>3, <3>1, <3>2, <3>3
        DEF WorkerStep, GiveUp, Debounce, Clear, Check, ReadFails, PublishSkip, Emit, EmitFails
      <3>. QED
        BY <2>0, <3>4 DEF StatusIsRead
    <2>. QED
      BY <2>1, <2>2, <2>3
  <1>. QED
    BY <1>1, <1>2, <1>3
    DEF Next, vars, ChangeRepo, Request, ActivatorStep, ActivateCheck, ActivateFails,
        ActivateDraw, ActivateInsert, ActivateRefresh, Deactivate

\* What is emitted is newer than all that its generation emitted before.
LEMMA EmittedIsNext ==
  ASSUME GInv, StatusIsRead, NEW w \in Worker, Emit(w)
  PROVE  /\ worker[w].gen \in Generation /\ worker[w].status \in Status
         /\ worker[w].payload \in Nat /\ worker[w].payload > emitted[worker[w].gen]
         /\ emitted' = [emitted EXCEPT ![worker[w].gen] = worker[w].payload]
  <1>1. worker[w] \in WorkerState
    BY DEF GInv, Structure, TypeOK
  <1>2. Live(w) /\ worker[w].pc = "emit"
    BY DEF Emit, At, Live
  <1>. QED
    BY <1>1, <1>2 DEF Emit, GInv, Structure, WorkersApart, PayloadIsNext, StatusIsRead, WorkerState

LEMMA FeedSame ==
  ASSUME Feed, UNCHANGED <<emitted, pushes, snapshot, newest>>, watching' \in BOOLEAN
  PROVE  Feed'
  BY DEF Feed, FeedTypeOK, NewestWasEmitted, PushesAreNotAhead, SnapshotIsNotAhead,
         NotAhead, NewestArrives, HeldBack

\* An event goes out as the newest of its generation.
LEMMA FeedEmit ==
  ASSUME GInv, StatusIsRead, Feed, NEW w \in Worker, EmitToHook(w)
  PROVE  Feed'
  <1> DEFINE g == worker[w].gen
  <1>1. /\ g \in Generation /\ worker[w].status \in Status
        /\ worker[w].payload \in Nat /\ worker[w].payload > emitted[g]
        /\ emitted' = [emitted EXCEPT ![g] = worker[w].payload]
    BY EmittedIsNext DEF EmitToHook
  <1>2. UNCHANGED <<watching, snapshot>>
    BY DEF EmitToHook
  <1>3. PICK event \in Snapshot :
          /\ OnGitUpdated(event) /\ event.gen = g /\ event.revision = worker[w].payload
    <2> DEFINE e == [status |-> worker[w].status, revision |-> worker[w].payload, gen |-> g]
    <2>1. e \in Snapshot /\ e.gen = g /\ e.revision = worker[w].payload
      BY <1>1 DEF Snapshot
    <2>2. OnGitUpdated(e)
      BY DEF EmitToHook
    <2>. QED
      BY <2>1, <2>2
  <1>4. emitted \in [Generation -> Nat]
    BY DEF GInv, Structure, TypeOK
  <1>5. \A h \in Generation : emitted[h] <= emitted'[h]
    BY <1>1, <1>4
  <1>6. emitted'[g] = event.revision
    BY <1>1, <1>3, <1>4
  <1> HIDE DEF g
  <1>7. CASE UNCHANGED <<pushes, newest>>
    <2>1. NewestWasEmitted'
      <3>1. \A h \in Generation : newest[h] # NoSnapshot => newest[h].revision \in Nat
        BY DEF Feed, FeedTypeOK, Snapshot
      <3>. QED
        BY <1>4, <1>5, <1>7, <3>1, <1>1 DEF Feed, NewestWasEmitted
    <2>. QED
      BY <1>2, <1>7, <2>1 DEF Feed, FeedTypeOK, PushesAreNotAhead, SnapshotIsNotAhead,
                              NotAhead, NewestArrives, HeldBack
  <1>8. CASE /\ event.status \notin Unavailable /\ pushes' = pushes \cup {event}
             /\ newest' = [newest EXCEPT ![event.gen] = event]
    <2>0. newest \in [Generation -> Snapshot \cup {NoSnapshot}]
      BY DEF Feed, FeedTypeOK
    <2>1. newest'[g] = event /\ \A h \in Generation \ {g} : newest'[h] = newest[h]
      BY <1>1, <1>3, <1>8, <2>0
    <2>2. event # NoSnapshot
      BY <1>3, NoSnapshotAssumption
    <2>3. FeedTypeOK'
      BY <1>2, <1>3, <1>8, <2>0 DEF Feed, FeedTypeOK
    <2>4. NewestWasEmitted'
      <3>1. \A h \in Generation \ {g} : emitted'[h] = emitted[h]
        BY <1>1, <1>4
      <3>. QED
        BY <1>1, <1>3, <1>4, <1>6, <2>1, <3>1 DEF Feed, NewestWasEmitted
    <2>5. ASSUME NEW e \in Snapshot, NotAhead(e), newest[e.gen] # NoSnapshot
          PROVE  NotAhead(e)'
      <3>1. CASE e.gen = g
        <4>1. e.revision <= newest[g].revision /\ newest[g].revision <= emitted[g]
          BY <1>1, <2>5, <3>1, <2>0 DEF NotAhead, Feed, NewestWasEmitted, Snapshot
        <4>2. e.revision < event.revision
          BY <1>1, <1>3, <1>4, <2>5, <3>1, <4>1, <2>0 DEF Snapshot
        <4>. QED
          BY <2>1, <2>2, <3>1, <4>2 DEF NotAhead
      <3>2. CASE e.gen # g
        <4>1. newest'[e.gen] = newest[e.gen]
          BY <2>1, <2>5, <3>2 DEF Snapshot
        <4>. QED
          BY <2>5, <4>1 DEF NotAhead
      <3>. QED
        BY <3>1, <3>2
    <2>6. NotAhead(event)'
      BY <1>3, <2>1, <2>2 DEF NotAhead
    <2>7. PushesAreNotAhead'
      BY <1>8, <2>5, <2>6 DEF Feed, FeedTypeOK, PushesAreNotAhead, NotAhead
    <2>8. SnapshotIsNotAhead'
      BY <1>2, <2>5 DEF Feed, FeedTypeOK, SnapshotIsNotAhead, NotAhead
    <2>9. NewestArrives'
      <3>1. ASSUME NEW h \in Generation \ {g}, newest[h] # NoSnapshot
            PROVE  newest'[h] \in pushes' \/ snapshot' = newest'[h] \/ HeldBack(h)'
        <4>1. newest'[h] = newest[h] /\ pushes \subseteq pushes' /\ snapshot' = snapshot
          BY <1>2, <1>8, <2>1, <3>1
        <4>2. ASSUME HeldBack(h) PROVE HeldBack(h)'
          <5>1. PICK k \in Generation \ {h} :
                  newest[k] # NoSnapshot /\ newest[k].revision >= newest[h].revision
            BY <4>2 DEF HeldBack
          <5>2. CASE k = g
            <6>1. newest[g] \in Snapshot /\ newest[h] \in Snapshot
              BY <2>0, <3>1, <5>1, <5>2
            <6>2. newest[g].revision <= emitted[g]
              BY <1>1, <5>1, <5>2 DEF Feed, NewestWasEmitted
            <6>3. event.revision >= newest[h].revision
              BY <1>1, <1>3, <1>4, <5>1, <5>2, <6>1, <6>2 DEF Snapshot
            <6>. QED
              BY <2>1, <2>2, <3>1, <4>1, <5>1, <5>2, <6>3 DEF HeldBack
          <5>3. CASE k # g
            BY <2>1, <4>1, <5>1, <5>3 DEF HeldBack
          <5>. QED
            BY <5>2, <5>3
        <4>. QED
          BY <3>1, <4>1, <4>2 DEF Feed, NewestArrives
      <3>2. newest'[g] \in pushes'
        BY <1>8, <2>1
      <3>. QED
        BY <1>1, <2>1, <3>1, <3>2 DEF NewestArrives
    <2>. QED
      BY <2>3, <2>4, <2>7, <2>8, <2>9 DEF Feed
  <1>. QED
    BY <1>3, <1>7, <1>8 DEF OnGitUpdated

\* A push that arrives is kept unless the feed has as new a revision already.
LEMMA FeedPush ==
  ASSUME GInv, Feed, NEW event \in pushes, Push(event)
  PROVE  Feed'
  <1>1. /\ pushes' = pushes \ {event} /\ UNCHANGED <<watching, newest, emitted>>
        /\ snapshot' = IF snapshot # NoSnapshot /\ snapshot.revision >= event.revision
                       THEN snapshot ELSE event
    BY DEF Push, vars, history
  <1>2. /\ event \in Snapshot /\ event.gen \in Generation /\ NotAhead(event)
        /\ newest \in [Generation -> Snapshot \cup {NoSnapshot}]
    BY DEF Feed, FeedTypeOK, PushesAreNotAhead, Snapshot
  <1>3. FeedTypeOK' /\ NewestWasEmitted' /\ PushesAreNotAhead' /\ SnapshotIsNotAhead'
    BY <1>1, <1>2 DEF Feed, FeedTypeOK, NewestWasEmitted, PushesAreNotAhead,
                      SnapshotIsNotAhead, NotAhead
  <1>4. ASSUME NEW g \in Generation, newest[g] # NoSnapshot, ~HeldBack(g)
        PROVE  newest[g] \in pushes' \/ snapshot' = newest[g]
    <2>1. newest[g] \in pushes \/ snapshot = newest[g]
      BY <1>4 DEF Feed, NewestArrives
    <2>2. newest[g] \in Snapshot /\ newest[g].revision \in Nat /\ event.revision \in Nat
      BY <1>2, <1>4 DEF Snapshot
    <2>3. ASSUME NEW e \in Snapshot, NotAhead(e), e.revision >= newest[g].revision
          PROVE  e = newest[g]
      <3>1. newest[e.gen] \in Snapshot /\ e.gen \in Generation
        BY <1>2, <2>3 DEF NotAhead, Snapshot
      <3>2. newest[e.gen].revision >= newest[g].revision
        BY <2>2, <2>3, <3>1 DEF NotAhead, Snapshot
      <3>3. e.gen = g
        BY <1>4, <3>1, <3>2, NoSnapshotAssumption DEF HeldBack
      <3>. QED
        BY <2>2, <2>3, <3>3 DEF NotAhead, Snapshot
    <2>4. CASE event = newest[g]
      <3>1. snapshot # NoSnapshot /\ snapshot.revision >= event.revision => snapshot = newest[g]
        BY <2>3, <2>4 DEF Feed, FeedTypeOK, SnapshotIsNotAhead
      <3>. QED
        BY <1>1, <2>4, <3>1
    <2>5. CASE event # newest[g]
      <3>1. event.revision < newest[g].revision
        BY <1>2, <2>2, <2>3, <2>5
      <3>2. CASE newest[g] \in pushes
        BY <1>1, <2>5, <3>2
      <3>3. CASE snapshot = newest[g]
        BY <1>1, <1>4, <2>2, <3>1, <3>3
      <3>. QED
        BY <2>1, <3>2, <3>3
    <2>. QED
      BY <2>4, <2>5
  <1>5. NewestArrives'
    BY <1>1, <1>4 DEF NewestArrives, HeldBack
  <1>. QED
    BY <1>3, <1>5 DEF Feed

LEMMA FeedStep ==
  ASSUME FInv, [FeedNext]_<<vars, feedVars>>
  PROVE  StatusIsRead' /\ Feed'
  <1>0. GInv /\ StatusIsRead /\ Feed
    BY DEF FInv
  <1>1. StatusIsRead'
    BY <1>0, StatusStep, StepOfCoordinator
  <1>2. CASE CoordinatorStep \/ Watch \/ UNCHANGED <<vars, feedVars>>
    <2>1. UNCHANGED <<emitted, pushes, snapshot, newest>>
      BY <1>2 DEF CoordinatorStep, Watch, feedVars, vars, history
    <2>2. watching' \in BOOLEAN
      BY <1>0, <1>2 DEF CoordinatorStep, Watch, feedVars, Feed, FeedTypeOK
    <2>. QED
      BY <1>0, <1>1, <2>1, <2>2, FeedSame
  <1>3. ASSUME NEW w \in Worker, EmitToHook(w)
        PROVE  Feed'
    BY <1>0, <1>3, FeedEmit
  <1>4. ASSUME NEW event \in pushes, Push(event)
        PROVE  Feed'
    BY <1>0, <1>4, FeedPush
  <1>. QED
    BY <1>1, <1>2, <1>3, <1>4 DEF FeedNext

-----------------------------------------------------------------------------
(* The theorems.                                                           *)

\* The inductive invariant holds in every reachable state of the feed.
THEOREM FInvCorrect == FeedSpec => []FInv
  <1>1. FeedInit => StatusIsRead /\ Feed
    BY DEF FeedInit, Init, Free, StatusIsRead, Feed, FeedTypeOK, NewestWasEmitted,
           PushesAreNotAhead, SnapshotIsNotAhead, NewestArrives
  <1>2. GInv /\ StatusIsRead /\ Feed /\ [FeedNext]_<<vars, feedVars>> => StatusIsRead' /\ Feed'
    BY FeedStep DEF FInv
  <1>. QED
    BY <1>1, <1>2, FeedHasCoordinator, GInvCorrect, PTL DEF FeedSpec, FInv

\* Once the pushes have arrived, the feed has the newest status of the standing entry,
\* or another opening of the workspace, as far on, holds it back.
THEOREM FeedIsCurrentCorrect == FeedSpec => []FeedIsCurrent
  <1>1. FInv => FeedIsCurrent
    <2>. SUFFICES ASSUME FInv, active, pushes = {}, newest[generation] # NoSnapshot
                  PROVE  snapshot = newest[generation] \/ HeldBack(generation)
      BY DEF FeedIsCurrent
    <2>1. generation \in Generation
      BY DEF FInv, GInv, Structure, EntryIsCurrent
    <2>. QED
      BY <2>1 DEF FInv, Feed, NewestArrives
  <1>. QED
    BY <1>1, FInvCorrect, PTL
=============================================================================
