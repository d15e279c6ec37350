------------------------ MODULE GitStatusCoordinator ------------------------
(***************************************************************************)
(* The coordinator of git status refreshes of one workspace:               *)
(* commands/git/status_coordinator.rs and the callers that activate and    *)
(* deactivate it (commands/workspace/mod.rs).  A workspace has an entry    *)
(* while it is active.  A request marks the entry dirty and spawns a       *)
(* worker task unless one is scheduled; the worker debounces, reads the    *)
(* status without the lock, publishes it if it changed, and goes on while  *)
(* the entry is dirty.  Every activation is a new generation with its own  *)
(* cancellation token, and a worker gives up when it is no longer current. *)
(*                                                                         *)
(* One step is one critical section of the lock `inner`, or what a task    *)
(* does between two of them.                                               *)
(***************************************************************************)
EXTENDS Integers, FiniteSets

CONSTANTS
  Status,         \* what git status can report (its fingerprint)
  NoStatus,       \* last_fingerprint is None
  Activator,      \* concurrent calls of activate_workspace_git_runtime
  Worker,         \* bound of the model: worker tasks alive at once
  MaxGeneration,  \* bound of the model: activations
  MaxRevision     \* bound of the model: revision at which requests stop

ASSUME NoStatusAssumption == NoStatus \notin Status

ASSUME BoundsAssumption == MaxGeneration \in Nat /\ MaxRevision \in Nat

VARIABLES
  repo,            \* what git status would report now
  nextGeneration,  \* the atomic counter
  callers,         \* activators: "idle" "draw" "insert" "refresh"
  drawn,           \* the generation an activator drew
  active,          \* the workspace has an entry; its fields:
  generation,
  dirty,
  scheduled,
  immediateRequested,
  lastFingerprint,
  revision,
  cancelled,       \* generations whose token was cancelled
  worker,          \* the worker tasks
  emitted,         \* history: revision last emitted by each generation
  asked,           \* history: requested since the last change and activation
  failed,          \* history: the read of the last cycle failed
  dropped          \* history: emitting the last revision failed

entry == <<active, generation, dirty, scheduled, immediateRequested,
           lastFingerprint, revision>>
callerVars == <<nextGeneration, callers, drawn>>
history == <<emitted, asked, failed, dropped>>
vars == <<repo, callerVars, entry, cancelled, worker, history>>

Generation == 1..MaxGeneration

\* The worker's places: the top of the loop, the debounce, the critical section
\* that clears the flags, refresh_once (first check, read, publish, second check,
\* emit), and the critical section that ends the cycle.
Place == {"none", "top", "debounce", "clear", "check", "read", "publish",
          "recheck", "emit", "end"}

\* What a task has captured (generation, with its cancel token) and holds:
\* `immediate` read at the top of the loop, the status read, the revision of
\* the payload to emit.
WorkerState == [pc : Place, gen : 0..MaxGeneration, force : BOOLEAN,
                status : Status \cup {NoStatus}, payload : Nat]

Free == [pc |-> "none", gen |-> 0, force |-> FALSE, status |-> NoStatus,
         payload |-> 0]

TypeOK ==
  /\ repo \in Status
  /\ nextGeneration \in 1..(MaxGeneration + 1)
  /\ callers \in [Activator -> {"idle", "draw", "insert", "refresh"}]
  /\ drawn \in [Activator -> 0..MaxGeneration]
  /\ active \in BOOLEAN
  /\ generation \in 0..MaxGeneration
  /\ dirty \in BOOLEAN /\ scheduled \in BOOLEAN
  /\ immediateRequested \in BOOLEAN
  /\ lastFingerprint \in Status \cup {NoStatus}
  /\ revision \in Nat
  /\ cancelled \subseteq 0..MaxGeneration
  /\ worker \in [Worker -> WorkerState]
  /\ emitted \in [Generation -> Nat]
  /\ asked \in BOOLEAN /\ failed \in BOOLEAN /\ dropped \in BOOLEAN

Init ==
  /\ repo \in Status
  /\ nextGeneration = 1
  /\ callers = [a \in Activator |-> "idle"]
  /\ drawn = [a \in Activator |-> 0]
  /\ active = FALSE /\ generation = 0
  /\ dirty = FALSE /\ scheduled = FALSE /\ immediateRequested = FALSE
  /\ lastFingerprint = NoStatus /\ revision = 0
  /\ cancelled = {}
  /\ worker = [w \in Worker |-> Free]
  /\ emitted = [g \in Generation |-> 0]
  /\ asked = FALSE /\ failed = FALSE /\ dropped = FALSE

-----------------------------------------------------------------------------
(* The repository changes under the workspace.                             *)

ChangeRepo(s) ==
  /\ s # repo
  /\ repo' = s
  /\ asked' = FALSE
  /\ UNCHANGED <<callerVars, entry, cancelled, worker, emitted, failed, dropped>>

-----------------------------------------------------------------------------
(* request_refresh: nothing without an entry; a worker is spawned if none  *)
(* is scheduled.                                                           *)

Spawn(w) ==
  /\ worker[w] = Free
  /\ worker' = [worker EXCEPT ![w] = [Free EXCEPT !.pc = "top", !.gen = generation]]

\* Mutant: every request spawns a worker.
RequestRefreshBug(immediate) ==
  /\ dirty' = (active \/ dirty)
  /\ immediateRequested' = (immediateRequested \/ (active /\ immediate))
  /\ scheduled' = (active \/ scheduled)
  /\ IF active THEN \E w \in Worker : Spawn(w) ELSE UNCHANGED worker
  /\ asked' = active
  /\ UNCHANGED <<active, generation, lastFingerprint, revision>>

RequestRefresh(immediate) ==
  /\ dirty' = (active \/ dirty)
  /\ immediateRequested' = (immediateRequested \/ (active /\ immediate))
  /\ scheduled' = (active \/ scheduled)
  /\ IF active /\ ~scheduled THEN \E w \in Worker : Spawn(w)
                             ELSE UNCHANGED worker
  /\ asked' = active
  /\ UNCHANGED <<active, generation, lastFingerprint, revision>>

\* The watcher, or a command that changed the repository.
Request(immediate) ==
  /\ revision < MaxRevision
  /\ RequestRefresh(immediate)
  /\ UNCHANGED <<repo, callerVars, cancelled, emitted, failed, dropped>>

-----------------------------------------------------------------------------
(* activate_workspace_git_runtime: is_active, activate (which draws its    *)
(* generation before it takes the lock), refresh_immediate.                *)

Caller(a, at, to) ==
  /\ callers[a] = at
  /\ callers' = [callers EXCEPT ![a] = to]

\* remove() cancels the token of the entry that was there.
CancelCurrent ==
  cancelled' = IF active THEN cancelled \cup {generation} ELSE cancelled

ActivateCheck(a) ==
  /\ revision < MaxRevision
  /\ Caller(a, "idle", IF active THEN "refresh" ELSE "draw")
  /\ UNCHANGED <<repo, nextGeneration, drawn, entry, cancelled, worker,
                 history>>

\* invalidate_repository_cache, before activate, failed.
ActivateFails(a) ==
  /\ Caller(a, "draw", "idle")
  /\ UNCHANGED <<repo, nextGeneration, drawn, entry, cancelled, worker, history>>

\* Mutant: the generation is the counter after the addition.
ActivateDrawBug(a) ==
  /\ nextGeneration <= MaxGeneration
  /\ Caller(a, "draw", "insert")
  /\ drawn' = [drawn EXCEPT ![a] = nextGeneration + 1]
  /\ nextGeneration' = nextGeneration + 1
  /\ UNCHANGED <<repo, entry, cancelled, worker, history>>

ActivateDraw(a) ==
  /\ nextGeneration <= MaxGeneration
  /\ Caller(a, "draw", "insert")
  /\ drawn' = [drawn EXCEPT ![a] = nextGeneration]
  /\ nextGeneration' = nextGeneration + 1
  /\ UNCHANGED <<repo, entry, cancelled, worker, history>>

ActivateInsert(a) ==
  /\ Caller(a, "insert", "refresh")
  /\ CancelCurrent
  /\ active' = TRUE /\ generation' = drawn[a]
  /\ dirty' = FALSE /\ scheduled' = FALSE /\ immediateRequested' = FALSE
  /\ lastFingerprint' = NoStatus /\ revision' = 0
  /\ drawn' = [drawn EXCEPT ![a] = 0]
  /\ asked' = FALSE /\ failed' = FALSE /\ dropped' = FALSE
  /\ UNCHANGED <<repo, nextGeneration, worker, emitted>>

ActivateRefresh(a) ==
  /\ Caller(a, "refresh", "idle")
  /\ RequestRefresh(TRUE)
  /\ UNCHANGED <<repo, nextGeneration, drawn, cancelled, emitted, failed, dropped>>

\* close_workspace_resources; when it fails further on, the workspace is activated
\* again like any other.
Deactivate ==
  /\ active
  /\ CancelCurrent
  /\ active' = FALSE /\ generation' = 0
  /\ dirty' = FALSE /\ scheduled' = FALSE /\ immediateRequested' = FALSE
  /\ lastFingerprint' = NoStatus /\ revision' = 0
  /\ asked' = FALSE /\ failed' = FALSE /\ dropped' = FALSE
  /\ UNCHANGED <<repo, callerVars, worker, emitted>>

-----------------------------------------------------------------------------
(* run_scheduled_refresh_loop and refresh_once.                            *)

Live(w) == worker[w].pc # "none"

At(w, place) == worker[w].pc = place

\* Mutant: an entry that is there is taken for the worker's own.
CurrentBug(w) ==
  active

\* The worker's entry is still there, and its token is not cancelled.
Current(w) ==
  active /\ generation = worker[w].gen /\ worker[w].gen \notin cancelled

Goto(w, place) == worker' = [worker EXCEPT ![w].pc = place]
Finish(w)      == worker' = [worker EXCEPT ![w] = Free]

outside == <<repo, callerVars, cancelled>>

\* Every critical section of the loop returns when the worker is not current.
GiveUp(w) ==
  /\ worker[w].pc \in {"top", "clear", "end"}
  /\ ~Current(w)
  /\ Finish(w)
  /\ UNCHANGED <<outside, entry, history>>

Top(w) ==
  /\ At(w, "top") /\ Current(w)
  /\ worker' = [worker EXCEPT ![w].force = immediateRequested,
                              ![w].pc = IF immediateRequested THEN "clear"
                                                              ELSE "debounce"]
  /\ UNCHANGED <<outside, entry, history>>

\* The select of the sleep and the token.
Debounce(w) ==
  /\ At(w, "debounce")
  /\ Goto(w, "clear") \/ (worker[w].gen \in cancelled /\ Finish(w))
  /\ UNCHANGED <<outside, entry, history>>

Clear(w) ==
  /\ At(w, "clear") /\ Current(w)
  /\ dirty' = FALSE /\ immediateRequested' = FALSE
  /\ Goto(w, "check")
  /\ failed' = FALSE
  /\ UNCHANGED <<outside, active, generation, scheduled, lastFingerprint,
                 revision, emitted, asked, dropped>>

Check(w) ==
  /\ At(w, "check")
  /\ Goto(w, IF Current(w) THEN "read" ELSE "end")
  /\ UNCHANGED <<outside, entry, history>>

\* Mutant: the dirty flag is cleared once the status is known.
ReadBug(w) ==
  /\ At(w, "read")
  /\ worker' = [worker EXCEPT ![w].status = repo, ![w].pc = "publish"]
  /\ dirty' = FALSE
  /\ UNCHANGED <<outside, active, generation, scheduled, immediateRequested,
                 lastFingerprint, revision, history>>

\* read_git_status on a blocking thread.
Read(w) ==
  /\ At(w, "read")
  /\ worker' = [worker EXCEPT ![w].status = repo, ![w].pc = "publish"]
  /\ UNCHANGED <<outside, entry, history>>

\* The error is logged; the cycle ends.
ReadFails(w) ==
  /\ At(w, "read")
  /\ Goto(w, "end")
  /\ failed' = (failed \/ Current(w))
  /\ UNCHANGED <<outside, entry, emitted, asked, dropped>>

\* The status is dropped: a stale worker, or nothing new and not forced.
PublishSkip(w) ==
  /\ At(w, "publish")
  /\ ~Current(w) \/ (~worker[w].force /\ lastFingerprint = worker[w].status)
  /\ Goto(w, "end")
  /\ UNCHANGED <<outside, entry, history>>

Publish(w) ==
  /\ At(w, "publish")
  /\ Current(w) /\ (worker[w].force \/ lastFingerprint # worker[w].status)
  /\ lastFingerprint' = worker[w].status
  /\ revision' = revision + 1
  /\ worker' = [worker EXCEPT ![w].payload = revision + 1, ![w].pc = "recheck"]
  /\ dropped' = FALSE
  /\ UNCHANGED <<outside, active, generation, dirty, scheduled,
                 immediateRequested, emitted, asked, failed>>

\* Mutant: the event is left to the next cycle.
RecheckBug(w) ==
  /\ At(w, "recheck")
  /\ Goto(w, IF Current(w) /\ ~dirty THEN "emit" ELSE "end")
  /\ UNCHANGED <<outside, entry, history>>

Recheck(w) ==
  /\ At(w, "recheck")
  /\ Goto(w, IF Current(w) THEN "emit" ELSE "end")
  /\ UNCHANGED <<outside, entry, history>>

\* app.emit, after the lock is released.
Emit(w) ==
  /\ At(w, "emit")
  /\ Goto(w, "end")
  /\ emitted' = [emitted EXCEPT ![worker[w].gen] = worker[w].payload]
  /\ UNCHANGED <<outside, entry, asked, failed, dropped>>

\* The error is logged; the fingerprint stays.
EmitFails(w) ==
  /\ At(w, "emit")
  /\ Goto(w, "end")
  /\ dropped' = (dropped \/ Current(w))
  /\ UNCHANGED <<outside, entry, emitted, asked, failed>>

\* Mutants: the worker goes on but is no longer scheduled; it never goes on.
EndUnschedules(w) ==
  /\ At(w, "end") /\ Current(w)
  /\ scheduled' = FALSE
  /\ worker' = [worker EXCEPT ![w] =
                   IF dirty THEN [Free EXCEPT !.pc = "top", !.gen = worker[w].gen]
                            ELSE Free]
  /\ UNCHANGED <<outside, active, generation, dirty, immediateRequested,
                 lastFingerprint, revision, history>>

EndAlwaysStops(w) ==
  /\ At(w, "end") /\ Current(w)
  /\ scheduled' = FALSE
  /\ Finish(w)
  /\ UNCHANGED <<outside, active, generation, dirty, immediateRequested,
                 lastFingerprint, revision, history>>

End(w) ==
  /\ At(w, "end") /\ Current(w)
  /\ scheduled' = dirty
  /\ worker' = [worker EXCEPT ![w] =
                   IF dirty THEN [Free EXCEPT !.pc = "top", !.gen = worker[w].gen]
                            ELSE Free]
  /\ UNCHANGED <<outside, active, generation, dirty, immediateRequested,
                 lastFingerprint, revision, history>>

WorkerStep(w) ==
  \/ GiveUp(w) \/ Top(w) \/ Debounce(w) \/ Clear(w) \/ Check(w) \/ Read(w)
  \/ ReadFails(w) \/ PublishSkip(w) \/ Publish(w) \/ Recheck(w) \/ Emit(w)
  \/ EmitFails(w) \/ End(w)

ActivatorStep(a) ==
  \/ ActivateCheck(a) \/ ActivateFails(a) \/ ActivateDraw(a) \/ ActivateInsert(a)
  \/ ActivateRefresh(a)

Next ==
  \/ \E s \in Status : ChangeRepo(s)
  \/ \E immediate \in BOOLEAN : Request(immediate)
  \/ \E a \in Activator : ActivatorStep(a)
  \/ Deactivate
  \/ \E w \in Worker : WorkerStep(w)

Spec == Init /\ [][Next]_vars

(* Spawned tasks run, timers fire and git status returns; an activation    *)
(* that began goes on.  The repository, the requests and the opening and   *)
(* closing of the workspace are the user's.                                *)
Fairness ==
  /\ \A w \in Worker : WF_vars(WorkerStep(w))
  /\ \A a \in Activator : WF_vars(ActivateInsert(a) \/ ActivateRefresh(a))

FairSpec == Spec /\ Fairness

-----------------------------------------------------------------------------
(* Safety.                                                                 *)

\* The single-worker discipline: a generation never has two workers, and the
\* entry says scheduled exactly while its generation has one.  A second worker
\* would publish out of order; a scheduled entry without one would be deaf.
OneWorkerPerGeneration ==
  /\ \A v, w \in Worker : Live(v) /\ Live(w) /\ worker[v].gen = worker[w].gen => v = w
  /\ active => (scheduled <=> \E w \in Worker : Live(w) /\ worker[w].gen = generation)

\* A refresh that was asked for after the repository last changed is never lost:
\* the entry is dirty, or its worker has yet to read or holds the current status,
\* or that status is published, unless the read failed.
NoRefreshIsLost ==
  active /\ asked =>
    \/ dirty /\ scheduled
    \/ \E w \in Worker :
         /\ Live(w) /\ worker[w].gen = generation
         /\ \/ worker[w].pc \in {"check", "read"}
            \/ worker[w].pc = "publish" /\ worker[w].status = repo
    \/ lastFingerprint = repo
    \/ failed

\* The revisions a generation emits only go up, and never beyond the revision
\* of the entry they come from.
RevisionsIncrease ==
  [][\A g \in Generation : emitted'[g] # emitted[g] =>
       /\ emitted'[g] > emitted[g]
       /\ active /\ generation = g => emitted'[g] <= revision]_vars

\* What was published was emitted, or is about to be, while the workspace stays
\* active, unless emitting failed: the fingerprint is not remembered for an event
\* that is then forgotten.
PublishedIsEmitted ==
  active /\ revision > 0 =>
    \/ emitted[generation] = revision
    \/ dropped
    \/ \E w \in Worker : /\ worker[w].pc \in {"recheck", "emit"}
                         /\ worker[w].gen = generation /\ worker[w].payload = revision

-----------------------------------------------------------------------------
(* Liveness.                                                               *)

\* A refresh asked for leads to the current status being published, unless the
\* repository changes again, the read fails or the workspace is closed.
RefreshIsServed ==
  (active /\ asked) ~> (lastFingerprint = repo \/ ~asked \/ ~active \/ failed)

\* A worker whose generation is gone ends.
StaleWorkersEnd ==
  \A w \in Worker :
    (Live(w) /\ worker[w].gen \in cancelled) ~> ~(Live(w) /\ worker[w].gen \in cancelled)
=============================================================================
