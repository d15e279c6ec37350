---------------------- MODULE WorkspaceWatcher_proofs ----------------------
(***************************************************************************)
(* Theorems about the watcher of a workspace, for any number of calls.     *)
(* That a closed workspace is not watched rests on the order in which a    *)
(* closing takes things away; that an open one is watched rests on some    *)
(* call, command or reservation being always on its way to that.           *)
(***************************************************************************)
EXTENDS WorkspaceWatcher, TLAPS

\* From its deactivation on a closing leaves nothing active, unless a restore has
\* crossed it, and once it has removed the watcher there is none.
ClosingIsInactive ==
  ~crossed => /\ main \in {"deactivated", "removed"} => ~entry
              /\ main = "removed" => ~watch.on

\* Only a call that has reserved and not ended can hold the reservation.
ReservationIsHeld ==
  pending # "nobody" =>
    task[pending].at \in {"confirming", "building", "installing", "abandoning"}

Coming ==
  \/ watch.on \/ pending # "nobody"
  \/ main \in {"opening", "reloading", "removed"}
  \/ \E t \in Task : task[t].at \in {"activating", "loading", "reserving"}

\* While a workspace is open, its watcher is there or on its way.
WatcherIsComing == Current /\ ~unset => Coming

\* The watcher, and the call that will replace it, have the settings that apply,
\* but for a reload that is to follow and a change that is noted as outdating them.
SettingsAreFresh ==
  ~outdated /\ main # "reloading" =>
    /\ watch.on => watch.with.settings = settings
    /\ pending # "nobody" => task[pending].with.settings = settings

Facts ==
  /\ ClosingIsInactive
  /\ WatchedIsOpen
  /\ ReservationIsHeld
  /\ WatcherIsComing
  /\ SettingsAreFresh

WInv == TypeOK /\ Facts

-----------------------------------------------------------------------------
(* Types.                                                                  *)

\* The calls that are not spawned are calls, and nobody is not one.
LEMMA Tasks == "main" \in Task /\ "restore" \in Task /\ "nobody" \notin Task
  BY TaskAssumption DEF Task

CallState == [at : Place, with : Watcher]

\* What a call and a watcher begin with have their types.
LEMMA InitialStates ==
  Idle \in CallState /\ NewWatcher \in Watcher /\ NoWatch \in [on : BOOLEAN, with : Watcher]
  <1>1. NewWatcher \in Watcher
    BY BoundsAssumption DEF NewWatcher, Watcher
  <1>. QED
    BY <1>1 DEF Idle, NoWatch, CallState, Place

\* The initial state has its type.
LEMMA TypeInit == Init => TypeOK
  <1> SUFFICES ASSUME Init PROVE TypeOK
    OBVIOUS
  <1>1. task \in [Task -> CallState] /\ watch \in [on : BOOLEAN, with : Watcher]
    BY InitialStates DEF Init
  <1>2. settings \in 0..MaxSettings /\ changes \in 0..MaxChange /\ reported \in 0..MaxChange
    BY BoundsAssumption DEF Init
  <1>. QED
    BY <1>1, <1>2 DEF Init, TypeOK, CallState

\* The commands and the restore keep the types.
LEMMA TypeCommands ==
  ASSUME TypeOK,
         \/ Open \/ OpenActivate \/ CloseDeactivate \/ CloseRemove \/ CloseService \/ Reload
         \/ \E s \in 0..MaxSettings : SettingsReload(s) \/ SettingsOnly(s)
         \/ Restore \/ RestoreActivate
  PROVE  TypeOK'
  <1> USE DEF registry, files, history
  <1>0. \A t \in Task, at \in Place : [task EXCEPT ![t].at = at] \in [Task -> CallState]
    BY DEF TypeOK, CallState
  <1>1. CASE Open \/ CloseDeactivate \/ CloseService
    BY <1>1 DEF Open, CloseDeactivate, CloseService, TypeOK
  <1>2. CASE OpenActivate
    <2>1. task' \in [Task -> CallState]
      <3>1. PICK t \in Background : task' = [task EXCEPT ![t].at = "loading"]
        BY <1>2 DEF OpenActivate
      <3>2. t \in Task /\ "loading" \in Place
        BY DEF Task, Place
      <3>. QED
        BY <1>0, <3>1, <3>2
    <2>. QED
      BY <1>2, <2>1 DEF OpenActivate, TypeOK, CallState
  <1>3. CASE CloseRemove
    BY <1>3, InitialStates DEF CloseRemove, Remove, TypeOK
  <1>4. CASE Reload
    <2>1. outdated' \in BOOLEAN
      BY <1>4 DEF Reload, TypeOK
    <2>2. task' = task \/ task' = [task EXCEPT !["main"].at = "loading"]
      BY <1>4 DEF Reload
    <2>3. task' \in [Task -> CallState]
      <3>1. "loading" \in Place /\ task \in [Task -> CallState]
        BY DEF Place, TypeOK, CallState
      <3>. QED
        BY <1>0, <2>2, <3>1, Tasks
    <2>4. /\ pending' \in Task \cup {"nobody"}
          /\ watch' \in [on : BOOLEAN, with : Watcher]
      BY <1>4, InitialStates DEF Reload, Remove, TypeOK
    <2>. QED
      BY <1>4, <2>1, <2>3, <2>4 DEF Reload, TypeOK, CallState
  <1>5. ASSUME NEW s \in 0..MaxSettings, SettingsReload(s) \/ SettingsOnly(s) PROVE TypeOK'
    <2>1. outdated' \in BOOLEAN /\ main' \in {"reloading", "idle"}
      BY <1>5 DEF SettingsReload, SettingsOnly, TypeOK
    <2>. QED
      BY <1>5, <2>1 DEF SettingsReload, SettingsOnly, Settings, TypeOK
  <1>6. CASE Restore \/ RestoreActivate
    <2>1. task' \in [Task -> CallState]
      <3>1. "activating" \in Place /\ "loading" \in Place
        BY DEF Place
      <3>2. \E at \in {"activating", "loading"} : task' = [task EXCEPT !["restore"].at = at]
        BY <1>6 DEF Restore, RestoreActivate
      <3>. QED
        BY <1>0, <3>1, <3>2, Tasks
    <2>2. crossed' \in BOOLEAN
      BY <1>6 DEF Restore, RestoreActivate, TypeOK
    <2>. QED
      BY <1>6, <2>1, <2>2 DEF Restore, RestoreActivate, TypeOK, CallState
  <1>. QED
    BY <1>1, <1>2, <1>3, <1>4, <1>5, <1>6

\* The steps of a call keep the types.
LEMMA TypeEnsure ==
  ASSUME TypeOK, NEW t \in Task, Ensure(t) \/ Fail(t) PROVE TypeOK'
  <1> USE DEF host, registry, files, history
  <1>0. \A at \in Place : [task EXCEPT ![t].at = at] \in [Task -> CallState]
    BY DEF TypeOK, CallState
  <1>1. [task EXCEPT ![t] = Idle] \in [Task -> CallState]
    BY InitialStates DEF TypeOK, CallState
  <1>2. CASE Load(t)
    <2>1. [at |-> "reserving", with |-> [NewWatcher EXCEPT !.settings = settings]] \in CallState
      BY InitialStates DEF TypeOK, CallState, Place, Watcher
    <2>2. task' \in [Task -> CallState]
      BY <1>1, <1>2, <2>1 DEF Load, Ends, TypeOK, CallState
    <2>. QED
      BY <1>2, <2>2 DEF Load, TypeOK, CallState
  <1>3. CASE Quit(t)
    BY <1>1, <1>3 DEF Quit, Ends, TypeOK, CallState
  <1>4. CASE Reserve(t)
    <2>1. task' \in [Task -> CallState]
      BY <1>0, <1>1, <1>4 DEF Reserve, Goes, Ends, Place
    <2>2. outdated' \in BOOLEAN
      BY <1>4 DEF Reserve, TypeOK
    <2>. QED
      BY <1>4, <2>1, <2>2 DEF Reserve, TypeOK, CallState
  <1>5. CASE Confirm(t) \/ Build(t)
    <2>1. task' \in [Task -> CallState]
      BY <1>0, <1>5 DEF Confirm, Build, Goes, Place
    <2>. QED
      BY <1>5, <2>1 DEF Confirm, Build, TypeOK, CallState
  <1>6. CASE Abandon(t)
    BY <1>1, <1>6 DEF Abandon, Ends, TypeOK, CallState
  <1>7. CASE Install(t)
    <2>0. task[t].with \in Watcher /\ watch \in [on : BOOLEAN, with : Watcher]
      BY DEF TypeOK
    <2>1. watch' = [on |-> TRUE, with |-> task[t].with] \/ watch' = watch
      BY <1>7 DEF Install
    <2>2. watch' \in [on : BOOLEAN, with : Watcher]
      <3>1. \A w \in Watcher : [on |-> TRUE, with |-> w] \in [on : BOOLEAN, with : Watcher]
        OBVIOUS
      <3>. QED
        BY <2>0, <2>1, <3>1
    <2>. QED
      BY <1>1, <1>7, <2>2 DEF Install, Ends, TypeOK, CallState
  <1>8. CASE Fail(t)
    <2>1. task' \in [Task -> CallState]
      BY <1>0, <1>1, <1>8 DEF Fail, Goes, Ends, Place
    <2>. QED
      BY <1>8, <2>1 DEF Fail, TypeOK, CallState
  <1>. QED
    BY <1>2, <1>3, <1>4, <1>5, <1>6, <1>7, <1>8 DEF Ensure

\* Changes and batches keep the types.
LEMMA TypeChanges ==
  ASSUME TypeOK, FileChanges \/ Flush \/ \E t \in Task : FlushEarly(t) PROVE TypeOK'
  <1> USE DEF host, registry, files, history
  <1>1. \A w \in Watcher, c \in 0..MaxChange : With(w, c) \in Watcher
    BY DEF Watcher, With
  <1>2. \A a, b \in 0..MaxChange : Later(a, b) \in 0..MaxChange
    BY DEF Later
  <1>3. CASE FileChanges
    <2>1. changes' \in 0..MaxChange
      BY <1>3, BoundsAssumption DEF FileChanges, TypeOK
    <2>2. watch' \in [on : BOOLEAN, with : Watcher]
      BY <1>1, <1>3, <2>1 DEF FileChanges, TypeOK
    <2>3. task' \in [Task -> CallState]
      BY <1>1, <1>3, <2>1 DEF FileChanges, TypeOK, CallState
    <2>. QED
      BY <1>3, <2>1, <2>2, <2>3 DEF FileChanges, TypeOK, CallState
  <1>4. CASE Flush
    <2>1. watch' \in [on : BOOLEAN, with : Watcher]
      BY <1>4, BoundsAssumption DEF Flush, TypeOK, Watcher
    <2>2. reported' \in 0..MaxChange
      BY <1>2, <1>4 DEF Flush, TypeOK, Watcher
    <2>. QED
      BY <1>4, <2>1, <2>2 DEF Flush, TypeOK
  <1>5. ASSUME NEW t \in Task, FlushEarly(t) PROVE TypeOK'
    <2>1. task' \in [Task -> CallState]
      BY <1>5, BoundsAssumption DEF FlushEarly, TypeOK, Watcher, CallState
    <2>2. reported' \in 0..MaxChange
      BY <1>2, <1>5 DEF FlushEarly, TypeOK, Watcher
    <2>. QED
      BY <1>5, <2>1, <2>2 DEF FlushEarly, TypeOK, CallState
  <1>. QED
    BY <1>3, <1>4, <1>5

\* No step breaks the types.
LEMMA TypeStep == TypeOK /\ [Next]_vars => TypeOK'
  <1> SUFFICES ASSUME TypeOK, [Next]_vars PROVE TypeOK'
    OBVIOUS
  <1>1. CASE UNCHANGED vars
    BY <1>1 DEF vars, TypeOK
  <1>. QED
    BY <1>1, TypeCommands, TypeEnsure, TypeChanges DEF Next

-----------------------------------------------------------------------------
(* The facts.                                                              *)

\* Opening keeps the facts: whatever opens a workspace is followed by a call.
LEMMA FactsOpen == ASSUME TypeOK, Facts, Open \/ OpenActivate PROVE Facts'
  <1> USE DEF Facts, registry, files, history
  <1>1. CASE Open
    BY <1>1 DEF Open, MainIsFree, ClosingIsInactive, WatchedIsOpen, Current,
       ReservationIsHeld, WatcherIsComing, Coming, SettingsAreFresh
  <1>2. CASE OpenActivate
    <2>1. PICK t \in Background : task[t].at = "idle" /\ task' = [task EXCEPT ![t].at = "loading"]
      BY <1>2 DEF OpenActivate
    <2>2. /\ task'[t].at = "loading" /\ t \in Task
          /\ \A u \in Task : u # t => task'[u] = task[u]
      BY <2>1 DEF TypeOK, Task
    <2>3. ClosingIsInactive' /\ WatchedIsOpen'
      BY <1>2 DEF OpenActivate, ClosingIsInactive, WatchedIsOpen, Current
    <2>4. ReservationIsHeld'
      BY <1>2, <2>1, <2>2 DEF OpenActivate, ReservationIsHeld, TypeOK
    <2>5. WatcherIsComing'
      BY <2>2 DEF WatcherIsComing, Coming
    <2>6. SettingsAreFresh'
      BY <1>2, <2>1, <2>2 DEF OpenActivate, ReservationIsHeld, SettingsAreFresh, TypeOK
    <2>. QED
      BY <2>3, <2>4, <2>5, <2>6
  <1>. QED
    BY <1>1, <1>2

\* Closing and changes of the settings keep the facts.
LEMMA FactsClose ==
  ASSUME TypeOK, Facts,
         CloseDeactivate \/ CloseRemove \/ CloseService \/ Reload
           \/ \E s \in 0..MaxSettings : SettingsReload(s) \/ SettingsOnly(s)
  PROVE  Facts'
  <1> USE DEF Facts, registry, files, history
  <1>1. CASE CloseDeactivate
    BY <1>1 DEF CloseDeactivate, MainIsFree, ClosingIsInactive, WatchedIsOpen, Current,
       ReservationIsHeld, WatcherIsComing, Coming, SettingsAreFresh
  <1>2. CASE CloseRemove
    BY <1>2 DEF CloseRemove, Remove, NoWatch, ClosingIsInactive, WatchedIsOpen, Current,
       ReservationIsHeld, WatcherIsComing, Coming, SettingsAreFresh
  <1>3. CASE CloseService
    BY <1>3 DEF CloseService, ClosingIsInactive, WatchedIsOpen, Current,
       ReservationIsHeld, WatcherIsComing, Coming, SettingsAreFresh
  <1>4. CASE Reload /\ open
    <2>1. task'["main"].at = "loading"
      BY <1>4, Tasks DEF Reload, TypeOK
    <2>. QED
      BY <1>4, <2>1, Tasks DEF Reload, Remove, NoWatch, ClosingIsInactive, WatchedIsOpen,
         ReservationIsHeld, WatcherIsComing, Coming, SettingsAreFresh
  <1>5. CASE Reload /\ ~open
    BY <1>5 DEF Reload, ClosingIsInactive, WatchedIsOpen, Current, ReservationIsHeld,
       WatcherIsComing, SettingsAreFresh
  <1>6. ASSUME NEW s \in 0..MaxSettings, SettingsReload(s) \/ SettingsOnly(s) PROVE Facts'
    <2>0. /\ UNCHANGED <<open, entry, task, pending, watch, crossed, unset>>
          /\ main = "idle" /\ main' \in {"idle", "reloading"}
      BY <1>6 DEF SettingsReload, SettingsOnly, Settings, MainIsFree
    <2>1. ClosingIsInactive' /\ WatchedIsOpen' /\ ReservationIsHeld'
      BY <2>0 DEF ClosingIsInactive, WatchedIsOpen, Current, ReservationIsHeld
    <2>2. WatcherIsComing'
      BY <2>0 DEF WatcherIsComing, Coming, Current
    <2>3. SettingsAreFresh'
      <3>1. CASE SettingsReload(s)
        BY <3>1 DEF SettingsReload, SettingsAreFresh
      <3>2. CASE SettingsOnly(s)
        BY <2>0, <3>2 DEF SettingsOnly, Settings, SettingsAreFresh
      <3>. QED
        BY <1>6, <3>1, <3>2
    <2>. QED
      BY <2>1, <2>2, <2>3
  <1>. QED
    BY <1>1, <1>2, <1>3, <1>4, <1>5, <1>6

\* A restore keeps the facts; where it activates in a closing it has crossed it.
LEMMA FactsRestore == ASSUME TypeOK, Facts, Restore \/ RestoreActivate PROVE Facts'
  <1> USE DEF Facts, registry, files, history
  <1>1. CASE Restore
    <2>1. /\ task["restore"].at = "idle" /\ task'["restore"].at = "activating"
          /\ \A u \in Task : u # "restore" => task'[u] = task[u]
      BY <1>1, Tasks DEF Restore, TypeOK
    <2>2. ClosingIsInactive' /\ WatchedIsOpen'
      BY <1>1 DEF Restore, ClosingIsInactive, WatchedIsOpen, Current
    <2>3. ReservationIsHeld' /\ SettingsAreFresh'
      BY <1>1, <2>1 DEF Restore, ReservationIsHeld, SettingsAreFresh, TypeOK
    <2>4. WatcherIsComing'
      BY <2>1, Tasks DEF WatcherIsComing, Coming
    <2>. QED
      BY <2>2, <2>3, <2>4
  <1>2. CASE RestoreActivate
    <2>1. /\ task["restore"].at = "activating" /\ task'["restore"].at = "loading"
          /\ \A u \in Task : u # "restore" => task'[u] = task[u]
      BY <1>2, Tasks DEF RestoreActivate, TypeOK
    <2>2. ClosingIsInactive' /\ WatchedIsOpen'
      BY <1>2 DEF RestoreActivate, ClosingIsInactive, WatchedIsOpen, Current
    <2>3. ReservationIsHeld' /\ SettingsAreFresh'
      BY <1>2, <2>1 DEF RestoreActivate, ReservationIsHeld, SettingsAreFresh, TypeOK
    <2>4. WatcherIsComing'
      BY <2>1, Tasks DEF WatcherIsComing, Coming
    <2>. QED
      BY <2>2, <2>3, <2>4
  <1>. QED
    BY <1>1, <1>2

\* A step of a call of ensure leaves the other calls alone.
LEMMA OthersStay ==
  ASSUME TypeOK, NEW t \in Task, Ensure(t) \/ Fail(t)
  PROVE  /\ \A u \in Task : u # t => task'[u] = task[u]
         /\ task' \in [Task -> CallState]
         /\ UNCHANGED <<open, entry, main, settings, crossed>>
  <1> USE DEF host, history
  <1>1. task' \in [Task -> CallState]
    BY TypeEnsure DEF TypeOK, CallState
  <1>2. (\E at : Goes(t, at)) \/ Ends(t) \/ (\E c : task' = [task EXCEPT ![t] = c])
    BY DEF Ensure, Load, Quit, Reserve, Confirm, Build, Abandon, Install, Fail
  <1>3. \A u \in Task : u # t => task'[u] = task[u]
    BY <1>2 DEF Goes, Ends, TypeOK
  <1>. QED
    BY <1>1, <1>3 DEF Ensure, Load, Quit, Reserve, Confirm, Build, Abandon, Install, Fail

\* The steps of a call before its reservation keep the facts: it ends for want of
\* an open workspace, because somebody else has reserved, or as a failure.
LEMMA FactsBefore ==
  ASSUME TypeOK, Facts, NEW t \in Task,
         Load(t) \/ Quit(t) \/ Reserve(t) \/ (Fail(t) /\ task[t].at = "loading")
  PROVE  Facts'
  <1> USE DEF Facts, host, registry, files, history
  <1>1. /\ \A u \in Task : u # t => task'[u] = task[u]
        /\ UNCHANGED <<open, entry, main, settings, crossed>>
    BY OthersStay DEF Ensure
  <1>2. UNCHANGED watch
    BY DEF Load, Quit, Reserve, Fail
  <1>3. ClosingIsInactive' /\ WatchedIsOpen'
    BY <1>1, <1>2 DEF ClosingIsInactive, WatchedIsOpen, Current
  <1>4. CASE Load(t) \/ Quit(t) \/ (Fail(t) /\ task[t].at = "loading")
    <2>1. UNCHANGED <<pending, outdated>> /\ task[t].at \in {"loading", "reserving"}
      BY <1>4 DEF Load, Quit, Fail
    <2>2. pending # t \/ pending = "nobody"
      BY <2>1 DEF ReservationIsHeld
    <2>3. ReservationIsHeld' /\ SettingsAreFresh'
      BY <1>1, <1>2, <2>1, <2>2 DEF ReservationIsHeld, SettingsAreFresh, TypeOK
    <2>4. ASSUME Load(t), Current PROVE task'[t].at = "reserving"
      BY <2>4 DEF Load, TypeOK
    <2>5. WatcherIsComing'
      <3>1. CASE Fail(t)
        BY <3>1 DEF Fail, WatcherIsComing
      <3>2. CASE Load(t)
        BY <1>1, <2>4, <3>2 DEF Load, Current, WatcherIsComing, Coming
      <3>3. CASE Quit(t)
        BY <1>1, <3>3 DEF Quit, Current, WatcherIsComing
      <3>. QED
        BY <1>4, <3>1, <3>2, <3>3
    <2>. QED
      BY <1>3, <2>3, <2>5
  <1>5. CASE Reserve(t) /\ (watch.on \/ pending # "nobody")
    <2>1. UNCHANGED <<pending, outdated, unset>> /\ task[t].at = "reserving"
      BY <1>5 DEF Reserve
    <2>2. ReservationIsHeld' /\ SettingsAreFresh'
      BY <1>1, <1>2, <2>1 DEF ReservationIsHeld, SettingsAreFresh, TypeOK
    <2>3. WatcherIsComing'
      BY <1>2, <1>5, <2>1 DEF WatcherIsComing, Coming
    <2>. QED
      BY <1>3, <2>2, <2>3
  <1>6. CASE Reserve(t) /\ ~(watch.on \/ pending # "nobody")
    <2>1. pending' = t /\ outdated' = (task[t].with.settings # settings)
      BY <1>6 DEF Reserve
    <2>2. task'[t].at = "confirming" /\ task'[t].with = task[t].with
      BY <1>6 DEF Reserve, Goes, TypeOK
    <2>3. pending' # "nobody"
      BY <2>1, Tasks
    <2>. QED
      BY <1>1, <1>2, <1>3, <1>6, <2>1, <2>2, <2>3
      DEF ReservationIsHeld, SettingsAreFresh, WatcherIsComing, Coming
  <1>. QED
    BY <1>4, <1>5, <1>6

\* The steps after it keep the facts: the reservation goes with its call, which
\* has set the watcher up, or was told by a closing that it must not.
LEMMA FactsAfter ==
  ASSUME TypeOK, Facts, NEW t \in Task,
         \/ Confirm(t) \/ Build(t) \/ Abandon(t) \/ Install(t)
         \/ Fail(t) /\ task[t].at = "building"
  PROVE  Facts'
  <1> USE DEF Facts, host, registry, files, history
  <1>1. /\ \A u \in Task : u # t => task'[u] = task[u]
        /\ UNCHANGED <<open, entry, main, settings, crossed>>
    BY OthersStay DEF Ensure
  <1>2. task[t].at \in {"confirming", "building", "abandoning", "installing"}
    BY DEF Confirm, Build, Abandon, Install, Fail
  <1>3. UNCHANGED outdated
    BY DEF Confirm, Build, Abandon, Install, Fail
  <1>4. CASE Confirm(t) \/ Build(t) \/ Fail(t)
    <2>1. /\ task'[t].at \in {"building", "abandoning", "installing"}
          /\ task'[t].with = task[t].with
      BY <1>2, <1>4 DEF Confirm, Build, Fail, Goes, TypeOK
    <2>2. UNCHANGED <<pending, watch>>
      BY <1>4 DEF Confirm, Build, Fail
    <2>3. ReservationIsHeld' /\ SettingsAreFresh'
      BY <1>1, <1>3, <2>1, <2>2 DEF ReservationIsHeld, SettingsAreFresh, TypeOK
    <2>4. WatcherIsComing'
      BY <1>1, <1>2, <1>4, <2>2 DEF Confirm, Build, Fail, WatcherIsComing, Coming, Current
    <2>5. ClosingIsInactive' /\ WatchedIsOpen'
      BY <1>1, <2>2 DEF ClosingIsInactive, WatchedIsOpen, Current
    <2>. QED
      BY <2>3, <2>4, <2>5
  <1>5. CASE (Abandon(t) \/ Install(t)) /\ pending # t
    <2>1. UNCHANGED <<pending, watch, unset>>
      BY <1>5 DEF Abandon, Install, TypeOK
    <2>2. ReservationIsHeld' /\ SettingsAreFresh'
      BY <1>1, <1>3, <1>5, <2>1 DEF ReservationIsHeld, SettingsAreFresh, TypeOK
    <2>3. WatcherIsComing'
      BY <1>1, <1>2, <2>1 DEF WatcherIsComing, Coming, Current
    <2>4. ClosingIsInactive' /\ WatchedIsOpen'
      BY <1>1, <2>1 DEF ClosingIsInactive, WatchedIsOpen, Current
    <2>. QED
      BY <2>2, <2>3, <2>4
  <1>6. CASE Abandon(t) /\ pending = t
    <2>1. pending' = "nobody" /\ unset' = (unset \/ Current) /\ UNCHANGED watch
      BY <1>6 DEF Abandon
    <2>. QED
      BY <1>1, <1>3, <2>1 DEF ReservationIsHeld, SettingsAreFresh, WatcherIsComing,
         ClosingIsInactive, WatchedIsOpen, Current
  <1>7. CASE Install(t) /\ pending = t
    <2>1. pending' = "nobody" /\ UNCHANGED unset /\ t # "nobody"
      BY <1>7, Tasks DEF Install
    <2>2. CASE Current
      <3>1. watch'.on /\ watch'.with = task[t].with
        BY <1>7, <2>2 DEF Install
      <3>. QED
        BY <1>1, <1>3, <1>7, <2>1, <2>2, <3>1 DEF ReservationIsHeld, SettingsAreFresh,
           WatcherIsComing, Coming, ClosingIsInactive, WatchedIsOpen, Current
    <2>3. CASE ~Current
      <3>1. UNCHANGED watch
        BY <1>7, <2>3 DEF Install
      <3>. QED
        BY <1>1, <1>3, <2>1, <2>3, <3>1 DEF ReservationIsHeld, SettingsAreFresh,
           WatcherIsComing, ClosingIsInactive, WatchedIsOpen, Current
    <2>. QED
      BY <2>2, <2>3
  <1>. QED
    BY <1>4, <1>5, <1>6, <1>7

\* Changes of files and batches touch none of it.
LEMMA FactsChanges ==
  ASSUME TypeOK, Facts, FileChanges \/ Flush \/ \E t \in Task : FlushEarly(t) PROVE Facts'
  <1> USE DEF Facts, host, registry, history
  <1>1. UNCHANGED <<open, entry, main, pending, settings, crossed, unset, outdated>>
    BY DEF FileChanges, Flush, FlushEarly
  <1>2. /\ watch'.on = watch.on /\ watch'.with.settings = watch.with.settings
    BY DEF FileChanges, Flush, FlushEarly, With, TypeOK, Watcher
  <1>3. \A t \in Task : task'[t].at = task[t].at
                      /\ task'[t].with.settings = task[t].with.settings
    BY DEF FileChanges, Flush, FlushEarly, With, TypeOK, Watcher
  <1>. QED
    BY <1>1, <1>2, <1>3 DEF TypeOK, ClosingIsInactive, WatchedIsOpen, Current,
       ReservationIsHeld, WatcherIsComing, Coming, SettingsAreFresh

-----------------------------------------------------------------------------
(* The theorems.                                                           *)

\* In every reachable state the variables have their types.
THEOREM TypeCorrect == Spec => []TypeOK
  BY TypeInit, TypeStep, PTL DEF Spec

\* The strengthened invariant holds in every reachable state.
THEOREM WInvCorrect == Spec => []WInv
  <1>1. Init => WInv
    <2> SUFFICES ASSUME Init PROVE WInv
      OBVIOUS
    <2>. QED
      BY TypeInit DEF Init, NoWatch, WInv, Facts, ClosingIsInactive, WatchedIsOpen,
         ReservationIsHeld, WatcherIsComing, Current, SettingsAreFresh
  <1>2. WInv /\ [Next]_vars => WInv'
    <2> SUFFICES ASSUME TypeOK, Facts, [Next]_vars PROVE TypeOK' /\ Facts'
      BY DEF WInv
    <2>1. TypeOK'
      BY TypeStep
    <2>2. CASE UNCHANGED vars
      BY <2>1, <2>2 DEF vars, Facts, ClosingIsInactive, WatchedIsOpen, ReservationIsHeld,
         WatcherIsComing, Coming, Current, SettingsAreFresh
    <2>3. ASSUME NEW t \in Task, Ensure(t) \/ Fail(t) PROVE Facts'
      BY <2>3, FactsBefore, FactsAfter DEF Ensure, Fail
    <2>. QED
      BY <2>1, <2>2, <2>3, FactsOpen, FactsClose, FactsRestore, FactsChanges DEF Next
  <1>. QED
    BY <1>1, <1>2, PTL DEF Spec

\* A watcher is installed only for a workspace that is open and active, or whose
\* closing is about to remove it, unless a restore crossed the closing.
THEOREM WatchedIsOpenCorrect == Spec => []WatchedIsOpen
  <1>1. WInv => WatchedIsOpen
    BY DEF WInv, Facts
  <1>. QED
    BY <1>1, WInvCorrect, PTL

\* Once everything has come to rest, nothing is reserved for ever and an open
\* workspace is watched, unless a call failed or gave up, with the settings that
\* apply to it, unless they changed after the call that reserved last had read them
\* and either before it reserved or with no reload of this workspace.
THEOREM OpenIsWatchedCorrect == Spec => []OpenIsWatched
  <1>1. WInv => OpenIsWatched
    <2> SUFFICES ASSUME WInv, AtRest PROVE pending = "nobody" /\ (Current /\ ~unset =>
                   watch.on /\ (outdated \/ watch.with.settings = settings))
      BY DEF OpenIsWatched
    <2>1. main = "idle" /\ \A t \in Task : task[t].at = "idle"
      BY DEF AtRest, MainIsFree
    <2>2. pending = "nobody"
      BY <2>1 DEF WInv, TypeOK, Facts, ReservationIsHeld
    <2>3. Current /\ ~unset => watch.on
      BY <2>1, <2>2 DEF WInv, Facts, WatcherIsComing, Coming
    <2>. QED
      BY <2>1, <2>2, <2>3 DEF WInv, Facts, SettingsAreFresh
  <1>. QED
    BY <1>1, WInvCorrect, PTL
=============================================================================
