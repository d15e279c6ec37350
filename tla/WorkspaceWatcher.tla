-------------------------- MODULE WorkspaceWatcher --------------------------
(***************************************************************************)
(* The file watcher of one workspace through openings, closings and        *)
(* changes of its settings: commands/workspace/mod.rs, app_state.rs and    *)
(* filesystem_watcher.rs.                                                  *)
(*                                                                         *)
(* Commands run one after the other on the main thread.  Opening spawns a  *)
(* task that sets the watcher up; a settings command sets it up anew by    *)
(* itself; an inbound message that finds its workspace closed opens it and *)
(* sets the watcher up on the thread that received it.  Setting up takes   *)
(* long: the place in the registry is reserved first, and whether the      *)
(* workspace is still open is looked at before and after.                  *)
(***************************************************************************)
EXTENDS Naturals

CONSTANTS
  Background,   \* bound of the model: tasks that workspace_open spawned, at once
  MaxSettings,  \* bound of the model: changes of the watcher's settings
  MaxChange     \* bound of the model: changes to files

ASSUME BoundsAssumption == MaxSettings \in Nat /\ MaxChange \in Nat

Task == Background \cup {"main", "restore"}

ASSUME TaskAssumption == Background \cap {"main", "restore", "nobody"} = {}

VARIABLES
  open,      \* the workspace service has the workspace
  entry,     \* the git status coordinator has it: is_active
  main,      \* the command on the main thread, before its ensure
  task,      \* the calls of ensure_workspace_watcher
  pending,   \* the registry's reservation; its generation is the call
  watch,     \* the registry's watcher
  settings,  \* version of the settings that apply to the workspace
  changes,   \* changes made to files so far
  reported,  \* the newest change that a batch reported
  crossed,   \* history: a restore activated in the middle of the last closing
  unset,     \* history: since the last reservation a call failed, or gave its
             \* place up because of what it had read earlier
  outdated   \* history: the settings changed before it after they were read, or
             \* after it with no reload of this workspace

vars == <<open, entry, main, task, pending, watch, settings, changes, reported,
          crossed, unset, outdated>>

(* What a watcher is made with, and the batch of its thread: the newest      *)
(* change that it holds, or 0.                                               *)
Watcher == [settings : 0..MaxSettings, batch : 0..MaxChange]

NewWatcher == [settings |-> 0, batch |-> 0]

Place == {"idle", "activating", "loading", "reserving", "confirming",
          "building", "installing", "abandoning"}

TypeOK ==
  /\ open \in BOOLEAN /\ entry \in BOOLEAN
  /\ main \in {"idle", "opening", "deactivated", "removed", "reloading"}
  /\ task \in [Task -> [at : Place, with : Watcher]]
  /\ pending \in Task \cup {"nobody"}
  /\ watch \in [on : BOOLEAN, with : Watcher]
  /\ settings \in 0..MaxSettings
  /\ changes \in 0..MaxChange /\ reported \in 0..MaxChange
  /\ crossed \in BOOLEAN /\ unset \in BOOLEAN /\ outdated \in BOOLEAN

NoWatch == [on |-> FALSE, with |-> NewWatcher]
Idle == [at |-> "idle", with |-> NewWatcher]

Init ==
  /\ open = FALSE /\ entry = FALSE /\ main = "idle"
  /\ task = [t \in Task |-> Idle]
  /\ pending = "nobody" /\ watch = NoWatch
  /\ settings = 0 /\ changes = 0 /\ reported = 0
  /\ crossed = FALSE /\ unset = FALSE /\ outdated = FALSE

registry == <<pending, watch>>
files == <<changes, reported>>
history == <<crossed, unset, outdated>>

-----------------------------------------------------------------------------
(* The commands.                                                           *)

MainIsFree == main = "idle" /\ task["main"].at = "idle"

(* remove_workspace: whoever builds for the reservation will not install.    *)
Remove == pending' = "nobody" /\ watch' = NoWatch

(* workspace_open, up to the activation, and from there.                     *)
Open ==
  /\ MainIsFree
  /\ open' = TRUE /\ main' = "opening"
  /\ UNCHANGED <<entry, task, registry, settings, files, history>>

OpenActivate ==
  /\ main = "opening"
  /\ entry' = TRUE /\ main' = "idle"
  /\ \E t \in Background :
       /\ task[t].at = "idle"
       /\ task' = [task EXCEPT ![t].at = "loading"]
  /\ UNCHANGED <<open, registry, settings, files, history>>

(* close_workspace_resources: the coordinator, the watcher, the service.     *)
CloseDeactivate ==
  /\ MainIsFree /\ open
  /\ entry' = FALSE /\ main' = "deactivated" /\ crossed' = FALSE
  /\ UNCHANGED <<open, task, registry, settings, files, unset, outdated>>

CloseRemove ==
  /\ main = "deactivated"
  /\ Remove /\ main' = "removed"
  /\ UNCHANGED <<open, entry, task, settings, files, history>>

CloseService ==
  /\ main = "removed"
  /\ open' = FALSE /\ main' = "idle"
  /\ UNCHANGED <<entry, task, registry, settings, files, history>>

(* settings_update, settings_reset and workspace_reset_state change what     *)
(* applies to the workspace, or nothing of it.                               *)
Settings(s) ==
  /\ MainIsFree
  /\ s \in settings..MaxSettings /\ s <= settings + 1
  /\ settings' = s
  /\ UNCHANGED <<open, entry, task, registry, files, crossed, unset>>

(* A change of its own settings, and one of the user's that names it or      *)
(* none, goes on to reload its watcher.                                      *)
SettingsReload(s) ==
  /\ Settings(s)
  /\ main' = "reloading"
  /\ UNCHANGED outdated

(* A change of the user's settings in a command that names another workspace *)
(* does not, nor one of the session's.                                       *)
SettingsOnly(s) ==
  /\ Settings(s)
  /\ main' = "idle"
  /\ outdated' = (outdated \/ s # settings)

(* reload_workspace_watcher; there is nothing to reload of one that is closed.*)
Reload ==
  /\ main = "reloading"
  /\ main' = "idle"
  /\ IF open
     THEN /\ Remove /\ UNCHANGED outdated
          /\ task' = [task EXCEPT !["main"].at = "loading"]
     ELSE outdated' = TRUE /\ UNCHANGED <<registry, task>>
  /\ UNCHANGED <<open, entry, settings, files, crossed, unset>>

-----------------------------------------------------------------------------
(* A message for a persisted route whose workspace is closed.              *)

Restore ==
  /\ task["restore"].at = "idle" /\ ~open
  /\ open' = TRUE
  /\ task' = [task EXCEPT !["restore"].at = "activating"]
  /\ UNCHANGED <<entry, main, registry, settings, files, history>>

RestoreActivate ==
  /\ task["restore"].at = "activating"
  /\ entry' = TRUE
  /\ task' = [task EXCEPT !["restore"].at = "loading"]
  /\ crossed' = (crossed \/ main \in {"deactivated", "removed"})
  /\ UNCHANGED <<open, main, registry, settings, files, unset, outdated>>

-----------------------------------------------------------------------------
(* ensure_workspace_watcher and ensure_workspace, as call t.               *)

(* is_current.  An id is derived from the root, so the root is the same.     *)
Current == entry /\ open

Goes(t, at) == task' = [task EXCEPT ![t].at = at]
Ends(t) == task' = [task EXCEPT ![t] = Idle]

host == <<open, entry, main, settings>>

Load(t) ==
  /\ task[t].at = "loading"
  /\ IF Current
     THEN task' = [task EXCEPT ![t] =
                     [at |-> "reserving", with |-> [NewWatcher EXCEPT !.settings = settings]]]
     ELSE Ends(t)
  /\ UNCHANGED <<host, registry, files, history>>

(* It is looked at again twice on the way to the reservation.                *)
Quit(t) ==
  /\ task[t].at = "reserving" /\ ~Current
  /\ Ends(t)
  /\ UNCHANGED <<host, registry, files, history>>

(* reserve_pending.                                                          *)
Reserve(t) ==
  /\ task[t].at = "reserving"
  /\ IF watch.on \/ pending # "nobody"
     THEN Ends(t) /\ UNCHANGED <<pending, unset, outdated>>
     ELSE /\ Goes(t, "confirming")
          /\ pending' = t
          /\ unset' = FALSE /\ outdated' = (task[t].with.settings # settings)
  /\ UNCHANGED <<host, watch, files, crossed>>

Confirm(t) ==
  /\ task[t].at = "confirming"
  /\ Goes(t, IF Current THEN "building" ELSE "abandoning")
  /\ UNCHANGED <<host, registry, files, history>>

(* The native watcher begins to see changes, or cannot be made.              *)
Build(t) ==
  /\ task[t].at = "building"
  /\ Goes(t, "installing")
  /\ UNCHANGED <<host, registry, files, history>>

(* Settings that cannot be read, or a watcher that cannot be made.           *)
Fail(t) ==
  /\ \/ task[t].at = "loading" /\ Ends(t)
     \/ task[t].at = "building" /\ Goes(t, "abandoning")
  /\ unset' = TRUE
  /\ UNCHANGED <<host, registry, files, crossed, outdated>>

(* cancel_pending_workspace: what made the call give up may be over by now.  *)
Abandon(t) ==
  /\ task[t].at = "abandoning"
  /\ Ends(t)
  /\ pending' = IF pending = t THEN "nobody" ELSE pending
  /\ unset' = (unset \/ (pending = t /\ Current))
  /\ UNCHANGED <<host, watch, files, crossed, outdated>>

(* Mutant: any reservation will do, the caller's or another's.               *)
InstallBug(t) ==
  /\ task[t].at = "installing"
  /\ Ends(t)
  /\ IF pending # "nobody" /\ Current
     THEN watch' = [on |-> TRUE, with |-> task[t].with] ELSE UNCHANGED watch
  /\ pending' = "nobody"
  /\ UNCHANGED <<host, files, history>>

(* Mutant: whether the workspace is still open is not looked at again.       *)
InstallUnchecked(t) ==
  /\ task[t].at = "installing"
  /\ Ends(t)
  /\ watch' = [on |-> TRUE, with |-> task[t].with]
  /\ pending' = IF pending = t THEN "nobody" ELSE pending
  /\ UNCHANGED <<host, files, history>>

(* The registry stays locked from the check to the insertion, and a closing  *)
(* that begins in between waits with its Remove.                             *)
Install(t) ==
  /\ task[t].at = "installing"
  /\ Ends(t)
  /\ IF pending = t /\ Current
     THEN watch' = [on |-> TRUE, with |-> task[t].with] ELSE UNCHANGED watch
  /\ pending' = IF pending = t THEN "nobody" ELSE pending
  /\ UNCHANGED <<host, files, history>>

Ensure(t) ==
  \/ Load(t) \/ Quit(t) \/ Reserve(t) \/ Confirm(t) \/ Build(t)
  \/ Abandon(t) \/ Install(t)

-----------------------------------------------------------------------------
(* Changes and batches.                                                    *)

With(w, c) == [w EXCEPT !.batch = c]

(* A file changes; every watcher that was made and not cancelled sees it.    *)
FileChanges ==
  /\ changes < MaxChange
  /\ changes' = changes + 1
  /\ watch' = IF watch.on THEN [watch EXCEPT !.with = With(@, changes')] ELSE watch
  /\ task' = [t \in Task |->
       IF task[t].at = "installing" /\ pending = t
       THEN [task[t] EXCEPT !.with = With(@, changes')] ELSE task[t]]
  /\ UNCHANGED <<host, pending, reported, history>>

Later(a, b) == IF a > b THEN a ELSE b

(* Mutant: the batch is cleared before it is emitted.                        *)
FlushBug ==
  /\ watch.on /\ watch.with.batch # 0
  /\ watch' = [watch EXCEPT !.with.batch = 0]
  /\ UNCHANGED <<host, task, pending, files, history>>

(* flush_pending_watch_events, 64 ms after the last change of the batch: the *)
(* changes are emitted and a git refresh is requested.  The thread of a      *)
(* watcher that is cancelled, or dropped, clears its batch instead.          *)
Flush ==
  /\ watch.on /\ watch.with.batch # 0
  /\ reported' = Later(reported, watch.with.batch)
  /\ watch' = [watch EXCEPT !.with.batch = 0]
  /\ UNCHANGED <<host, task, pending, changes, history>>

FlushEarly(t) ==
  /\ task[t].at = "installing" /\ pending = t /\ task[t].with.batch # 0
  /\ reported' = Later(reported, task[t].with.batch)
  /\ task' = [task EXCEPT ![t].with.batch = 0]
  /\ UNCHANGED <<host, registry, changes, history>>

-----------------------------------------------------------------------------

Next ==
  \/ Open \/ OpenActivate \/ CloseDeactivate \/ CloseRemove \/ CloseService \/ Reload
  \/ \E s \in 0..MaxSettings : SettingsReload(s) \/ SettingsOnly(s)
  \/ Restore \/ RestoreActivate
  \/ \E t \in Task : Ensure(t) \/ Fail(t) \/ FlushEarly(t)
  \/ FileChanges \/ Flush

Spec == Init /\ [][Next]_vars

(* A batch's timer ends once no change resets it.                            *)
FairSpec == Spec /\ WF_vars(Flush)

-----------------------------------------------------------------------------

(* However openings, closings and reloads overlap with calls that build a    *)
(* watcher, a watcher is installed only for a workspace that is open and     *)
(* active, or whose closing is about to remove it.  The one exception is a   *)
(* restore that activates between the halves of a closing.                   *)
WatchedIsOpen == watch.on => Current \/ main = "deactivated" \/ crossed

AtRest == MainIsFree /\ \A t \in Task : task[t].at = "idle"

(* Once everything has come to rest, an open workspace is watched with the   *)
(* settings that apply to it, and nothing is reserved for ever.  It is not   *)
(* watched only if a call failed or cancelled on an outdated look at the     *)
(* workspace.  Its settings are old only if they changed after the call that *)
(* reserved last had read them: before it reserved, or in a command that     *)
(* reloads no watcher of this workspace.                                     *)
OpenIsWatched ==
  AtRest => /\ pending = "nobody"
            /\ Current /\ ~unset => /\ watch.on
                                    /\ outdated \/ watch.with.settings = settings

(* A change that an installed watcher has seen is reported, unless the       *)
(* watcher is removed first.                                                 *)
ChangesAreReported ==
  \A c \in 1..MaxChange :
    (watch.on /\ changes = c /\ watch.with.batch # 0)
      ~> (reported >= c \/ ~watch.on)
=============================================================================
