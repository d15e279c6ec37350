-------------------------- MODULE GitActivityFeed --------------------------
(***************************************************************************)
(* From a git/updated event to the activity feed of a workspace: the hook  *)
(* useSessionActivity, which sends an event's counts back to the host with *)
(* session_changefeed_push, and SessionChangeFeed::on_git_updated, which   *)
(* compares them with the last snapshot it kept and reports what differs.  *)
(* The events come from GitStatusCoordinator, and every one of its steps   *)
(* is a step here.                                                         *)
(***************************************************************************)
EXTENDS GitStatusCoordinator

CONSTANTS
  Unavailable,  \* the statuses of a folder that is not a usable repository
  NoSnapshot    \* last_snapshots has no entry of the workspace

ASSUME UnavailableAssumption == Unavailable \subseteq Status

VARIABLES
  watching,  \* the hook is mounted for this workspace
  pushes,    \* calls of session_changefeed_push on their way, in no order
  snapshot,  \* last_snapshots of the workspace
  newest     \* history: the newest push of each generation

feedVars == <<watching, pushes, snapshot, newest>>

\* gen is a history field: the payload carries the revision alone.
Snapshot == [status : Status, revision : Nat, gen : Generation]

ASSUME NoSnapshotAssumption == NoSnapshot \notin Snapshot

FeedTypeOK ==
  /\ watching \in BOOLEAN
  /\ \A event \in pushes : event \in Snapshot /\ event.status \notin Unavailable
  /\ snapshot \in Snapshot \cup {NoSnapshot}
  /\ newest \in [Generation -> Snapshot \cup {NoSnapshot}]

FeedInit ==
  /\ Init
  /\ watching \in BOOLEAN
  /\ pushes = {}
  /\ snapshot = NoSnapshot
  /\ newest = [g \in Generation |-> NoSnapshot]

\* The window shows the workspace, or another one.
Watch ==
  /\ watching' = ~watching
  /\ UNCHANGED <<vars, pushes, snapshot, newest>>

\* The hook leaves out other workspaces and repositories that are not usable.
OnGitUpdated(event) ==
  IF watching /\ event.status \notin Unavailable
  THEN /\ pushes' = pushes \cup {event}
       /\ newest' = [newest EXCEPT ![event.gen] = event]
  ELSE UNCHANGED <<pushes, newest>>

EmitToHook(w) ==
  /\ Emit(w)
  /\ OnGitUpdated([status |-> worker[w].status, revision |-> worker[w].payload,
                   gen |-> worker[w].gen])
  /\ UNCHANGED <<watching, snapshot>>

\* The coordinator's other steps.
CoordinatorStep ==
  /\ Next /\ emitted' = emitted
  /\ UNCHANGED feedVars

\* Mutant: a late push is kept like any other.
PushBug(event) ==
  /\ event \in pushes
  /\ pushes' = pushes \ {event}
  /\ snapshot' = event
  /\ UNCHANGED <<vars, watching, newest>>

\* session_changefeed_push: a revision the feed has seen is ignored.
Push(event) ==
  /\ event \in pushes
  /\ pushes' = pushes \ {event}
  /\ snapshot' = IF snapshot # NoSnapshot /\ snapshot.revision >= event.revision
                 THEN snapshot ELSE event
  /\ UNCHANGED <<vars, watching, newest>>

FeedNext ==
  \/ CoordinatorStep
  \/ \E w \in Worker : EmitToHook(w)
  \/ Watch
  \/ \E event \in pushes : Push(event)

FeedSpec == FeedInit /\ [][FeedNext]_<<vars, feedVars>>

-----------------------------------------------------------------------------

\* An opening, whose revisions begin at 1 again, is held back by another one if that
\* has taken the feed as far as the newest revision of it.
HeldBack(g) ==
  \E h \in Generation \ {g} :
    newest[h] # NoSnapshot /\ newest[h].revision >= newest[g].revision

\* Once the pushes have arrived, in whatever order, the feed has the newest status of
\* the standing entry, or another opening of the workspace holds it back: a late push
\* neither takes the feed back nor keeps it back.
FeedIsCurrent ==
  active /\ pushes = {} /\ newest[generation] # NoSnapshot =>
    snapshot = newest[generation] \/ HeldBack(generation)
=============================================================================
