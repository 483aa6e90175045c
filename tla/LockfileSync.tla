---------------------------- MODULE LockfileSync ----------------------------
(***************************************************************************)
(* One Dependabot pull request on its way to main: the lockfile-sync and   *)
(* auto-merge workflows, CI as the required check, and what happens to the *)
(* branch meanwhile.                                                       *)
(*                                                                         *)
(* GitHub, Dependabot and the maintainers are outside the repository.      *)
(* Every push to the branch is an event, delivered in order; a workflow    *)
(* run is cancelled by a later one of its concurrency group; and GitHub    *)
(* merges by the rules docs/automerge.md sets (required checks, branch up  *)
(* to date).  Commits are numbered as they are pushed: a hash never comes  *)
(* back.  The pull request bumps a manifest, so that uv lock is always     *)
(* due, and the set-up steps of a run do not fail.                         *)
(***************************************************************************)
EXTENDS Integers, Sequences, FiniteSets

CONSTANTS
  MaxMain,      \* how often main may move while the pull request is open
  MaxBumps,     \* how often Dependabot may push its bump, rebases included
  MaxSwitches   \* how often auto-merge may be switched off and on again

ASSUME BoundsAssumption ==
  MaxMain \in Nat /\ MaxBumps \in Nat \ {0} /\ MaxSwitches \in Nat

VARIABLES
  main,      \* the version of main
  commits,   \* every commit ever pushed to the branch
  events,    \* pull_request events on their way
  sync,      \* the latest lockfile-sync run of each concurrency group
  ci,        \* the commit CI is running for, or none
  auto,      \* the latest auto-merge run
  armed,     \* has auto-merge been enabled on the pull request?
  mergeOn,   \* is DEPENDABOT_AUTOMERGE_ENABLED "true"?
  switched,  \* how often it has been switched off
  merged     \* has GitHub merged the pull request?

vars == <<main, commits, events, sync, ci, auto, armed, mergeOn, switched, merged>>

-----------------------------------------------------------------------------

Authors == {"dependabot", "workflow", "update", "rearm"}
None == 0

(* The branch as a push left it.  by: who pushed.  author: of its last      *)
(* commit, a merge of main apart.  inStep: do the lockfiles agree with the  *)
(* manifests?  onto: the commit it was made on, None if it replaced the     *)
(* branch.  green: has CI passed it?                                        *)
Commit == [by : Authors, author : Authors, base : Nat, inStep : BOOLEAN,
           onto : Nat, green : BOOLEAN]

(* An event names the head it is about.                                     *)
Event == [action : {"opened", "synchronize"}, head : Nat]

(* The group is keyed by the pull request and the event's action.           *)
Groups == {"opened", "synchronize"}
Run == [pc : {"idle", "queued", "locking", "skipped", "success", "failure"},
        head : Nat, tip : Nat]
IdleRun == [pc |-> "idle", head |-> None, tip |-> None]

(* The remote branch points at the commit pushed last.                      *)
RemoteHead == Len(commits)
HeadCommit == commits[RemoteHead]
Count(who) == Cardinality({ i \in DOMAIN commits : commits[i].by = who })

(* commit i belongs to the history of commit tip.                           *)
InHistory(i, tip) ==
  i <= tip /\ \A j \in (i + 1)..tip : commits[j].onto # None

NewCommit(who, base, inStep, onto) ==
  [by |-> who, author |-> who, base |-> base, inStep |-> inStep, onto |-> onto,
   green |-> FALSE]

Init ==
  /\ main = 0
  /\ \E inStep \in BOOLEAN : commits = <<NewCommit("dependabot", 0, inStep, None)>>
  /\ events = <<[action |-> "opened", head |-> 1]>>
  /\ sync = [g \in Groups |-> IdleRun]
  /\ ci = None
  /\ auto = "idle"
  /\ armed = FALSE
  /\ mergeOn = TRUE
  /\ switched = 0
  /\ merged = FALSE

-----------------------------------------------------------------------------
(* Seeded bugs: what a plausible slip would make of the definition each is  *)
(* named after, for checking that the properties notice it.                 *)

(* A plain --force.                                                         *)
LeaseForced(run) == TRUE

(* git log without -1: any commit of the branch by the workflow stops it.   *)
LoopGuardAnywhere(tip) ==
  \E i \in 1..tip : InHistory(i, tip) /\ commits[i].by = "workflow"

(* uv sync --dev, which regenerates the lockfile on the fly.                *)
LockfileCheckLenient(i) == TRUE

(* Pushed with GITHUB_TOKEN: such pushes create no workflow runs.           *)
WakesActionsNot(who) == who # "workflow"

(* The guard reads github.actor, who triggered the event.                   *)
AutomergeIfActor(event) == mergeOn /\ commits[event.head].by = "dependabot"

(* A skipped job that does not report as one.                               *)
AutomergeRunUnreported(event) == IF mergeOn THEN "queued" ELSE "absent"

-----------------------------------------------------------------------------
(* The branch.                                                              *)

(* A push by a user, or with a PAT, is an event; one made with the          *)
(* workflow's own GITHUB_TOKEN would not be.                                *)
WakesActions(who) == TRUE

Push(commit) ==
  /\ commits' = Append(commits, commit)
  /\ events' = IF WakesActions(commit.by)
               THEN Append(events, [action |-> "synchronize", head |-> RemoteHead + 1])
               ELSE events

(* Dependabot (re)makes its bump on the current main and force-pushes it,   *)
(* whatever was on the branch; it may leave the lockfile behind.            *)
Rebase ==
  /\ ~merged
  /\ Count("dependabot") < MaxBumps
  /\ \E inStep \in BOOLEAN : Push(NewCommit("dependabot", main, inStep, None))
  /\ UNCHANGED <<main, sync, ci, auto, armed, mergeOn, switched, merged>>

(* update-branch, for a branch that is behind: main is merged into it, or   *)
(* its commits are replayed on main, keeping their authors.  A lockfile     *)
(* merged or replayed as text need not agree with the new manifests.        *)
UpdateBranch ==
  /\ ~merged
  /\ HeadCommit.base < main
  /\ \E inStep \in BOOLEAN, onto \in {RemoteHead, None} :
       Push([by |-> "update", author |-> HeadCommit.author, base |-> main,
             inStep |-> inStep, onto |-> onto, green |-> FALSE])
  /\ UNCHANGED <<main, sync, ci, auto, armed, mergeOn, switched, merged>>

MainMoves ==
  /\ ~merged
  /\ main < MaxMain
  /\ main' = main + 1
  /\ UNCHANGED <<commits, events, sync, ci, auto, armed, mergeOn, switched, merged>>

(* gh variable set DEPENDABOT_AUTOMERGE_ENABLED.  It pushes nothing.        *)
SwitchOff ==
  /\ ~merged
  /\ mergeOn
  /\ switched < MaxSwitches
  /\ mergeOn' = FALSE
  /\ switched' = switched + 1
  /\ UNCHANGED <<main, commits, events, sync, ci, auto, armed, merged>>

SwitchOn ==
  /\ ~merged
  /\ ~mergeOn
  /\ mergeOn' = TRUE
  /\ UNCHANGED <<main, commits, events, sync, ci, auto, armed, switched, merged>>

(* The switch is on again, and the last event was judged while it was off.  *)
Unarmed == mergeOn /\ switched > 0 /\ ~armed /\ auto = "skipped"

(* The empty commit that re-arms the pull request, if someone pushes it:    *)
(* once for each time the switch was off.                                   *)
Rearm ==
  /\ ~merged
  /\ Unarmed
  /\ events = <<>> /\ Count("rearm") < switched
  /\ Push(NewCommit("rearm", HeadCommit.base, HeadCommit.inStep, RemoteHead))
  /\ UNCHANGED <<main, sync, ci, auto, armed, mergeOn, switched, merged>>

-----------------------------------------------------------------------------
(* An event starts a run of each workflow, and cancels the run before it in *)
(* the same group.                                                          *)

(* The job's if: the author of the pull request is Dependabot throughout.   *)
AutomergeIf(event) == mergeOn

AutomergeRun(event) == IF AutomergeIf(event) THEN "queued" ELSE "skipped"

Trigger ==
  /\ ~merged
  /\ events # <<>>
  /\ LET event == Head(events)
     IN  /\ sync' = [sync EXCEPT ![event.action] =
                       [pc |-> "queued", head |-> event.head, tip |-> None]]
         /\ ci' = event.head
         /\ auto' = AutomergeRun(event)
  /\ events' = Tail(events)
  /\ UNCHANGED <<main, commits, armed, mergeOn, switched, merged>>

-----------------------------------------------------------------------------
(* dependabot-lockfile-sync.yml.                                            *)

(* The workflow is the author of the last commit.                           *)
LoopGuard(tip) ==
  commits[tip].author = "workflow" /\ ~(commits[tip].by = "update" /\ commits[tip].onto # None)

(* BASE_SHA and HEAD_SHA can only be compared if the checkout fetched them. *)
Fetched(base, head, tip) == base <= commits[tip].base /\ InHistory(head, tip)

(* The run checks out the branch as it is by now, which need not be the     *)
(* head of its event.  The event's base is main as GitHub saw it for this   *)
(* pull request, at any time since its head was made.                       *)
Checkout(g) ==
  /\ ~merged
  /\ sync[g].pc = "queued"
  /\ \E base \in commits[sync[g].head].base..main :
       sync' = [sync EXCEPT ![g] =
         [pc |-> IF LoopGuard(RemoteHead) THEN "skipped"
                 ELSE IF Fetched(base, sync[g].head, RemoteHead) THEN "locking"
                 ELSE "failure",
          head |-> sync[g].head, tip |-> RemoteHead]]
  /\ UNCHANGED <<main, commits, events, ci, auto, armed, mergeOn, switched, merged>>

(* --force-with-lease: the branch is still at the head of the event.        *)
Lease(run) == RemoteHead = run.head

(* uv lock found nothing to change.                                         *)
NothingToCommit(g) ==
  /\ ~merged
  /\ sync[g].pc = "locking"
  /\ commits[sync[g].tip].inStep
  /\ sync' = [sync EXCEPT ![g].pc = "success"]
  /\ UNCHANGED <<main, commits, events, ci, auto, armed, mergeOn, switched, merged>>

(* uv lock, commit, push.  A push the lease refuses ends the run well, too: *)
(* another run will reconcile.                                              *)
CommitAndPush(g) ==
  /\ ~merged
  /\ sync[g].pc = "locking"
  /\ ~commits[sync[g].tip].inStep
  /\ sync' = [sync EXCEPT ![g].pc = "success"]
  /\ IF Lease(sync[g])
     THEN Push(NewCommit("workflow", commits[sync[g].tip].base, TRUE, sync[g].tip))
     ELSE UNCHANGED <<commits, events>>
  /\ UNCHANGED <<main, ci, auto, armed, mergeOn, switched, merged>>

-----------------------------------------------------------------------------
(* ci.yml, dependabot-automerge.yml, and GitHub's merge.                    *)

(* task check:lockfile, uv lock --check in both workspaces.                 *)
LockfileCheck(i) == commits[i].inStep

(* CI checks the merge of the commit with main: the commit itself if it has *)
(* main's history, and else a merge that may come out either way.           *)
RunCI ==
  /\ ~merged
  /\ ci # None
  /\ \E ok \in IF commits[ci].base = main THEN {LockfileCheck(ci)} ELSE BOOLEAN :
       commits' = [commits EXCEPT ![ci].green = ok]
  /\ ci' = None
  /\ UNCHANGED <<main, events, sync, auto, armed, mergeOn, switched, merged>>

(* gh pr merge --auto: GitHub notes the intent, and keeps it.               *)
Arm ==
  /\ ~merged
  /\ auto = "queued"
  /\ auto' = "done"
  /\ armed' = TRUE
  /\ UNCHANGED <<main, commits, events, sync, ci, mergeOn, switched, merged>>

(* The ruleset: the head's checks are green, and it is up to date.          *)
Mergeable == HeadCommit.green /\ HeadCommit.base = main

(* The branch is deleted with the merge, so that runs under way end.        *)
Merge ==
  /\ ~merged
  /\ armed
  /\ Mergeable
  /\ merged' = TRUE
  /\ UNCHANGED <<main, commits, events, sync, ci, auto, armed, mergeOn, switched>>

-----------------------------------------------------------------------------

Next ==
  \/ Rebase \/ UpdateBranch \/ MainMoves \/ SwitchOff \/ SwitchOn \/ Rearm
  \/ Trigger
  \/ \E g \in Groups : Checkout(g) \/ NothingToCommit(g) \/ CommitAndPush(g)
  \/ RunCI \/ Arm \/ Merge

Spec == Init /\ [][Next]_vars

(* Actions deliver events and run what they start, GitHub merges what may   *)
(* be merged, a branch that is behind is updated and the switch does not    *)
(* stay off.  Nobody is counted on to re-arm: the runbook stops at setting  *)
(* the variable.                                                            *)
Fairness ==
  /\ WF_vars(Trigger)
  /\ \A g \in Groups : WF_vars(Checkout(g)) /\ WF_vars(CommitAndPush(g))
  /\ WF_vars(RunCI)
  /\ WF_vars(Arm)
  /\ WF_vars(Merge)
  /\ WF_vars(UpdateBranch)
  /\ WF_vars(SwitchOn)

FairSpec == Spec /\ Fairness

-----------------------------------------------------------------------------
(* Properties.                                                              *)

TypeOK ==
  /\ main \in 0..MaxMain
  /\ commits \in Seq(Commit) /\ commits # <<>>
  /\ events \in Seq(Event)
  /\ sync \in [Groups -> Run]
  /\ ci \in 0..RemoteHead
  /\ auto \in {"idle", "queued", "skipped", "done"}
  /\ armed \in BOOLEAN
  /\ mergeOn \in BOOLEAN
  /\ switched \in 0..MaxSwitches
  /\ merged \in BOOLEAN

(* What reaches main has lockfiles that agree with its manifests, and has   *)
(* main's history: auto-merge never takes a head whose lockfile commit is   *)
(* still to come, nor the verdict of another head or of an older main.      *)
MergedInStep == merged => HeadCommit.inStep /\ HeadCommit.base = main

(* A lockfile commit lands only on the very commit it was locked for: a     *)
(* rebase, an update or another run's push between the event, the checkout  *)
(* and the push is never overwritten.                                       *)
NoClobber ==
  [][ \A i \in DOMAIN commits' \ DOMAIN commits :
        commits'[i].by = "workflow" => commits'[i].onto = RemoteHead ]_vars

(* Whoever pushed last, and whatever runs were skipped, cancelled, refused  *)
(* by the lease or failed: there is or was a run for the head of the        *)
(* branch, so a run may leave it to another to reconcile.                   *)
HeadIsAttended ==
  \/ \E i \in DOMAIN events : events[i].head = RemoteHead
  \/ \E g \in Groups : sync[g].head = RemoteHead

(* A lockfile commit an update has replayed on another main, where it need  *)
(* no longer be the right one.                                              *)
Replayed(i) ==
  commits[i].by = "update" /\ commits[i].onto = None /\ commits[i].author = "workflow"

(* The loop guard skips no run that was needed, with one exception: it      *)
(* knows a lockfile commit by its author, which an update by rebase keeps.  *)
(* A skipped run saw lockfiles in step, or a replayed lockfile commit.      *)
SkipIsSafe ==
  \A g \in Groups :
    sync[g].pc = "skipped" => commits[sync[g].tip].inStep \/ Replayed(sync[g].tip)

(* Where nothing the repository holds will move the pull request on: the    *)
(* replayed lockfile is wrong and the guard skips its run, or the switch    *)
(* was set and no commit pushed to re-arm.                                  *)
StaleReplay == Replayed(RemoteHead) /\ ~HeadCommit.inStep

(* There are these two ways to be stranded and no third.  Else, as long as  *)
(* the pull request is open, an event is on its way, a run has its next     *)
(* step to take, GitHub may merge, the branch is to be updated or           *)
(* auto-merge is off.  No run that was cancelled, skipped, refused by the   *)
(* lease or failed leaves it without checks on its head, with a lockfile    *)
(* nobody regenerates, or unarmed.                                          *)
NeverStranded ==
  \/ merged
  \/ events # <<>> \/ ci # None \/ auto = "queued"
  \/ \E g \in Groups :
       \/ sync[g].pc = "queued"
       \/ sync[g].pc = "locking" /\ ~commits[sync[g].tip].inStep
  \/ armed /\ Mergeable
  \/ HeadCommit.base < main
  \/ ~mergeOn
  \/ Unarmed \/ StaleReplay

(* The pull request is merged in the end, without anyone touching its       *)
(* lockfile by hand, unless it is stranded in one of the two ways for good. *)
EventuallyMerged == <>merged \/ <>[]Unarmed \/ <>[]StaleReplay

(* What the docs say of the kill switch, and the program does not do: it    *)
(* holds from the next event on.  No pull request is merged whose latest    *)
(* event found auto-merge switched off.                                     *)
KillSwitchHolds == [][ ~merged /\ merged' => auto # "skipped" ]_vars
=============================================================================
