------------------------- MODULE LockfileSyncProofs -------------------------
(***************************************************************************)
(* Proofs about LockfileSync, for any number of main's moves, Dependabot's *)
(* rebases and kill-switch flips.                                          *)
(***************************************************************************)
EXTENDS LockfileSync, TLAPS

-----------------------------------------------------------------------------
(* The inductive invariant, part by part.                                   *)

(* A commit contains no later main than there is; CI's verdict, as long as  *)
(* main has not moved past the commit, is that of its lockfiles; the        *)
(* workflow's own commits are in step; and only an update carries another's *)
(* commits.                                                                 *)
CommitsSound ==
  \A i \in DOMAIN commits :
    /\ commits[i].base <= main
    /\ commits[i].green /\ commits[i].base = main => commits[i].inStep
    /\ commits[i].by = "workflow" => commits[i].inStep
    /\ commits[i].by # "update" => commits[i].author = commits[i].by

(* A run knows the head of its event, and none before there is one; once it *)
(* has checked out, a commit that is there; and as long as it may push,     *)
(* that commit is no older than the event.                                  *)
RunSound(run) ==
  /\ run.pc = "idle" => run.head = None
  /\ run.pc # "idle" => run.head \in 1..RemoteHead
  /\ run.pc \notin {"idle", "queued"} => run.tip \in 1..RemoteHead
  /\ run.pc = "locking" => run.head <= run.tip

RunsSound == \A g \in Groups : RunSound(sync[g])

(* Events are handled in the order of the pushes: the last one under way is *)
(* that of the head, and with none under way the head's has been handled.   *)
EventsSound ==
  /\ \A i \in DOMAIN events : events[i].head \in 1..RemoteHead
  /\ events # <<>> => events[Len(events)].head = RemoteHead
  /\ events = <<>> => \E g \in Groups : sync[g].head = RemoteHead

IInv ==
  /\ TypeOK
  /\ CommitsSound
  /\ RunsSound
  /\ EventsSound
  /\ SkipIsSafe
  /\ MergedInStep

-----------------------------------------------------------------------------
(* A push by anyone adds one commit and one event, and leaves the rest.     *)
LEMMA PushKeeps ==
  ASSUME TypeOK, CommitsSound, EventsSound, main' = main,
         NEW c \in Commit, c.base <= main, ~c.green,
         c.by = "workflow" => c.inStep,
         c.by # "update" => c.author = c.by,
         Push(c)
  PROVE  /\ commits' \in Seq(Commit) /\ commits' # <<>>
         /\ Len(commits') = RemoteHead + 1
         /\ \A i \in 1..RemoteHead : commits'[i] = commits[i]
         /\ commits'[RemoteHead + 1] = c
         /\ events' \in Seq(Event)
         /\ CommitsSound'
         /\ EventsSound'
<1>1. commits' = Append(commits, c) BY DEF Push
<1>2. /\ commits' \in Seq(Commit) /\ commits' # <<>>
      /\ Len(commits') = RemoteHead + 1
      /\ \A i \in 1..RemoteHead : commits'[i] = commits[i]
      /\ commits'[RemoteHead + 1] = c
  BY <1>1 DEF TypeOK, RemoteHead
<1> DEFINE e == [action |-> "synchronize", head |-> RemoteHead + 1]
<1>3. events' = Append(events, e) BY DEF Push, WakesActions
<1>4. e \in Event /\ RemoteHead \in Nat BY DEF Event, RemoteHead, TypeOK
<1>5. /\ events' \in Seq(Event)
      /\ Len(events') = Len(events) + 1 /\ Len(events) \in Nat
      /\ \A i \in 1..Len(events) : events'[i] = events[i]
      /\ events'[Len(events) + 1] = e
      /\ events' # <<>>
  BY <1>3, <1>4 DEF TypeOK
<1>6. CommitsSound'
  <2> SUFFICES ASSUME NEW i \in DOMAIN commits'
               PROVE  /\ commits'[i].base <= main
                      /\ commits'[i].green /\ commits'[i].base = main => commits'[i].inStep
                      /\ commits'[i].by = "workflow" => commits'[i].inStep
                      /\ commits'[i].by # "update" => commits'[i].author = commits'[i].by
    BY DEF CommitsSound
  <2>1. i \in 1..(RemoteHead + 1) /\ DOMAIN commits = 1..RemoteHead
    BY <1>2 DEF RemoteHead, TypeOK
  <2>2. CASE i = RemoteHead + 1 BY <2>2, <1>2
  <2>3. CASE i # RemoteHead + 1
    <3>1. i \in 1..RemoteHead BY <2>1, <2>3, <1>4
    <3> QED BY <3>1, <2>1, <1>2 DEF CommitsSound
  <2> QED BY <2>2, <2>3
<1>7. EventsSound'
  <2>1. Len(events') = Len(events) + 1 /\ events'[Len(events')].head = RemoteHead + 1
    BY <1>5
  <2>2. ASSUME NEW i \in DOMAIN events'
        PROVE  events'[i].head \in 1..(RemoteHead + 1)
    <3>1. i \in 1..(Len(events) + 1) BY <1>5
    <3>2. CASE i = Len(events) + 1 BY <3>2, <1>5, <1>4
    <3>3. CASE i # Len(events) + 1
      <4>1. i \in 1..Len(events) BY <3>1, <3>3, <1>5
      <4>2. events[i].head \in 1..RemoteHead BY <4>1 DEF EventsSound, TypeOK
      <4> QED BY <4>1, <4>2, <1>5, <1>4
    <3> QED BY <3>2, <3>3
  <2>3. RemoteHead' = RemoteHead + 1 BY <1>2 DEF RemoteHead
  <2> QED BY <2>1, <2>2, <2>3, <1>5 DEF EventsSound
<1> QED BY <1>2, <1>5, <1>6, <1>7

(* A new commit leaves what the runs know of the older ones as it was.      *)
LEMMA PushKeepsRuns ==
  ASSUME TypeOK, RunsSound, SkipIsSafe, sync' = sync,
         RemoteHead' = RemoteHead + 1,
         \A i \in 1..RemoteHead : commits'[i] = commits[i]
  PROVE  RunsSound' /\ SkipIsSafe'
<1>1. RemoteHead \in Nat BY DEF TypeOK, RemoteHead
<1>2. RunsSound'
  <2> SUFFICES ASSUME NEW g \in Groups PROVE RunSound(sync[g])'
    BY DEF RunsSound
  <2>1. RunSound(sync[g]) BY DEF RunsSound
  <2> QED BY <2>1, <1>1 DEF RunSound
<1>3. SkipIsSafe'
  <2> SUFFICES ASSUME NEW g \in Groups, sync[g].pc = "skipped"
               PROVE  commits'[sync[g].tip].inStep \/ Replayed(sync[g].tip)'
    BY DEF SkipIsSafe, Replayed
  <2>1. /\ sync[g].tip \in 1..RemoteHead
        /\ commits[sync[g].tip].inStep \/ Replayed(sync[g].tip)
    BY DEF SkipIsSafe, RunsSound, RunSound
  <2> QED BY <2>1 DEF Replayed
<1> QED BY <1>2, <1>3

LEMMA Initially == Init => IInv
<1> SUFFICES ASSUME Init PROVE IInv OBVIOUS
<1>1. PICK inStep \in BOOLEAN : commits = <<NewCommit("dependabot", 0, inStep, None)>>
  BY DEF Init
<1>2. NewCommit("dependabot", 0, inStep, None) \in Commit
  BY DEF NewCommit, Commit, Authors, None
<1>3. commits \in Seq(Commit) /\ RemoteHead = 1 /\ commits # <<>>
      /\ commits[1] = NewCommit("dependabot", 0, inStep, None)
  BY <1>1, <1>2 DEF RemoteHead
<1>4. TypeOK
  <2>1. [action |-> "opened", head |-> 1] \in Event BY DEF Event
  <2>2. events \in Seq(Event) BY <2>1 DEF Init
  <2>3. IdleRun \in Run BY DEF IdleRun, Run, None
  <2>4. sync \in [Groups -> Run] BY <2>3 DEF Init
  <2>5. main \in 0..MaxMain /\ ci \in 0..RemoteHead BY <1>3, BoundsAssumption DEF Init, None
  <2>6. /\ auto \in {"idle", "queued", "skipped", "done"} /\ armed \in BOOLEAN
        /\ mergeOn \in BOOLEAN /\ merged \in BOOLEAN
    BY DEF Init
  <2>7. switched \in 0..MaxSwitches BY BoundsAssumption DEF Init
  <2> QED BY <1>3, <2>2, <2>4, <2>5, <2>6, <2>7 DEF TypeOK
<1>5. CommitsSound BY <1>3 DEF CommitsSound, NewCommit, Init, RemoteHead
<1>6. RunsSound /\ SkipIsSafe
  BY DEF Init, RunsSound, RunSound, SkipIsSafe, IdleRun
<1>7. EventsSound BY <1>3 DEF EventsSound, Init
<1>8. MergedInStep BY DEF Init, MergedInStep
<1> QED BY <1>4, <1>5, <1>6, <1>7, <1>8 DEF IInv

-----------------------------------------------------------------------------
(* One lemma per group of actions.                                          *)

LEMMA EnvironmentKeeps ==
  ASSUME IInv, Rebase \/ UpdateBranch \/ Rearm
  PROVE  IInv'
<1> USE DEF IInv
<1>1. /\ main' = main /\ sync' = sync /\ ci' = ci /\ auto' = auto
      /\ armed' = armed /\ merged' = merged /\ ~merged
      /\ mergeOn' = mergeOn /\ switched' = switched
  BY DEF Rebase, UpdateBranch, Rearm
<1>2. HeadCommit \in Commit /\ RemoteHead \in DOMAIN commits /\ RemoteHead \in Nat \ {0}
      /\ HeadCommit.base <= main /\ main \in Nat
  BY BoundsAssumption DEF TypeOK, HeadCommit, RemoteHead, CommitsSound
<1>3. PICK c \in Commit :
        /\ c.base <= main /\ ~c.green /\ c.by # "workflow" /\ Push(c)
        /\ c.by # "update" => c.author = c.by
  <2>1. CASE Rebase
    <3>1. PICK inStep \in BOOLEAN : Push(NewCommit("dependabot", main, inStep, None))
      BY <2>1 DEF Rebase
    <3> DEFINE c == NewCommit("dependabot", main, inStep, None)
    <3>2. c \in Commit /\ c.base <= main /\ ~c.green /\ c.by # "workflow" /\ c.author = c.by
      BY <1>2 DEF NewCommit, Commit, Authors, None
    <3> QED BY <3>1, <3>2
  <2>2. CASE UpdateBranch
    <3>1. PICK inStep \in BOOLEAN, onto \in {RemoteHead, None} :
            Push([by |-> "update", author |-> HeadCommit.author, base |-> main,
                  inStep |-> inStep, onto |-> onto, green |-> FALSE])
      BY <2>2 DEF UpdateBranch
    <3> DEFINE c == [by |-> "update", author |-> HeadCommit.author, base |-> main,
                     inStep |-> inStep, onto |-> onto, green |-> FALSE]
    <3>2. HeadCommit.author \in Authors /\ onto \in Nat BY <1>2, <3>1 DEF Commit, None
    <3>3. c \in Commit /\ c.base <= main /\ ~c.green /\ c.by = "update"
      BY <1>2, <3>2 DEF Commit, Authors
    <3> QED BY <3>1, <3>3
  <2>3. CASE Rearm
    <3> DEFINE c == NewCommit("rearm", HeadCommit.base, HeadCommit.inStep, RemoteHead)
    <3>1. Push(c) BY <2>3 DEF Rearm
    <3>2. HeadCommit.base \in Nat /\ HeadCommit.inStep \in BOOLEAN BY <1>2 DEF Commit
    <3>3. c \in Commit /\ c.base <= main /\ ~c.green /\ c.by # "workflow" /\ c.author = c.by
      BY <1>2, <3>2 DEF NewCommit, Commit, Authors
    <3> QED BY <3>1, <3>3
  <2> QED BY <2>1, <2>2, <2>3
<1>4. /\ commits' \in Seq(Commit) /\ commits' # <<>>
      /\ Len(commits') = RemoteHead + 1
      /\ \A i \in 1..RemoteHead : commits'[i] = commits[i]
      /\ events' \in Seq(Event)
      /\ CommitsSound'
      /\ EventsSound'
  BY <1>1, <1>3, PushKeeps
<1>5. RemoteHead' = RemoteHead + 1 BY <1>4 DEF RemoteHead
<1>6. RunsSound' /\ SkipIsSafe' BY <1>1, <1>4, <1>5, PushKeepsRuns
<1>7. TypeOK' BY <1>1, <1>2, <1>4, <1>5 DEF TypeOK
<1>8. MergedInStep' BY <1>1 DEF MergedInStep
<1> QED BY <1>4, <1>6, <1>7, <1>8

LEMMA MainKeeps == ASSUME IInv, MainMoves PROVE IInv'
<1> USE DEF IInv, MainMoves
<1>1. TypeOK' BY BoundsAssumption DEF TypeOK, RemoteHead
<1>2. CommitsSound'
  <2> SUFFICES ASSUME NEW i \in DOMAIN commits
               PROVE  /\ commits[i].base <= main + 1
                      /\ commits[i].green /\ commits[i].base = main + 1 => commits[i].inStep
                      /\ commits[i].by = "workflow" => commits[i].inStep
                      /\ commits[i].by # "update" => commits[i].author = commits[i].by
    BY DEF CommitsSound
  <2>1. commits[i] \in Commit /\ main \in Int BY DEF TypeOK
  <2>2. commits[i].base \in Nat BY <2>1 DEF Commit
  <2> QED BY <2>1, <2>2 DEF CommitsSound
<1>3. RunsSound' /\ EventsSound' /\ SkipIsSafe'
  BY DEF RunsSound, RunSound, EventsSound, SkipIsSafe, Replayed, RemoteHead
<1>4. MergedInStep' BY DEF MergedInStep
<1> QED BY <1>1, <1>2, <1>3, <1>4

LEMMA QuietKeeps == ASSUME IInv, SwitchOff \/ SwitchOn \/ Arm \/ Merge PROVE IInv'
<1> USE DEF IInv
<1>1. UNCHANGED <<main, commits, events, sync, ci>>
  BY DEF SwitchOff, SwitchOn, Arm, Merge
<1>2. auto' \in {"idle", "queued", "skipped", "done"} /\ armed' \in BOOLEAN
      /\ mergeOn' \in BOOLEAN /\ merged' \in BOOLEAN
  BY DEF SwitchOff, SwitchOn, Arm, Merge, TypeOK
<1>3. TypeOK'
  <2>1. switched' \in 0..MaxSwitches
    BY BoundsAssumption DEF SwitchOff, SwitchOn, Arm, Merge, TypeOK
  <2> QED BY <1>1, <1>2, <2>1 DEF TypeOK, RemoteHead
<1>4. CommitsSound' /\ RunsSound' /\ EventsSound' /\ SkipIsSafe'
  BY <1>1 DEF CommitsSound, RunsSound, RunSound, EventsSound, SkipIsSafe, Replayed, RemoteHead
<1>5. MergedInStep'
  <2>1. CASE SwitchOff \/ SwitchOn \/ Arm
    BY <2>1, <1>1 DEF SwitchOff, SwitchOn, Arm, MergedInStep, HeadCommit, RemoteHead
  <2>2. CASE Merge
    <3>1. RemoteHead \in DOMAIN commits BY DEF TypeOK, RemoteHead
    <3> QED BY <2>2, <1>1, <3>1 DEF Merge, Mergeable, MergedInStep, HeadCommit, RemoteHead, CommitsSound
  <2> QED BY <2>1, <2>2
<1> QED BY <1>3, <1>4, <1>5

LEMMA CIKeeps == ASSUME IInv, RunCI PROVE IInv'
<1> USE DEF IInv
<1>1. UNCHANGED <<main, events, sync, auto, armed, mergeOn, switched, merged>> /\ ci' = None /\ ~merged
  BY DEF RunCI
<1>2. ci \in 1..RemoteHead /\ RemoteHead = Len(commits) /\ DOMAIN commits = 1..RemoteHead
      /\ commits \in Seq(Commit)
  BY DEF RunCI, TypeOK, None, RemoteHead
<1>3. commits[ci] \in Commit /\ LockfileCheck(ci) \in BOOLEAN
  <2>1. commits[ci] \in Commit BY <1>2
  <2>2. commits[ci].inStep \in BOOLEAN BY <2>1 DEF Commit
  <2> QED BY <2>1, <2>2 DEF LockfileCheck
<1>4. PICK ok \in BOOLEAN :
        /\ commits' = [commits EXCEPT ![ci].green = ok]
        /\ commits[ci].base = main => ok = commits[ci].inStep
  BY <1>3 DEF RunCI, LockfileCheck
<1>5. /\ commits' \in Seq(Commit) /\ commits' # <<>>
      /\ DOMAIN commits' = DOMAIN commits /\ Len(commits') = RemoteHead
      /\ \A i \in DOMAIN commits : i # ci => commits'[i] = commits[i]
      /\ commits'[ci] = [commits[ci] EXCEPT !.green = ok]
  <2>1. [commits[ci] EXCEPT !.green = ok] \in Commit BY <1>3 DEF Commit
  <2>2. commits' = [commits EXCEPT ![ci] = [commits[ci] EXCEPT !.green = ok]] BY <1>4
  <2> QED BY <2>1, <2>2, <1>2 DEF TypeOK
<1>6. /\ commits'[ci].base = commits[ci].base /\ commits'[ci].inStep = commits[ci].inStep
      /\ commits'[ci].by = commits[ci].by /\ commits'[ci].green = ok
      /\ commits'[ci].author = commits[ci].author /\ commits'[ci].onto = commits[ci].onto
  BY <1>5, <1>3 DEF Commit
<1>7. RemoteHead' = RemoteHead BY <1>5 DEF RemoteHead
<1>8. \A i \in DOMAIN commits : /\ commits'[i].inStep = commits[i].inStep
                               /\ Replayed(i)' = Replayed(i)
  BY <1>5, <1>6 DEF Replayed
<1>9. TypeOK' BY <1>1, <1>5, <1>7 DEF TypeOK, None, RemoteHead
<1>10. CommitsSound'
  <2> SUFFICES ASSUME NEW i \in DOMAIN commits
               PROVE  /\ commits'[i].base <= main
                      /\ commits'[i].green /\ commits'[i].base = main => commits'[i].inStep
                      /\ commits'[i].by = "workflow" => commits'[i].inStep
                      /\ commits'[i].by # "update" => commits'[i].author = commits'[i].by
    BY <1>1, <1>5 DEF CommitsSound
  <2>1. CASE i = ci BY <2>1, <1>2, <1>4, <1>6 DEF CommitsSound
  <2>2. CASE i # ci BY <2>2, <1>5 DEF CommitsSound
  <2> QED BY <2>1, <2>2
<1>11. RunsSound' /\ EventsSound'
  BY <1>1, <1>7 DEF RunsSound, RunSound, EventsSound
<1>12. SkipIsSafe'
  BY <1>1, <1>2, <1>8 DEF SkipIsSafe, RunsSound, RunSound
<1>13. MergedInStep' BY <1>1 DEF MergedInStep
<1> QED BY <1>9, <1>10, <1>11, <1>12, <1>13

LEMMA TriggerKeeps == ASSUME IInv, Trigger PROVE IInv'
<1> USE DEF IInv
<1> DEFINE event == Head(events)
           run == [pc |-> "queued", head |-> event.head, tip |-> None]
<1>1. /\ UNCHANGED <<main, commits, armed, mergeOn, switched, merged>> /\ ~merged
      /\ events # <<>> /\ events' = Tail(events)
      /\ sync' = [sync EXCEPT ![event.action] = run]
      /\ ci' = event.head
      /\ auto' \in {"queued", "skipped"}
  BY DEF Trigger, AutomergeRun
<1>2. /\ events \in Seq(Event) /\ event = events[1] /\ event \in Event
      /\ Len(events) \in Nat \ {0} /\ 1 \in DOMAIN events
      /\ events' \in Seq(Event) /\ Len(events') = Len(events) - 1
      /\ \A i \in 1..Len(events') : events'[i] = events[i + 1]
  BY <1>1 DEF TypeOK
<1>3. event.head \in 1..RemoteHead /\ event.action \in Groups /\ RemoteHead \in Nat
  <2>1. event.head \in 1..RemoteHead BY <1>2 DEF EventsSound
  <2>2. event.action \in Groups BY <1>2 DEF Event, Groups
  <2> QED BY <2>1, <2>2 DEF TypeOK, RemoteHead
<1>4. run \in Run BY <1>3 DEF Run, None
<1>5. sync' \in [Groups -> Run] /\ sync'[event.action] = run
      /\ \A g \in Groups : g # event.action => sync'[g] = sync[g]
  BY <1>1, <1>3, <1>4 DEF TypeOK
<1>6. RemoteHead' = RemoteHead BY <1>1 DEF RemoteHead
<1>7. TypeOK'
  <2>1. event.head \in 0..RemoteHead BY <1>3
  <2> QED BY <1>1, <1>2, <1>5, <1>6, <2>1 DEF TypeOK
<1>8. CommitsSound' BY <1>1 DEF CommitsSound
<1>9. RunsSound'
  <2> SUFFICES ASSUME NEW g \in Groups PROVE RunSound(sync[g])' BY DEF RunsSound
  <2>1. CASE g = event.action
    <3>1. sync'[g] = run BY <2>1, <1>5
    <3> QED BY <3>1, <1>3, <1>6 DEF RunSound
  <2>2. CASE g # event.action BY <2>2, <1>5, <1>6 DEF RunsSound, RunSound
  <2> QED BY <2>1, <2>2
<1>10. EventsSound'
  <2>1. \A i \in DOMAIN events' : events'[i].head \in 1..RemoteHead
    <3> SUFFICES ASSUME NEW i \in 1..Len(events') PROVE events'[i].head \in 1..RemoteHead
      BY <1>2
    <3>1. i + 1 \in DOMAIN events BY <1>2
    <3> QED BY <3>1, <1>2 DEF EventsSound
  <2>2. CASE events' = <<>>
    <3>1. Len(events) = 1 BY <2>2, <1>2
    <3>2. event.head = RemoteHead BY <3>1, <1>1, <1>2 DEF EventsSound
    <3> QED BY <2>1, <2>2, <3>2, <1>3, <1>5, <1>6 DEF EventsSound
  <2>3. CASE events' # <<>>
    <3>1. Len(events') \in 1..Len(events') BY <2>3, <1>2
    <3>2. events'[Len(events')] = events[Len(events)] BY <3>1, <1>2
    <3> QED BY <2>1, <2>3, <3>2, <1>1, <1>6 DEF EventsSound
  <2> QED BY <2>2, <2>3
<1>11. SkipIsSafe' BY <1>1, <1>5 DEF SkipIsSafe, Replayed
<1>12. MergedInStep' BY <1>1 DEF MergedInStep
<1> QED BY <1>7, <1>8, <1>9, <1>10, <1>11, <1>12

(* Checking out and finding nothing to lock change only the run.            *)
LEMMA CheckoutKeeps ==
  ASSUME IInv, NEW g \in Groups, Checkout(g) \/ NothingToCommit(g)
  PROVE  IInv'
<1> USE DEF IInv
<1>1. UNCHANGED <<main, commits, events, ci, auto, armed, mergeOn, switched, merged>> /\ ~merged
  BY DEF Checkout, NothingToCommit
<1>2. /\ RemoteHead \in Nat \ {0} /\ RemoteHead \in DOMAIN commits
      /\ sync \in [Groups -> Run] /\ sync[g] \in Run
  BY DEF TypeOK, RemoteHead
<1>3. PICK run \in Run :
        /\ sync' = [sync EXCEPT ![g] = run]
        /\ run.head = sync[g].head
        /\ RunSound(run)
        /\ run.pc = "skipped" => commits[run.tip].inStep \/ Replayed(run.tip)
  <2>1. CASE Checkout(g)
    <3>1. PICK base : sync' = [sync EXCEPT ![g] =
             [pc |-> IF LoopGuard(RemoteHead) THEN "skipped"
                     ELSE IF Fetched(base, sync[g].head, RemoteHead) THEN "locking"
                     ELSE "failure",
              head |-> sync[g].head, tip |-> RemoteHead]]
      BY <2>1 DEF Checkout
    <3> DEFINE run == [pc |-> IF LoopGuard(RemoteHead) THEN "skipped"
                              ELSE IF Fetched(base, sync[g].head, RemoteHead) THEN "locking"
                              ELSE "failure",
                       head |-> sync[g].head, tip |-> RemoteHead]
    <3>2. run \in Run BY <1>2 DEF Run
    <3>3. sync' = [sync EXCEPT ![g] = run] BY <3>1
    <3>4. sync[g].head \in 1..RemoteHead
      BY <2>1 DEF Checkout, RunsSound, RunSound
    <3>5. run.pc = "locking" => sync[g].head <= RemoteHead BY DEF Fetched, InHistory
    <3>6. RunSound(run) BY <1>2, <3>4, <3>5 DEF RunSound
    <3>7. run.pc = "skipped" => commits[run.tip].inStep \/ Replayed(run.tip)
      BY <1>2 DEF LoopGuard, Replayed, CommitsSound
    <3> QED BY <3>2, <3>3, <3>6, <3>7
  <2>2. CASE NothingToCommit(g)
    <3> DEFINE run == [pc |-> "success", head |-> sync[g].head, tip |-> sync[g].tip]
    <3>1. run \in Run BY <1>2 DEF Run
    <3>2. sync' = [sync EXCEPT ![g] = run]
      <4>1. [sync[g] EXCEPT !.pc = "success"] = run BY <1>2 DEF Run
      <4> QED BY <2>2, <4>1, <1>2 DEF NothingToCommit
    <3>3. RunSound(run)
      BY <2>2 DEF NothingToCommit, RunsSound, RunSound
    <3> QED BY <3>1, <3>2, <3>3
  <2> QED BY <2>1, <2>2
<1>4. /\ sync' \in [Groups -> Run] /\ sync'[g] = run
      /\ \A h \in Groups : h # g => sync'[h] = sync[h]
  BY <1>2, <1>3
<1>5. RemoteHead' = RemoteHead BY <1>1 DEF RemoteHead
<1>6. TypeOK' BY <1>1, <1>4, <1>5 DEF TypeOK
<1>7. CommitsSound' /\ MergedInStep' BY <1>1 DEF CommitsSound, MergedInStep
<1>8. RunsSound'
  <2> SUFFICES ASSUME NEW h \in Groups PROVE RunSound(sync[h])' BY DEF RunsSound
  <2>1. CASE h = g BY <2>1, <1>3, <1>4, <1>5 DEF RunSound
  <2>2. CASE h # g BY <2>2, <1>4, <1>5 DEF RunSound, RunsSound
  <2> QED BY <2>1, <2>2
<1>9. EventsSound'
  <2>1. \A h \in Groups : sync'[h].head = sync[h].head BY <1>3, <1>4
  <2> QED BY <2>1, <1>1, <1>5 DEF EventsSound
<1>10. SkipIsSafe' BY <1>1, <1>3, <1>4 DEF SkipIsSafe, Replayed
<1> QED BY <1>6, <1>7, <1>8, <1>9, <1>10

(* What the lease is for: the commit locked, the head of the event and the  *)
(* head of the branch are then all the same.                                *)
LEMMA LeaseMeansHead ==
  ASSUME IInv, NEW g \in Groups, sync[g].pc = "locking", Lease(sync[g])
  PROVE  sync[g].tip = RemoteHead
<1>1. sync[g].head <= sync[g].tip /\ sync[g].tip \in 1..RemoteHead /\ RemoteHead \in Nat
  BY DEF IInv, RunsSound, RunSound, TypeOK, RemoteHead
<1>2. sync[g].head = RemoteHead BY DEF Lease
<1> QED BY <1>1, <1>2

LEMMA PushKeepsAll ==
  ASSUME IInv, NEW g \in Groups, CommitAndPush(g)
  PROVE  IInv'
<1> USE DEF IInv
<1> DEFINE run == [pc |-> "success", head |-> sync[g].head, tip |-> sync[g].tip]
<1>1. UNCHANGED <<main, ci, auto, armed, mergeOn, switched, merged>> /\ ~merged
      /\ sync[g].pc = "locking"
  BY DEF CommitAndPush
<1>2. /\ RemoteHead \in Nat \ {0} /\ DOMAIN commits = 1..RemoteHead
      /\ sync \in [Groups -> Run] /\ sync[g] \in Run
  BY DEF TypeOK, RemoteHead
<1>3. sync' = [sync EXCEPT ![g] = run]
  <2>1. [sync[g] EXCEPT !.pc = "success"] = run BY <1>2 DEF Run
  <2> QED BY <2>1, <1>2 DEF CommitAndPush
<1>4. run \in Run BY <1>2 DEF Run
<1>5. /\ sync' \in [Groups -> Run] /\ sync'[g] = run
      /\ \A h \in Groups : h # g => sync'[h] = sync[h]
  BY <1>2, <1>3, <1>4
<1>6. sync[g].tip \in 1..RemoteHead /\ sync[g].head \in 1..RemoteHead
  BY <1>1 DEF RunsSound, RunSound
<1>7. \A h \in Groups : sync'[h].head = sync[h].head BY <1>5
<1>8. ASSUME NEW h \in Groups, NEW n \in Nat, RemoteHead' = RemoteHead + n
      PROVE  RunSound(sync[h])'
  <2>1. RunSound(sync[h]) BY DEF RunsSound
  <2>2. CASE h = g BY <2>2, <1>2, <1>5, <1>6, <1>8 DEF RunSound
  <2>3. CASE h # g BY <2>1, <2>3, <1>2, <1>5, <1>8 DEF RunSound
  <2> QED BY <2>2, <2>3
<1>9. MergedInStep' BY <1>1 DEF MergedInStep
<1>10. CASE Lease(sync[g])
  <2> DEFINE c == NewCommit("workflow", commits[sync[g].tip].base, TRUE, sync[g].tip)
  <2>1. Push(c) BY <1>10 DEF CommitAndPush
  <2>2. commits[sync[g].tip] \in Commit /\ commits[sync[g].tip].base <= main
    BY <1>2, <1>6 DEF TypeOK, CommitsSound
  <2>3. commits[sync[g].tip].base \in Nat BY <2>2 DEF Commit
  <2>4. c \in Commit /\ c.base <= main /\ ~c.green /\ c.inStep /\ c.author = c.by
    BY <1>6, <2>2, <2>3 DEF NewCommit, Commit, Authors
  <2> HIDE DEF c
  <2>5. /\ commits' \in Seq(Commit) /\ commits' # <<>>
        /\ Len(commits') = RemoteHead + 1
        /\ \A i \in 1..RemoteHead : commits'[i] = commits[i]
        /\ events' \in Seq(Event)
        /\ CommitsSound'
        /\ EventsSound'
    BY <1>1, <2>1, <2>4, PushKeeps
  <2>6. RemoteHead' = RemoteHead + 1 BY <2>5 DEF RemoteHead
  <2>7. RunsSound' BY <1>8, <2>6 DEF RunsSound
  <2>8. TypeOK' BY <1>1, <1>2, <1>5, <2>5, <2>6 DEF TypeOK
  <2>9. SkipIsSafe'
    <3> SUFFICES ASSUME NEW h \in Groups, sync'[h].pc = "skipped"
                 PROVE  commits'[sync'[h].tip].inStep \/ Replayed(sync[h].tip)'
      BY <1>5 DEF SkipIsSafe, Replayed
    <3>1. h # g /\ sync'[h] = sync[h] BY <1>5
    <3>2. /\ sync[h].tip \in 1..RemoteHead
          /\ commits[sync[h].tip].inStep \/ Replayed(sync[h].tip)
      BY <3>1 DEF SkipIsSafe, RunsSound, RunSound
    <3> QED BY <3>1, <3>2, <2>5 DEF Replayed
  <2> QED BY <1>9, <2>5, <2>7, <2>8, <2>9
<1>11. CASE ~Lease(sync[g])
  <2>1. UNCHANGED <<commits, events>> BY <1>11 DEF CommitAndPush
  <2>2. RemoteHead' = RemoteHead BY <2>1 DEF RemoteHead
  <2>3. RunsSound' BY <1>2, <1>8, <2>2 DEF RunsSound
  <2>4. TypeOK' BY <1>1, <1>5, <2>1, <2>2 DEF TypeOK
  <2>5. CommitsSound' BY <1>1, <2>1 DEF CommitsSound
  <2>6. EventsSound' BY <1>7, <2>1, <2>2 DEF EventsSound
  <2>7. SkipIsSafe'
    <3> SUFFICES ASSUME NEW h \in Groups, sync'[h].pc = "skipped"
                 PROVE  commits[sync'[h].tip].inStep \/ Replayed(sync'[h].tip)
      BY <2>1 DEF SkipIsSafe, Replayed
    <3>1. sync'[h] = sync[h] BY <1>5
    <3> QED BY <3>1 DEF SkipIsSafe
  <2> QED BY <1>9, <2>3, <2>4, <2>5, <2>6, <2>7
<1> QED BY <1>10, <1>11

LEMMA StutterKeeps == ASSUME IInv, UNCHANGED vars PROVE IInv'
BY DEF vars, IInv, TypeOK, CommitsSound, RunsSound, RunSound, EventsSound, SkipIsSafe,
       Replayed, MergedInStep, RemoteHead, HeadCommit

LEMMA StepKeeps == IInv /\ [Next]_vars => IInv'
<1> SUFFICES ASSUME IInv, [Next]_vars PROVE IInv' OBVIOUS
<1>1. CASE Rebase \/ UpdateBranch \/ Rearm BY <1>1, EnvironmentKeeps
<1>2. CASE MainMoves BY <1>2, MainKeeps
<1>3. CASE SwitchOff \/ SwitchOn \/ Arm \/ Merge BY <1>3, QuietKeeps
<1>4. CASE Trigger BY <1>4, TriggerKeeps
<1>5. CASE RunCI BY <1>5, CIKeeps
<1>6. ASSUME NEW g \in Groups, Checkout(g) \/ NothingToCommit(g) PROVE IInv'
  BY <1>6, CheckoutKeeps
<1>7. ASSUME NEW g \in Groups, CommitAndPush(g) PROVE IInv' BY <1>7, PushKeepsAll
<1>8. CASE UNCHANGED vars BY <1>8, StutterKeeps
<1> QED BY <1>1, <1>2, <1>3, <1>4, <1>5, <1>6, <1>7, <1>8 DEF Next

-----------------------------------------------------------------------------
(* Nobody waits in vain: what is settled once the last event is handled.    *)

(* A run that was started arms; one was skipped only if the switch was off. *)
ArmingSettled ==
  /\ events = <<>> => auto \in {"queued", "skipped"} \/ armed
  /\ auto = "skipped" \/ ~mergeOn => switched > 0

(* CI runs for the head or has run for it, and if the head has main's       *)
(* history, its verdict is out.                                             *)
ChecksSettled ==
  events = <<>> =>
    /\ ci \in {None, RemoteHead}
    /\ ci = None /\ HeadCommit.base = main /\ HeadCommit.inStep => HeadCommit.green

(* A run for the head that is over has found the head in step, or gave up   *)
(* because the branch is behind main, or took a replayed lockfile commit    *)
(* for its own; had it pushed, the head were another.                       *)
RunsSettled ==
  \A g \in Groups :
    sync[g].head = RemoteHead /\ sync[g].pc \in {"skipped", "success", "failure"} =>
      HeadCommit.inStep \/ HeadCommit.base < main \/ Replayed(RemoteHead)

Settled == ArmingSettled /\ ChecksSettled /\ RunsSettled

LEMMA HeadIsThere ==
  ASSUME IInv
  PROVE  /\ RemoteHead \in Nat \ {0} /\ RemoteHead \in DOMAIN commits
         /\ HeadCommit \in Commit /\ HeadCommit = commits[RemoteHead]
         /\ HeadCommit.base \in Nat /\ HeadCommit.base <= main /\ main \in Nat
<1>1. RemoteHead \in Nat \ {0} /\ RemoteHead \in DOMAIN commits
  BY DEF IInv, TypeOK, RemoteHead
<1>2. HeadCommit \in Commit /\ HeadCommit = commits[RemoteHead]
  BY <1>1 DEF IInv, TypeOK, HeadCommit
<1>3. HeadCommit.base <= main BY <1>1, <1>2 DEF IInv, CommitsSound
<1> QED BY <1>1, <1>2, <1>3, BoundsAssumption DEF Commit, IInv, TypeOK

LEMMA SettledInitially == Init => Settled
<1> SUFFICES ASSUME Init PROVE Settled OBVIOUS
<1>1. events # <<>> BY DEF Init
<1>2. \A g \in Groups : sync[g].pc = "idle" BY DEF Init, IdleRun
<1>3. auto # "skipped" /\ mergeOn BY DEF Init
<1> QED BY <1>1, <1>2, <1>3 DEF Settled, ArmingSettled, ChecksSettled, RunsSettled

(* After a push everything is open again: an event is under way, and no run *)
(* knows the new head.                                                      *)
LEMMA PushSettles ==
  ASSUME IInv, Settled, NEW c, Push(c), UNCHANGED <<auto, mergeOn, switched>>,
         \A g \in Groups : /\ sync'[g].head = sync[g].head
                           /\ sync[g].pc = "idle" => sync'[g].pc = "idle"
  PROVE  Settled'
<1>1. commits' = Append(commits, c) /\ events' # <<>>
  BY DEF Push, WakesActions, IInv, TypeOK
<1>2. RemoteHead' = RemoteHead + 1 BY <1>1 DEF IInv, TypeOK, RemoteHead
<1>3. ASSUME NEW g \in Groups, sync'[g].pc # "idle" PROVE sync'[g].head # RemoteHead'
  <2>1. sync[g].head \in 1..RemoteHead BY <1>3 DEF IInv, RunsSound, RunSound
  <2> QED BY <2>1, <1>2, HeadIsThere
<1> QED BY <1>1, <1>3 DEF Settled, ArmingSettled, ChecksSettled, RunsSettled

LEMMA EnvironmentSettles ==
  ASSUME IInv, Settled,
         Rebase \/ UpdateBranch \/ Rearm \/ MainMoves \/ SwitchOff \/ SwitchOn \/ Arm \/ Merge
  PROVE  Settled'
<1>1. CASE Rebase \/ UpdateBranch \/ Rearm
  <2>1. UNCHANGED <<sync, auto, mergeOn, switched>> BY <1>1 DEF Rebase, UpdateBranch, Rearm
  <2>2. PICK c : Push(c) BY <1>1 DEF Rebase, UpdateBranch, Rearm
  <2> QED BY <2>1, <2>2, PushSettles
<1>2. CASE MainMoves
  <2>1. /\ UNCHANGED <<commits, events, sync, ci, auto, armed, mergeOn, switched>>
        /\ main' = main + 1
        /\ RemoteHead' = RemoteHead /\ HeadCommit' = HeadCommit
    BY <1>2 DEF MainMoves, RemoteHead, HeadCommit
  <2>2. HeadCommit'.base < main' BY <2>1, HeadIsThere
  <2> QED BY <2>1, <2>2, HeadIsThere DEF Settled, ArmingSettled, ChecksSettled, RunsSettled
<1>3. CASE SwitchOff \/ SwitchOn \/ Arm \/ Merge
  <2>1. /\ UNCHANGED <<main, commits, events, sync, ci>>
        /\ RemoteHead' = RemoteHead /\ HeadCommit' = HeadCommit
    BY <1>3 DEF SwitchOff, SwitchOn, Arm, Merge, RemoteHead, HeadCommit
  <2>2. ArmingSettled'
    <3>1. switched \in Nat BY BoundsAssumption DEF IInv, TypeOK
    <3> QED BY <1>3, <3>1 DEF SwitchOff, SwitchOn, Arm, Merge, Settled, ArmingSettled
  <2> QED BY <2>1, <2>2 DEF Settled, ChecksSettled, RunsSettled, Replayed
<1> QED BY <1>1, <1>2, <1>3

LEMMA TriggerSettles ==
  ASSUME IInv, Settled, Trigger
  PROVE  Settled'
<1> DEFINE event == Head(events)
<1>1. /\ UNCHANGED <<main, commits, armed, mergeOn, switched>>
      /\ events # <<>> /\ events' = Tail(events)
      /\ sync' = [sync EXCEPT ![event.action] =
                    [pc |-> "queued", head |-> event.head, tip |-> None]]
      /\ ci' = event.head
      /\ auto' = IF mergeOn THEN "queued" ELSE "skipped"
  BY DEF Trigger, AutomergeRun, AutomergeIf
<1>2. RemoteHead' = RemoteHead /\ HeadCommit' = HeadCommit
  BY <1>1 DEF RemoteHead, HeadCommit
<1>3. events' = <<>> => event.head = RemoteHead
  <2>1. /\ event = events[1] /\ Len(events) \in Nat
        /\ Len(events') = Len(events) - 1
    BY <1>1 DEF IInv, TypeOK
  <2>2. events' = <<>> => Len(events) = 1 BY <2>1
  <2>3. events[Len(events)].head = RemoteHead BY <1>1 DEF IInv, EventsSound
  <2> QED BY <2>1, <2>2, <2>3
<1>4. ChecksSettled' BY <1>1, <1>2, <1>3, HeadIsThere DEF ChecksSettled, None
<1>5. RunsSettled'
  <2> SUFFICES ASSUME NEW g \in Groups, sync'[g].pc \in {"skipped", "success", "failure"}
               PROVE  sync'[g] = sync[g]
    BY <1>1, <1>2 DEF Settled, RunsSettled, Replayed
  <2> QED BY <1>1 DEF IInv, TypeOK
<1>6. ArmingSettled' BY <1>1 DEF Settled, ArmingSettled
<1> QED BY <1>4, <1>5, <1>6 DEF Settled

LEMMA CISettles ==
  ASSUME IInv, Settled, RunCI
  PROVE  Settled'
<1>1. UNCHANGED <<main, events, sync, auto, armed, mergeOn, switched>>
      /\ ci' = None /\ ci # None
  BY DEF RunCI
<1>2. ci \in DOMAIN commits /\ commits[ci] \in Commit
  BY <1>1 DEF IInv, TypeOK, None, RemoteHead
<1>3. PICK ok : /\ commits' = [commits EXCEPT ![ci].green = ok]
                /\ commits[ci].base = main => ok = commits[ci].inStep
  BY DEF RunCI, LockfileCheck
<1>4. RemoteHead' = RemoteHead BY <1>3 DEF RemoteHead, IInv, TypeOK
<1>5. /\ HeadCommit'.base = HeadCommit.base /\ HeadCommit'.inStep = HeadCommit.inStep
      /\ ci = RemoteHead => HeadCommit'.green = ok
      /\ HeadCommit'.by = HeadCommit.by /\ HeadCommit'.author = HeadCommit.author
      /\ HeadCommit'.onto = HeadCommit.onto
  BY <1>2, <1>3, <1>4, HeadIsThere DEF HeadCommit, Commit
<1>6. ArmingSettled' BY <1>1 DEF Settled, ArmingSettled
<1>7. ChecksSettled'
  <2>1. events = <<>> => ci = RemoteHead BY <1>1 DEF Settled, ChecksSettled
  <2> QED BY <1>1, <1>3, <1>5, <2>1, HeadIsThere DEF ChecksSettled
<1>8. RunsSettled'
  <2>1. Replayed(RemoteHead)' = Replayed(RemoteHead)
    BY <1>4, <1>5 DEF Replayed, HeadCommit
  <2> QED BY <1>1, <1>4, <1>5, <2>1 DEF Settled, RunsSettled
<1> QED BY <1>6, <1>7, <1>8 DEF Settled

(* The steps of a run that leave the branch alone.                          *)
LEMMA QuietRunSettles ==
  ASSUME IInv, Settled, NEW g \in Groups,
         UNCHANGED <<main, commits, events, ci, auto, armed, mergeOn, switched>>,
         NEW run, sync' = [sync EXCEPT ![g] = run],
         run.head = RemoteHead /\ run.pc \in {"skipped", "success", "failure"} =>
           HeadCommit.inStep \/ HeadCommit.base < main \/ Replayed(RemoteHead)
  PROVE  Settled'
<1>1. RemoteHead' = RemoteHead /\ HeadCommit' = HeadCommit
  BY DEF RemoteHead, HeadCommit
<1>2. RunsSettled'
  <2> SUFFICES ASSUME NEW h \in Groups, sync'[h].head = RemoteHead,
                      sync'[h].pc \in {"skipped", "success", "failure"}
               PROVE  HeadCommit.inStep \/ HeadCommit.base < main \/ Replayed(RemoteHead)
    BY <1>1 DEF RunsSettled, Replayed
  <2>1. CASE h = g BY <2>1 DEF IInv, TypeOK
  <2>2. CASE h # g BY <2>2 DEF IInv, TypeOK, Settled, RunsSettled
  <2> QED BY <2>1, <2>2
<1> QED BY <1>1, <1>2 DEF Settled, ArmingSettled, ChecksSettled

LEMMA CheckoutSettles ==
  ASSUME IInv, Settled, NEW g \in Groups, Checkout(g)
  PROVE  Settled'
<1>1. PICK base \in commits[sync[g].head].base..main : sync' = [sync EXCEPT ![g] =
         [pc |-> IF LoopGuard(RemoteHead) THEN "skipped"
                 ELSE IF Fetched(base, sync[g].head, RemoteHead) THEN "locking"
                 ELSE "failure",
          head |-> sync[g].head, tip |-> RemoteHead]]
  BY DEF Checkout
<1>2. UNCHANGED <<main, commits, events, ci, auto, armed, mergeOn, switched>> BY DEF Checkout
<1>3. LoopGuard(RemoteHead) => HeadCommit.inStep \/ Replayed(RemoteHead)
  BY HeadIsThere DEF LoopGuard, Replayed, IInv, CommitsSound
<1>4. sync[g].head = RemoteHead /\ ~Fetched(base, sync[g].head, RemoteHead)
        => HeadCommit.base < main
  <2> SUFFICES ASSUME sync[g].head = RemoteHead, ~(base <= HeadCommit.base)
               PROVE  HeadCommit.base < main
    BY HeadIsThere DEF Fetched, InHistory
  <2>1. base <= main /\ base \in Int BY <1>1, HeadIsThere
  <2> QED BY <2>1, HeadIsThere
<1> QED BY <1>1, <1>2, <1>3, <1>4, QuietRunSettles

LEMMA LockingSettles ==
  ASSUME IInv, Settled, NEW g \in Groups, NothingToCommit(g) \/ CommitAndPush(g)
  PROVE  Settled'
<1> DEFINE run == [pc |-> "success", head |-> sync[g].head, tip |-> sync[g].tip]
<1>1. sync[g].pc = "locking" /\ sync' = [sync EXCEPT ![g].pc = "success"]
  BY DEF NothingToCommit, CommitAndPush
<1>2. sync[g] \in Run BY DEF IInv, TypeOK
<1>3. sync' = [sync EXCEPT ![g] = run]
  <2>1. [sync[g] EXCEPT !.pc = "success"] = run BY <1>2 DEF Run
  <2> QED BY <1>1, <2>1, <1>2
<1>4. sync[g].head = RemoteHead => sync[g].tip = RemoteHead
  BY <1>1, LeaseMeansHead DEF Lease
<1>5. CASE NothingToCommit(g)
  <2>1. UNCHANGED <<main, commits, events, ci, auto, armed, mergeOn, switched>>
        /\ commits[sync[g].tip].inStep
    BY <1>5 DEF NothingToCommit
  <2> QED BY <1>3, <1>4, <2>1, HeadIsThere, QuietRunSettles
<1>6. CASE CommitAndPush(g) /\ Lease(sync[g])
  <2>1. PICK c : Push(c) BY <1>6 DEF CommitAndPush
  <2>3. UNCHANGED <<auto, mergeOn, switched>> BY <1>6 DEF CommitAndPush
  <2>2. ASSUME NEW h \in Groups
        PROVE  sync'[h].head = sync[h].head /\ (sync[h].pc = "idle" => sync'[h].pc = "idle")
    <3>1. CASE h = g BY <1>1, <1>3, <3>1 DEF IInv, TypeOK
    <3>2. CASE h # g BY <1>3, <3>2 DEF IInv, TypeOK
    <3> QED BY <3>1, <3>2
  <2> QED BY <2>1, <2>2, <2>3, PushSettles
<1>7. CASE CommitAndPush(g) /\ ~Lease(sync[g])
  <2>1. UNCHANGED <<main, commits, events, ci, auto, armed, mergeOn, switched>>
    BY <1>7 DEF CommitAndPush
  <2>2. run.head # RemoteHead BY <1>7 DEF Lease
  <2> QED BY <1>3, <2>1, <2>2, QuietRunSettles
<1> QED BY <1>5, <1>6, <1>7

LEMMA StepSettles == IInv /\ Settled /\ [Next]_vars => Settled'
<1> SUFFICES ASSUME IInv, Settled, [Next]_vars PROVE Settled' OBVIOUS
<1>1. CASE Rebase \/ UpdateBranch \/ Rearm \/ MainMoves \/ SwitchOff \/ SwitchOn \/ Arm \/ Merge
  BY <1>1, EnvironmentSettles
<1>2. CASE Trigger BY <1>2, TriggerSettles
<1>3. CASE RunCI BY <1>3, CISettles
<1>4. ASSUME NEW g \in Groups, Checkout(g) PROVE Settled' BY <1>4, CheckoutSettles
<1>5. ASSUME NEW g \in Groups, NothingToCommit(g) \/ CommitAndPush(g) PROVE Settled'
  BY <1>5, LockingSettles
<1>6. CASE UNCHANGED vars
  BY <1>6 DEF vars, Settled, ArmingSettled, ChecksSettled, RunsSettled, Replayed,
             RemoteHead, HeadCommit
<1> QED BY <1>1, <1>2, <1>3, <1>4, <1>5, <1>6 DEF Next

(* With no event under way the head's run is over or has a step to take; if *)
(* it is over and the branch is not behind main, the head is in step or a   *)
(* stale replay; in step it is green, and with auto-merge on it is armed,   *)
(* so that GitHub may merge, or waits to be re-armed.                       *)
LEMMA SettledMeansMoving ==
  ASSUME IInv, Settled
  PROVE  NeverStranded
<1> SUFFICES ASSUME events = <<>>, ci = None, auto # "queued", mergeOn,
                    ~(HeadCommit.base < main), ~Unarmed, ~StaleReplay,
                    \A g \in Groups :
                      sync[g].pc # "queued" /\ (sync[g].pc = "locking" => commits[sync[g].tip].inStep)
             PROVE  armed /\ Mergeable
  BY DEF NeverStranded
<1>1. armed BY DEF Settled, ArmingSettled, Unarmed
<1>2. HeadCommit.base = main BY HeadIsThere
<1>3. HeadCommit.inStep
  <2>1. PICK g \in Groups : sync[g].head = RemoteHead BY DEF IInv, EventsSound
  <2>2. CASE sync[g].pc = "locking"
    <3>1. sync[g].tip = RemoteHead BY <2>1, <2>2, LeaseMeansHead DEF Lease
    <3> QED BY <2>2, <3>1, HeadIsThere
  <2>3. CASE sync[g].pc \in {"skipped", "success", "failure"}
    BY <2>1, <2>3 DEF Settled, RunsSettled, StaleReplay
  <2>4. sync[g].pc # "idle"
    BY <2>1, HeadIsThere DEF IInv, RunsSound, RunSound, None
  <2> QED BY <2>2, <2>3, <2>4 DEF IInv, TypeOK, Run
<1>4. HeadCommit.green BY <1>2, <1>3 DEF Settled, ChecksSettled
<1> QED BY <1>1, <1>2, <1>4 DEF Mergeable

-----------------------------------------------------------------------------
(* Theorems.                                                                *)

(* The inductive invariant of the branch, its events and the runs: commits  *)
(* carry the verdict of their own lockfiles, a run never locks a commit     *)
(* older than its event's, and the head's event is last.                    *)
THEOREM SyncInvariant == Spec => []IInv
BY Initially, StepKeeps, PTL DEF Spec

(* The variables of LockfileSync keep their types.                          *)
THEOREM SyncTypes == Spec => []TypeOK
<1>1. IInv => TypeOK BY DEF IInv
<1> QED BY <1>1, SyncInvariant, PTL

(* However often main moves and the branch is rewritten, what is merged has *)
(* lockfiles in step and main's history.                                    *)
THEOREM MergesAreInStep == Spec => []MergedInStep
<1>1. IInv => MergedInStep BY DEF IInv
<1> QED BY <1>1, SyncInvariant, PTL

(* However often the branch is rewritten or replayed on a new main, a run   *)
(* the loop guard skips has seen lockfiles in step, or a lockfile commit    *)
(* that an update by rebase carried over: the guard has no other blind      *)
(* spot.                                                                    *)
THEOREM SkipsAreSafe == Spec => []SkipIsSafe
<1>1. IInv => SkipIsSafe BY DEF IInv
<1> QED BY <1>1, SyncInvariant, PTL

(* There always is, or was, a run for the head of the branch: a run the     *)
(* lease refuses, a cancelled and a failed one leave it to that.            *)
THEOREM HeadStaysAttended == Spec => []HeadIsAttended
<1>1. IInv => HeadIsAttended
  <2> SUFFICES ASSUME IInv PROVE HeadIsAttended OBVIOUS
  <2>1. CASE events = <<>> BY <2>1 DEF IInv, EventsSound, HeadIsAttended
  <2>2. CASE events # <<>>
    <3>1. Len(events) \in DOMAIN events BY <2>2 DEF IInv, TypeOK
    <3> QED BY <2>2, <3>1 DEF IInv, EventsSound, HeadIsAttended
  <2> QED BY <2>1, <2>2
<1> QED BY <1>1, SyncInvariant, PTL

(* However often main moves, the branch is rewritten, merged or replayed    *)
(* and the switch flipped: a pull request for which nothing is due is       *)
(* stranded on a replayed lockfile commit or on a switch set without        *)
(* re-arming, and on nothing else.                                          *)
THEOREM NobodyWaitsInVain == Spec => []NeverStranded
<1>1. IInv /\ Settled => NeverStranded BY SettledMeansMoving
<1> QED BY <1>1, SettledInitially, StepSettles, SyncInvariant, PTL DEF Spec

(* The lease makes every lockfile commit land on the very commit it was     *)
(* locked for, whatever was pushed meanwhile.                               *)
THEOREM LeasePreventsClobber == Spec => NoClobber
<1> DEFINE Lands == \A i \in DOMAIN commits' \ DOMAIN commits :
                      commits'[i].by = "workflow" => commits'[i].onto = RemoteHead
<1>1. ASSUME IInv, [Next]_vars PROVE [Lands]_vars
  <2> SUFFICES ASSUME NEW i \in DOMAIN commits' \ DOMAIN commits,
                      commits'[i].by = "workflow"
               PROVE  commits'[i].onto = RemoteHead
    OBVIOUS
  <2>1. commits \in Seq(Commit) /\ RemoteHead \in Nat /\ DOMAIN commits = 1..RemoteHead
    BY <1>1 DEF IInv, TypeOK, RemoteHead
  <2>2. ASSUME NEW c, Push(c) PROVE commits'[i] = c
    <3>1. commits' = Append(commits, c) BY <2>2 DEF Push
    <3>2. DOMAIN commits' = 1..(RemoteHead + 1) /\ commits'[RemoteHead + 1] = c
      BY <3>1, <2>1 DEF RemoteHead
    <3> QED BY <3>2, <2>1
  <2>3. CASE Rebase \/ UpdateBranch \/ Rearm
    <3>1. PICK c : c.by # "workflow" /\ Push(c)
      BY <2>3 DEF Rebase, UpdateBranch, Rearm, NewCommit
    <3>2. commits'[i] = c BY <2>2, <3>1
    <3> QED BY <3>1, <3>2
  <2>4. ASSUME NEW g \in Groups, CommitAndPush(g) PROVE commits'[i].onto = RemoteHead
    <3>1. Lease(sync[g]) /\ sync[g].pc = "locking" BY <2>4 DEF CommitAndPush
    <3>2. commits'[i] = NewCommit("workflow", commits[sync[g].tip].base, TRUE, sync[g].tip)
      <4>1. Push(NewCommit("workflow", commits[sync[g].tip].base, TRUE, sync[g].tip))
        BY <2>4, <3>1 DEF CommitAndPush
      <4> QED BY <4>1, <2>2
    <3> QED BY <1>1, <3>1, <3>2, LeaseMeansHead DEF NewCommit
  <2>5. CASE RunCI
    <3>1. DOMAIN commits' = DOMAIN commits BY <2>5 DEF RunCI
    <3> QED BY <3>1
  <2>6. CASE UNCHANGED commits BY <2>6
  <2> QED
    BY <1>1, <2>3, <2>4, <2>5, <2>6
    DEF Next, vars, MainMoves, SwitchOff, SwitchOn, Arm, Merge, Trigger, Checkout,
        NothingToCommit
<1> QED BY <1>1, SyncInvariant, PTL DEF Spec, NoClobber

-----------------------------------------------------------------------------
(* No push loop: what each lockfile commit was an answer to.                *)

(* A lockfile commit sits on the commit pushed just before it, which was    *)
(* somebody else's and left the lockfile behind.                            *)
Answers ==
  \A i \in DOMAIN commits :
    commits[i].by = "workflow" =>
      /\ i > 1
      /\ commits[i].onto = i - 1
      /\ ~commits[i - 1].inStep
      /\ commits[i - 1].by # "workflow"

(* A commit in step never triggers another: what the workflow pushed before *)
(* is in step, so CommitAndPush is not reached for it.                      *)
LEMMA AnswerByPush ==
  ASSUME IInv, Answers, NEW g \in Groups, CommitAndPush(g)
  PROVE  Answers'
<1>1. CASE Lease(sync[g])
  <2> DEFINE tip == sync[g].tip
             c == NewCommit("workflow", commits[tip].base, TRUE, tip)
  <2>1. tip = RemoteHead /\ ~commits[tip].inStep
    BY <1>1, LeaseMeansHead DEF CommitAndPush
  <2>2. /\ commits \in Seq(Commit) /\ RemoteHead = Len(commits)
        /\ RemoteHead \in Nat \ {0} /\ RemoteHead \in DOMAIN commits
    BY HeadIsThere DEF IInv, TypeOK, RemoteHead
  <2>3. commits[tip].by # "workflow" BY <2>1, <2>2 DEF IInv, CommitsSound
  <2>4. c.onto = tip BY DEF NewCommit
  <2>5. commits' = Append(commits, c) BY <1>1 DEF CommitAndPush, Push
  <2> HIDE DEF tip, c
  <2>6. /\ DOMAIN commits' = 1..(RemoteHead + 1)
        /\ \A i \in 1..RemoteHead : commits'[i] = commits[i]
        /\ commits'[RemoteHead + 1] = c
    BY <2>2, <2>5
  <2> SUFFICES ASSUME NEW i \in DOMAIN commits', commits'[i].by = "workflow"
               PROVE  /\ i > 1 /\ commits'[i].onto = i - 1
                      /\ ~commits'[i - 1].inStep /\ commits'[i - 1].by # "workflow"
    BY DEF Answers
  <2>7. CASE i = RemoteHead + 1
    <3>1. i - 1 = tip /\ i - 1 \in 1..RemoteHead /\ i > 1 BY <2>1, <2>2, <2>7
    <3>2. commits'[i - 1] = commits[tip] BY <3>1, <2>6
    <3> QED BY <3>1, <3>2, <2>1, <2>3, <2>4, <2>6, <2>7
  <2>8. CASE i # RemoteHead + 1
    <3>1. i \in 1..RemoteHead BY <2>2, <2>6, <2>8
    <3>2. commits'[i] = commits[i] /\ i \in DOMAIN commits BY <3>1, <2>2, <2>6
    <3>3. i > 1 /\ i - 1 \in 1..RemoteHead BY <3>1, <3>2, <2>2 DEF Answers
    <3> QED BY <3>2, <3>3, <2>6 DEF Answers
  <2> QED BY <2>7, <2>8
<1>2. CASE ~Lease(sync[g])
  BY <1>2 DEF CommitAndPush, Answers
<1> QED BY <1>1, <1>2

(* Another's push adds no lockfile commit, and CI only sets verdicts.       *)
LEMMA AnswerByOthers ==
  ASSUME IInv, Answers, Rebase \/ UpdateBranch \/ Rearm \/ RunCI
  PROVE  Answers'
<1>1. /\ commits \in Seq(Commit) /\ RemoteHead = Len(commits)
      /\ RemoteHead \in Nat \ {0} /\ DOMAIN commits = 1..RemoteHead
  BY HeadIsThere DEF IInv, TypeOK, RemoteHead
<1>2. CASE Rebase \/ UpdateBranch \/ Rearm
  <2>1. PICK c : c.by # "workflow" /\ commits' = Append(commits, c)
    BY <1>2 DEF Rebase, UpdateBranch, Rearm, NewCommit, Push
  <2>2. /\ DOMAIN commits' = 1..(RemoteHead + 1)
        /\ \A i \in 1..RemoteHead : commits'[i] = commits[i]
        /\ commits'[RemoteHead + 1] = c
    BY <1>1, <2>1
  <2> SUFFICES ASSUME NEW i \in DOMAIN commits', commits'[i].by = "workflow"
               PROVE  /\ i > 1 /\ commits'[i].onto = i - 1
                      /\ ~commits'[i - 1].inStep /\ commits'[i - 1].by # "workflow"
    BY DEF Answers
  <2>3. i \in 1..RemoteHead /\ commits'[i] = commits[i] BY <1>1, <2>1, <2>2
  <2>4. i > 1 /\ i - 1 \in 1..RemoteHead BY <1>1, <2>3 DEF Answers
  <2> QED BY <1>1, <2>2, <2>3, <2>4 DEF Answers
<1>3. CASE RunCI
  <2>1. ci \in 1..RemoteHead BY <1>1, <1>3 DEF RunCI, IInv, TypeOK, None
  <2>2. PICK ok : commits' = [commits EXCEPT ![ci].green = ok] BY <1>3 DEF RunCI
  <2>3. /\ DOMAIN commits' = DOMAIN commits
        /\ \A i \in DOMAIN commits : /\ commits'[i].by = commits[i].by
                                     /\ commits'[i].onto = commits[i].onto
                                     /\ commits'[i].inStep = commits[i].inStep
    <3>1. DOMAIN commits' = DOMAIN commits
          /\ \A i \in DOMAIN commits :
               commits'[i] = IF i = ci THEN [commits[i] EXCEPT !.green = ok] ELSE commits[i]
      BY <2>2, <1>1
    <3>2. ASSUME NEW c \in Commit
          PROVE  /\ [c EXCEPT !.green = ok].by = c.by
                 /\ [c EXCEPT !.green = ok].onto = c.onto
                 /\ [c EXCEPT !.green = ok].inStep = c.inStep
      BY DEF Commit
    <3>3. \A i \in DOMAIN commits : commits[i] \in Commit BY <1>1
    <3> QED BY <3>1, <3>2, <3>3
  <2>4. ASSUME NEW i \in DOMAIN commits, i > 1 PROVE i - 1 \in DOMAIN commits
    BY <1>1, <2>4
  <2> QED BY <2>3, <2>4 DEF Answers
<1> QED BY <1>2, <1>3

(* Every lockfile commit answers one commit of somebody else's, made        *)
(* without a matching lockfile, and lands right on it: the workflow, whose  *)
(* pushes wake it again, never answers its own, however often it is woken.  *)
THEOREM WorkflowNeverAnswersItself == Spec => []Answers
<1>1. Init => Answers BY DEF Init, Answers, NewCommit
<1>2. IInv /\ Answers /\ [Next]_vars => Answers'
  <2> SUFFICES ASSUME IInv, Answers, [Next]_vars PROVE Answers' OBVIOUS
  <2>1. CASE Rebase \/ UpdateBranch \/ Rearm \/ RunCI BY <2>1, AnswerByOthers
  <2>2. ASSUME NEW g \in Groups, CommitAndPush(g) PROVE Answers' BY <2>2, AnswerByPush
  <2>3. CASE UNCHANGED commits BY <2>3 DEF Answers
  <2> QED BY <2>1, <2>2, <2>3
       DEF Next, MainMoves, SwitchOff, SwitchOn, Trigger, Checkout, NothingToCommit, Arm, Merge, vars
<1> QED BY <1>1, <1>2, SyncInvariant, PTL DEF Spec
=============================================================================
