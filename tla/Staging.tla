------------------------------- MODULE Staging -------------------------------
(***************************************************************************)
(* How a checkout's history crosses into a run and comes back: gitstage's  *)
(* Prepare on the Mac, Materialize in the VM, and PrepareApply, which      *)
(* captures what the run did.  The repositories are the superproject, 0,   *)
(* and its initialized submodules, 1 to Subs in staged order.  The user    *)
(* edits and commits while a stage is prepared, the agent works in the     *)
(* run, and a capture can fail or be killed anywhere and be asked again.   *)
(*                                                                         *)
(* A tree is a set of changes to what the repository held first.  A commit *)
(* is known by who made it, its tree and, in the superproject, the commit  *)
(* it records for each submodule; a history is a sequence of them, and a   *)
(* submodule's commit is its history.                                      *)
(***************************************************************************)
EXTENDS Integers, SequencesExt

CONSTANTS
    Subs,           \* how many submodules
    UserChanges,    \* changes the user makes
    AgentChanges,   \* changes the agent makes
    MaxEdits,       \* bound: what the user does while a stage is prepared
    MaxTurns,       \* bound: what the agent does
    MaxMishaps      \* bound: failures and kills of captures

ASSUME SubmodulesAssumption == Subs \in Nat
ASSUME ChangesAssumption == UserChanges \cap AgentChanges = {}
ASSUME StagingBoundsAssumption == MaxEdits \in Nat /\ MaxTurns \in Nat /\ MaxMishaps \in Nat

VARIABLES
    head,       \* on the Mac: the tree of each repository's HEAD ...
    links,      \* ... the commits the superproject's HEAD records ...
    work,       \* ... and the tracked working tree
    pc,         \* what is under way
    at,         \* the repository it has reached
    stage,      \* the stage package
    line,       \* in the run: the superproject's branches ...
    on,         \* ... the one that is checked out ...
    sub,        \* ... what each submodule has checked out ...
    tree,       \* ... the tracked working trees ...
    carried,    \* ... and the repositories with a baseline commit
    scratch,    \* what a capture leaves about in the run
    choice,     \* what the apply does with the baseline
    prepared,   \* what the last capture handed to the Mac
    seen,       \* history: the working trees since the preparation began
    bounced,    \* history: repositories whose HEAD left its commit and came back
    spent       \* the edits, turns and mishaps so far

host == <<head, links, work>>
workspace == <<line, on, sub, tree, carried>>
vars == <<host, pc, at, stage, workspace, scratch, choice, prepared, seen, bounced, spent>>

Super == 0
Submodules == 1 .. Subs
Repos == 0 .. Subs
Tree == SUBSET (UserChanges \cup AgentChanges)
Makers == {"source", "baseline", "agent", "final"}
BaselineChoices == {"keep", "drop"}

SubCommit(by, t) == [by |-> by, tree |-> t]
SuperCommit(by, t, l) == [by |-> by, tree |-> t, links |-> l]

NoPackage == [head |-> <<>>, bundle |-> <<>>, patch |-> <<>>]
CleanScratch == [bundles |-> {}, checkout |-> FALSE, registered |-> FALSE, replay |-> <<>>]
NotPrepared == [tip |-> <<>>, subs |-> <<>>, final |-> FALSE]

\* A submodule's HEAD need not be the commit the superproject records for it.
Init ==
    /\ head \in [Repos -> SUBSET UserChanges] /\ head[Super] = {}
    /\ links = [s \in Submodules |-> <<SubCommit("source", {})>>]
    /\ work \in [Repos -> SUBSET UserChanges]
    /\ pc = "idle" /\ at = Super
    /\ stage = NoPackage
    /\ line = [b \in {"work", "topic"} |-> <<>>] /\ on = "work"
    /\ sub = [s \in Submodules |-> <<>>]
    /\ tree = [r \in Repos |-> {}]
    /\ carried = {}
    /\ scratch = CleanScratch
    /\ choice = "keep"
    /\ prepared = NotPrepared
    /\ seen = [r \in Repos |-> {}]
    /\ bounced = {}
    /\ spent = [edits |-> 0, turns |-> 0, mishaps |-> 0]

-----------------------------------------------------------------------------
(***************************************************************************)
(* The commits HEADs stand for on the Mac.                                 *)
(***************************************************************************)
HeadCommit(r) ==
    IF r = Super THEN SuperCommit("source", head[Super], links)
    ELSE SubCommit("source", head[r])

Preparing == pc \in {"heads", "bundle", "patch", "recheck"}

\* After a repository comes the next one, and after the last the next task.
Then(task) ==
    /\ pc' = IF at = Subs THEN task ELSE pc
    /\ at' = IF at = Subs THEN Super ELSE at + 1

(***************************************************************************)
(* Prepare.                                                                *)
(***************************************************************************)
BeginPrepare ==
    /\ pc = "idle"
    /\ pc' = "heads" /\ at' = Super
    /\ seen' = [r \in Repos |-> {work[r]}]
    /\ bounced' = {}
    /\ UNCHANGED <<host, stage, workspace, scratch, choice, prepared, spent>>

\* The superproject's HEAD, then the HEAD of each initialized submodule.
ReadHead ==
    /\ pc = "heads"
    /\ stage' = [stage EXCEPT !.head = Append(@, HeadCommit(at))]
    /\ Then("bundle")
    /\ UNCHANGED <<host, workspace, scratch, choice, prepared, seen, bounced, spent>>

\* captureRepository bundles the HEAD of this moment ...
BundleHead ==
    /\ pc = "bundle"
    /\ stage' = [stage EXCEPT !.bundle = Append(@, HeadCommit(at))]
    /\ pc' = "patch"
    /\ UNCHANGED <<host, at, workspace, scratch, choice, prepared, seen, bounced, spent>>

\* ... and then takes the difference of the working tree from the HEAD of that one.
DiffFromHead ==
    /\ pc = "patch"
    /\ stage' = [stage EXCEPT !.patch =
                    Append(@, [adds |-> work[at] \ head[at], drops |-> head[at] \ work[at]])]
    /\ pc' = IF at = Subs THEN "recheck" ELSE "bundle"
    /\ at' = IF at = Subs THEN Super ELSE at + 1
    /\ UNCHANGED <<host, workspace, scratch, choice, prepared, seen, bounced, spent>>

\* Mutant of RecheckHead: what is compared is the superproject's HEAD alone.
RecheckSuperproject ==
    /\ pc = "recheck"
    /\ at = Super => HeadCommit(at) = stage.head[at + 1]
    /\ Then("ready")
    /\ UNCHANGED <<host, stage, workspace, scratch, choice, prepared, seen, bounced, spent>>

\* recheckHeads compares the HEADs, and nothing else, with those read first.
RecheckHead ==
    /\ pc = "recheck"
    /\ HeadCommit(at) = stage.head[at + 1]
    /\ Then("ready")
    /\ UNCHANGED <<host, stage, workspace, scratch, choice, prepared, seen, bounced, spent>>

PackageRemoved ==
    /\ pc' = "idle" /\ at' = Super
    /\ stage' = NoPackage
    /\ UNCHANGED <<host, workspace, scratch, choice, prepared, seen, bounced, spent>>

HeadHasMoved ==
    /\ pc = "recheck"
    /\ HeadCommit(at) # stage.head[at + 1]
    /\ PackageRemoved

-----------------------------------------------------------------------------
(***************************************************************************)
(* Materialize: all of it or nothing, in a VM nobody else looks into yet.  *)
(***************************************************************************)
Patch(r) == stage.patch[r + 1]
PatchIsEmpty(r) == Patch(r).adds = {} /\ Patch(r).drops = {}
Patched(r, t) == (t \ Patch(r).drops) \cup Patch(r).adds

\* git apply wants what it takes out to be there, and what it adds not to be.
Applies(r, t) == Patch(r).drops \subseteq t /\ Patch(r).adds \cap t = {}

\* A clone is held to the commit the snapshot names, and the patch must apply.
Restorable(r) ==
    /\ stage.bundle[r + 1] = stage.head[r + 1]
    /\ Applies(r, stage.bundle[r + 1].tree)

RestoredSub(s) ==
    LET first == stage.bundle[s + 1] IN
    IF PatchIsEmpty(s) THEN <<first>>
    ELSE <<first, SubCommit("baseline", Patched(s, first.tree))>>

\* Every submodule is staged where it ended, so a baseline of the superproject
\* is needed for its own changes and for a submodule that moved.
RestoredSuper ==
    LET first == stage.bundle[1]
        base == SuperCommit("baseline", Patched(Super, first.tree),
                            [s \in Submodules |-> RestoredSub(s)])
    IN IF base.tree = first.tree /\ base.links = first.links THEN <<first>>
       ELSE <<first, base>>

Materialize ==
    /\ pc = "ready"
    /\ \A r \in Repos : Restorable(r)
    /\ line' = [line EXCEPT !["work"] = RestoredSuper]
    /\ sub' = [s \in Submodules |-> RestoredSub(s)]
    /\ tree' = [r \in Repos |-> Patched(r, stage.bundle[r + 1].tree)]
    /\ carried' = {s \in Submodules : Len(RestoredSub(s)) = 2}
                    \cup (IF Len(RestoredSuper) = 2 THEN {Super} ELSE {})
    /\ pc' = "working"
    /\ stage' = [NoPackage EXCEPT !.head = stage.head]
    /\ seen' = [r \in Repos |-> {}] /\ bounced' = {}
    /\ spent' = [spent EXCEPT !.edits = 0]
    /\ UNCHANGED <<host, at, on, scratch, choice, prepared>>

\* What was cloned or patched is not what the snapshot says: no workspace is left.
MaterializeRefuses ==
    /\ pc = "ready"
    /\ \E r \in Repos : ~Restorable(r)
    /\ PackageRemoved

-----------------------------------------------------------------------------
(***************************************************************************)
(* The user, while a stage is prepared.                                    *)
(***************************************************************************)
Edits ==
    /\ Preparing
    /\ spent.edits < MaxEdits
    /\ spent' = [spent EXCEPT !.edits = @ + 1]

UserEdits(r) ==
    /\ Edits
    /\ \E t \in SUBSET UserChanges : t # work[r] /\ work' = [work EXCEPT ![r] = t]
    /\ seen' = [seen EXCEPT ![r] = @ \cup {work'[r]}]
    /\ UNCHANGED <<head, links, pc, at, stage, workspace, scratch, choice, prepared, bounced>>

\* A new commit is never the one read first, whatever its tree.
UserCommits(r) ==
    /\ Edits
    /\ head' = [head EXCEPT ![r] = work[r]]
    /\ IF r = Super
       THEN links' = [s \in Submodules |-> <<SubCommit("source", head[s])>>]
       ELSE UNCHANGED links
    /\ <<head, links>>' # <<head, links>>
    /\ r < Len(stage.head) => HeadCommit(r)' # stage.head[r + 1]
    /\ UNCHANGED <<work, pc, at, stage, workspace, scratch, choice, prepared, seen, bounced>>

\* git reset --soft, or a switch and back: the HEAD is the one read first again.
UserGoesBack(r) ==
    /\ Edits
    /\ r < Len(stage.head)
    /\ HeadCommit(r) # stage.head[r + 1]
    /\ head' = [head EXCEPT ![r] = stage.head[r + 1].tree]
    /\ links' = IF r = Super THEN stage.head[1].links ELSE links
    /\ bounced' = bounced \cup {r}
    /\ UNCHANGED <<work, pc, at, stage, workspace, scratch, choice, prepared, seen>>

-----------------------------------------------------------------------------
(***************************************************************************)
(* The agent.                                                              *)
(***************************************************************************)
Turns ==
    /\ pc = "working"
    /\ spent.turns < MaxTurns
    /\ spent' = [spent EXCEPT !.turns = @ + 1]

\* The tree and the submodule commits a commit of the superproject would record.
Checked(by) == SuperCommit(by, tree[Super], [s \in Submodules |-> sub[s]])

AgentEdits(r) ==
    /\ Turns
    /\ \E a \in AgentChanges :
         tree' = [tree EXCEPT ![r] = IF a \in @ THEN @ \ {a} ELSE @ \cup {a}]
    /\ UNCHANGED <<host, pc, at, stage, line, on, sub, carried, scratch, choice, prepared, seen, bounced>>

AgentCommits(r) ==
    /\ Turns
    /\ IF r = Super
       THEN line' = [line EXCEPT ![on] = Append(@, Checked("agent"))] /\ UNCHANGED sub
       ELSE sub' = [sub EXCEPT ![r] = Append(@, SubCommit("agent", tree[r]))] /\ UNCHANGED line
    /\ UNCHANGED <<host, pc, at, stage, on, tree, carried, scratch, choice, prepared, seen, bounced>>

\* The last commit is taken back, its changes kept: git reset --soft, or the
\* first half of an amended commit.  The empty history is an older commit.
AgentTakesBack(r) ==
    /\ Turns
    /\ IF r = Super
       THEN /\ line[on] # <<>>
            /\ line' = [line EXCEPT ![on] = Front(@)] /\ UNCHANGED sub
       ELSE /\ sub[r] # <<>>
            /\ sub' = [sub EXCEPT ![r] = Front(@)] /\ UNCHANGED line
    /\ UNCHANGED <<host, pc, at, stage, on, tree, carried, scratch, choice, prepared, seen, bounced>>

\* A branch of the agent's own, from where it stands.
AgentSwitches ==
    /\ Turns
    /\ on = "work"
    /\ on' = "topic"
    /\ line' = [line EXCEPT !["topic"] = line["work"]]
    /\ UNCHANGED <<host, pc, at, stage, sub, tree, carried, scratch, choice, prepared, seen, bounced>>

-----------------------------------------------------------------------------
(***************************************************************************)
(* PrepareApply, in a run that is stopped: the submodules first, then the  *)
(* superproject, which records where they ended.                           *)
(***************************************************************************)
Captures == {"finalize", "pack", "tip", "prune", "rebase", "publish", "done"}

\* Mutant of BeginCapture: what an earlier attempt left is not cleared.
BeginCaptureBesideLeftovers(c) ==
    /\ pc = "working"
    /\ choice' = c
    /\ prepared' = NotPrepared
    /\ pc' = "finalize" /\ at' = IF Subs = 0 THEN Super ELSE 1
    /\ UNCHANGED <<host, stage, workspace, scratch, seen, bounced, spent>>

\* A previous attempt's package is superseded, the checkout in it included.
BeginCapture(c) ==
    /\ pc = "working"
    /\ choice' = c
    /\ scratch' = [scratch EXCEPT !.bundles = {}, !.checkout = FALSE]
    /\ prepared' = NotPrepared
    /\ pc' = "finalize" /\ at' = IF Subs = 0 THEN Super ELSE 1
    /\ UNCHANGED <<host, stage, workspace, seen, bounced, spent>>

\* FinalizeTracked commits what the agent left uncommitted, on whatever is
\* checked out.
FinalizeTracked ==
    /\ pc = "finalize"
    /\ IF at = Super
       THEN LET final == Checked("final")
                last == line[on]
                clean == last # <<>> /\ Last(last).tree = final.tree /\ Last(last).links = final.links
            IN /\ line' = [line EXCEPT ![on] = IF clean THEN @ ELSE Append(@, final)]
               /\ prepared' = [prepared EXCEPT !.final = ~clean]
               /\ pc' = "tip"
               /\ UNCHANGED sub
       ELSE LET clean == sub[at] # <<>> /\ Last(sub[at]).tree = tree[at]
            IN /\ sub' = [sub EXCEPT ![at] =
                            IF clean THEN @ ELSE Append(@, SubCommit("final", tree[at]))]
               /\ pc' = "pack"
               /\ UNCHANGED <<line, prepared>>
    /\ UNCHANGED <<host, at, stage, on, tree, carried, scratch, choice, seen, bounced, spent>>

\* An error ends the attempt: what was committed stays, and so do the bundles.
Refused ==
    /\ pc' = "working" /\ at' = Super
    /\ prepared' = NotPrepared
    /\ UNCHANGED <<host, stage, workspace, choice, seen, bounced, spent>>

\* A history is based on the commit that was staged, and on the baseline.
StagedFirst(history, r) == history # <<>> /\ history[1] = stage.head[r + 1]
HasBaseline(history) == Len(history) > 1 /\ history[2].by = "baseline"

\* The history of a submodule must be based on its baseline, or on its staged
\* commit if it has none.
SubmoduleIsBased(s) ==
    StagedFirst(sub[s], s) /\ (s \in carried => HasBaseline(sub[s]))

\* captureIncremental writes no bundle for a repository that gained nothing,
\* and never over one that is there.
Bundles(r, gained) ==
    /\ gained => r \notin scratch.bundles
    /\ scratch' = [scratch EXCEPT !.bundles = IF gained THEN @ \cup {r} ELSE @]

PackSubmodule ==
    /\ pc = "pack" /\ at # Super
    /\ SubmoduleIsBased(at)
    /\ Bundles(at, Len(sub[at]) > 1)
    /\ prepared' = [prepared EXCEPT !.subs = Append(@, sub[at])]
    /\ pc' = "finalize" /\ at' = IF at = Subs THEN Super ELSE at + 1
    /\ UNCHANGED <<host, stage, workspace, choice, seen, bounced, spent>>

\* The tip is the work branch's, and must descend from the staged HEAD.
ResolveTip ==
    /\ pc = "tip"
    /\ StagedFirst(line["work"], Super)
    /\ prepared' = [prepared EXCEPT !.tip = line["work"]]
    /\ pc' = IF choice = "drop" THEN "prune" ELSE "pack"
    /\ UNCHANGED <<host, at, stage, workspace, scratch, choice, seen, bounced, spent>>

-----------------------------------------------------------------------------
(***************************************************************************)
(* replayWithoutBaseline: a rebase in a checkout of its own.               *)
(***************************************************************************)
\* Only a superproject's baseline can be left out, and only while it is there.
Replayable == carried = {Super} /\ HasBaseline(line["work"])

\* Registrations whose checkout is gone are pruned, then one is added.
AddCheckout ==
    /\ pc = "prune"
    /\ Replayable
    /\ ~scratch.checkout
    /\ scratch' = [scratch EXCEPT !.checkout = TRUE, !.registered = TRUE]
    /\ pc' = "rebase"
    /\ UNCHANGED <<host, at, stage, workspace, choice, prepared, seen, bounced, spent>>

Rebased(old, new, parent) ==
    [old EXCEPT !.tree = (new.tree \ (parent.tree \ old.tree)) \cup (old.tree \ parent.tree),
                !.links = [s \in Submodules |-> IF old.links[s] = parent.links[s]
                                                THEN new.links[s] ELSE old.links[s]]]

\* A submodule pointer moved both by the baseline and by the run cannot be
\* merged where the submodule is not checked out.
PointersCollide(history) ==
    \E i \in 3 .. Len(history), s \in Submodules :
        /\ history[i].links[s] # history[i - 1].links[s]
        /\ history[2].links[s] # history[1].links[s]

\* Mutant of Replayed: the commits are picked one too late.
ReplayedShort(history) ==
    LET on_top[i \in 1 .. Len(history) - 1] ==
          IF i = 1 THEN <<history[1]>>
          ELSE IF i = 2 THEN on_top[1]
          ELSE Append(on_top[i - 1],
                      Rebased(history[i + 1], Last(on_top[i - 1]), history[i]))
    IN on_top[Len(history) - 1]

\* The commits after the baseline, on top of the staged HEAD.
Replayed(history) ==
    LET on_top[i \in 1 .. Len(history) - 1] ==
          IF i = 1 THEN <<history[1]>>
          ELSE Append(on_top[i - 1],
                      Rebased(history[i + 1], Last(on_top[i - 1]), history[i]))
    IN on_top[Len(history) - 1]

RebaseSucceeds ==
    /\ pc = "rebase"
    /\ ~PointersCollide(line["work"])
    /\ prepared' = [prepared EXCEPT !.tip = Replayed(line["work"])]
    /\ pc' = "publish"
    /\ UNCHANGED <<host, at, stage, workspace, scratch, choice, seen, bounced, spent>>

\* A conflict is an answer: nothing is captured, and the checkout is removed.
RebaseConflicts ==
    /\ pc = "rebase"
    /\ Len(line["work"]) > 2
    /\ scratch' = [scratch EXCEPT !.checkout = FALSE, !.registered = FALSE]
    /\ Refused

\* The result gets a ref, to be bundled from, and the checkout goes.
PublishReplay ==
    /\ pc = "publish"
    /\ scratch' = [scratch EXCEPT !.checkout = FALSE, !.registered = FALSE,
                                  !.replay = prepared.tip]
    /\ pc' = "pack"
    /\ UNCHANGED <<host, at, stage, workspace, choice, prepared, seen, bounced, spent>>

PackSuperproject ==
    /\ pc = "pack" /\ at = Super
    /\ Bundles(Super, Len(prepared.tip) > 1)
    /\ pc' = "done"
    /\ UNCHANGED <<host, at, stage, workspace, choice, prepared, seen, bounced, spent>>

\* The bundle is a file of its own: the ref has nothing left to keep.
HandOver ==
    /\ pc = "done"
    /\ scratch' = [scratch EXCEPT !.replay = <<>>]
    /\ pc' = "returned"
    /\ UNCHANGED <<host, at, stage, workspace, choice, prepared, seen, bounced, spent>>

\* What the code checks on the way, failing: nothing is handed over.
CaptureRefuses ==
    /\ \/ pc = "pack" /\ at # Super /\ ~SubmoduleIsBased(at)
       \/ pc = "pack" /\ at # Super /\ Len(sub[at]) > 1 /\ at \in scratch.bundles
       \/ pc = "tip" /\ ~StagedFirst(line["work"], Super)
       \/ pc = "prune" /\ (~Replayable \/ scratch.checkout)
       \/ pc = "pack" /\ at = Super /\ Len(prepared.tip) > 1 /\ Super \in scratch.bundles
    /\ UNCHANGED scratch
    /\ Refused

Mishap ==
    /\ spent.mishaps < MaxMishaps
    /\ spent' = [spent EXCEPT !.mishaps = @ + 1]

CaptureEnds ==
    /\ pc' = "working" /\ at' = Super
    /\ prepared' = NotPrepared
    /\ UNCHANGED <<host, stage, workspace, choice, seen, bounced>>

\* A call fails, and what is deferred runs: the checkout and the ref are removed.
CaptureFails ==
    /\ pc \in Captures
    /\ Mishap
    /\ scratch' = IF pc \in {"rebase", "publish"}
                  THEN [scratch EXCEPT !.checkout = FALSE, !.registered = FALSE]
                  ELSE IF at = Super /\ pc \in {"pack", "done"} /\ choice = "drop"
                  THEN [scratch EXCEPT !.replay = <<>>]
                  ELSE scratch
    /\ CaptureEnds

\* The container the capture runs in dies.
CaptureKilled ==
    /\ pc \in Captures
    /\ Mishap
    /\ UNCHANGED scratch
    /\ CaptureEnds

\* The Mac did not import it: the run can go on, or be captured again.
NotImported ==
    /\ pc = "returned"
    /\ UNCHANGED <<scratch, spent>>
    /\ CaptureEnds

-----------------------------------------------------------------------------
Captured ==
    \/ FinalizeTracked \/ PackSubmodule \/ ResolveTip \/ AddCheckout
    \/ RebaseSucceeds \/ RebaseConflicts \/ PublishReplay \/ PackSuperproject \/ HandOver
    \/ CaptureRefuses

Next ==
    \/ BeginPrepare \/ ReadHead \/ BundleHead \/ DiffFromHead \/ RecheckHead \/ HeadHasMoved
    \/ Materialize \/ MaterializeRefuses
    \/ \E r \in Repos : \/ UserEdits(r) \/ UserCommits(r) \/ UserGoesBack(r)
                        \/ AgentEdits(r) \/ AgentCommits(r) \/ AgentTakesBack(r)
    \/ AgentSwitches
    \/ \E c \in BaselineChoices : BeginCapture(c)
    \/ Captured \/ CaptureFails \/ CaptureKilled \/ NotImported

Spec == Init /\ [][Next]_vars

\* A capture that has begun goes on, and the user asks again, keeping the baseline.
FairSpec == Spec /\ WF_vars(Captured) /\ SF_vars(BeginCapture("keep"))

-----------------------------------------------------------------------------
(***************************************************************************)
(* Properties.                                                             *)
(***************************************************************************)
SubHistory == Seq([by : Makers, tree : Tree])
SuperHistory == Seq([by : Makers, tree : Tree, links : [Submodules -> SubHistory]])

\* Of what a capture computes, prepared and scratch, ReturnsTheRunsWork says more.
TypeOK ==
    /\ head \in [Repos -> Tree] /\ work \in [Repos -> Tree]
    /\ links \in [Submodules -> SubHistory]
    /\ pc \in Captures \cup {"idle", "heads", "bundle", "patch", "recheck", "ready",
                             "working", "returned"}
    /\ at \in Repos
    /\ line \in [{"work", "topic"} -> SuperHistory] /\ on \in {"work", "topic"}
    /\ sub \in [Submodules -> SubHistory]
    /\ tree \in [Repos -> Tree] /\ carried \subseteq Repos
    /\ choice \in BaselineChoices /\ bounced \subseteq Repos

\* What a run starts from in a repository is a working tree that repository had
\* while the stage was prepared, whatever the user did meanwhile short of moving
\* HEAD away and back: a HEAD that moved refuses the stage.
StagedAsSeen ==
    [][pc = "ready" /\ pc' = "working" =>
         \A r \in Repos \ bounced : tree'[r] \in seen[r]]_vars

\* What a capture hands over is the run's work, all of it, as long as the agent
\* stayed on the branch it was given: each submodule as it stands, a superproject
\* that records them there, and without the baseline exactly the rest.
ReturnsTheRunsWork ==
    (pc = "returned" /\ on = "work") =>
        LET tip == Last(prepared.tip)
            source == stage.head[1]
        IN /\ \A s \in Submodules :
                /\ Last(prepared.subs[s]).tree = tree[s]
                /\ \/ tip.links[s] = prepared.subs[s]
                   \/ choice = "drop" /\ Len(prepared.subs[s]) = 1
           /\ choice = "keep" => tip.tree = tree[Super]
           /\ choice = "drop" =>
                /\ ~HasBaseline(prepared.tip)
                /\ tip.tree = (tree[Super] \cap AgentChanges) \cup source.tree

\* An apply that keeps being asked for hands the work over in the end, whatever an
\* earlier attempt left, unless the agent rewrote what it was given.
Rewritten ==
    \/ ~StagedFirst(line["work"], Super)
    \/ \E s \in Submodules : ~SubmoduleIsBased(s)

CaptureConverges == (pc = "working") ~> (pc = "returned" \/ Rewritten)
==============================================================================
