---------------------------- MODULE StagingProofs ----------------------------
(***************************************************************************)
(* Theorems about Staging, for any submodules, changes and bounds.         *)
(***************************************************************************)
EXTENDS Staging, SequenceTheorems, WellFoundedInduction, TLAPS

SubCommits == [by : Makers, tree : Tree]
SuperCommits == [by : Makers, tree : Tree, links : [Submodules -> SubHistory]]
CommitOf(r) == IF r = Super THEN SuperCommits ELSE SubCommits
Patches == [adds : Tree, drops : Tree]

LEMMA RepositoriesAre ==
    /\ Super \in Repos /\ Submodules = Repos \ {Super}
    /\ Repos \subseteq Int /\ Subs \in Nat
  BY SubmodulesAssumption DEF Super, Repos, Submodules

LEMMA UserTrees == SUBSET UserChanges \subseteq Tree /\ {} \in Tree
  BY DEF Tree

(***************************************************************************)
(* The types, and how far a stage has been assembled.                      *)
(***************************************************************************)
Grown ==
    /\ pc = "idle" => stage = NoPackage
    /\ pc = "heads" => Len(stage.head) = at /\ stage.bundle = <<>> /\ stage.patch = <<>>
    /\ pc \in {"bundle", "patch", "recheck", "ready"} => Len(stage.head) = Subs + 1
    /\ pc = "bundle" => Len(stage.bundle) = at /\ Len(stage.patch) = at
    /\ pc = "patch" => Len(stage.bundle) = at + 1 /\ Len(stage.patch) = at
    /\ pc \in {"recheck", "ready"} => Len(stage.bundle) = Subs + 1 /\ Len(stage.patch) = Subs + 1
    /\ pc \in {"idle", "ready"} => at = Super

StageTyped ==
    /\ stage \in [head : Seq(SubCommits \cup SuperCommits), bundle : Seq(SubCommits \cup SuperCommits),
                  patch : Seq(Patches)]
    /\ \A r \in Repos : r < Len(stage.head) => stage.head[r + 1] \in CommitOf(r)
    /\ \A r \in Repos : r < Len(stage.bundle) => stage.bundle[r + 1] \in CommitOf(r)
    /\ Grown

Typed == TypeOK /\ StageTyped

LEMMA HeadCommitTyped ==
    ASSUME TypeOK, NEW r \in Repos PROVE HeadCommit(r) \in CommitOf(r)
  BY RepositoriesAre
  DEF TypeOK, HeadCommit, CommitOf, SuperCommit, SubCommit, SuperCommits, SubCommits, Makers

LEMMA NoPackageTyped ==
    /\ NoPackage \in [head : Seq(SubCommits \cup SuperCommits),
                      bundle : Seq(SubCommits \cup SuperCommits), patch : Seq(Patches)]
    /\ NoPackage.bundle = <<>> /\ NoPackage.patch = <<>>
    /\ Len(NoPackage.head) = 0 /\ Len(NoPackage.bundle) = 0 /\ Len(NoPackage.patch) = 0
  BY DEF NoPackage

LEMMA InitTyped == Init => Typed
  <1> SUFFICES ASSUME Init PROVE Typed
    OBVIOUS
  <1>1. TypeOK
    <2>1. links \in [Submodules -> SubHistory]
      BY UserTrees DEF Init, SubCommit, SubHistory, Makers
    <2>2. line \in [{"work", "topic"} -> SuperHistory] /\ sub \in [Submodules -> SubHistory]
      BY DEF Init, SuperHistory, SubHistory
    <2>3. head \in [Repos -> Tree] /\ work \in [Repos -> Tree] /\ tree \in [Repos -> Tree]
      BY UserTrees DEF Init
    <2> QED  BY <2>1, <2>2, <2>3, RepositoriesAre DEF Init, TypeOK, BaselineChoices
  <1>2. StageTyped
    <2>1. stage = NoPackage /\ pc = "idle" /\ at = Super
      BY DEF Init
    <2> QED  BY <2>1, NoPackageTyped DEF StageTyped, Grown, Repos
  <1> QED  BY <1>1, <1>2 DEF Typed

LEMMA HistoriesAre == SubHistory = Seq(SubCommits) /\ SuperHistory = Seq(SuperCommits)
  BY DEF SubHistory, SuperHistory, SubCommits, SuperCommits

LEMMA ShortHistoryTyped ==
    ASSUME NEW S, NEW a \in S, NEW b \in S PROVE <<a>> \in Seq(S) /\ <<a, b>> \in Seq(S)
  OBVIOUS

LEMMA SubCommitTyped ==
    ASSUME NEW by \in Makers, NEW t \in Tree PROVE SubCommit(by, t) \in SubCommits
  BY DEF SubCommit, SubCommits

\* A history that loses its last commit is a history.
LEMMA FrontTyped ==
    ASSUME NEW S, NEW s \in Seq(S), s # <<>> PROVE Front(s) \in Seq(S)
  BY DEF Front

LEMMA AppendTyped ==
    ASSUME NEW S, NEW s \in Seq(S), NEW e \in S
    PROVE  /\ Append(s, e) \in Seq(S) /\ Len(Append(s, e)) = Len(s) + 1
           /\ \A i \in 1 .. Len(s) : Append(s, e)[i] = s[i]
           /\ Append(s, e)[Len(s) + 1] = e
  OBVIOUS

LEMMA CheckedTyped ==
    ASSUME TypeOK, NEW by \in Makers PROVE Checked(by) \in SuperCommits
  BY RepositoriesAre DEF TypeOK, Checked, SuperCommit, SuperCommits, Makers

\* What a stage in hand restores is made of commits.
LEMMA RestoredTyped ==
    ASSUME Typed, pc = "ready"
    PROVE  /\ \A s \in Submodules : RestoredSub(s) \in SubHistory
           /\ RestoredSuper \in SuperHistory
           /\ \A r \in Repos : Patched(r, stage.bundle[r + 1].tree) \in Tree
  <1>1. ASSUME NEW r \in Repos
        PROVE  /\ stage.bundle[r + 1] \in CommitOf(r) /\ stage.patch[r + 1] \in Patches
               /\ stage.bundle[r + 1].tree \in Tree
               /\ Patched(r, stage.bundle[r + 1].tree) \in Tree
    <2>1. stage.bundle[r + 1] \in CommitOf(r) /\ stage.patch[r + 1] \in Patches
      BY RepositoriesAre DEF Typed, StageTyped, Grown, Repos
    <2>2. stage.bundle[r + 1].tree \in Tree
      BY <2>1 DEF CommitOf, SubCommits, SuperCommits
    <2> QED  BY <2>1, <2>2 DEF Patched, Patch, Patches, Tree
  <1>2. ASSUME NEW s \in Submodules PROVE RestoredSub(s) \in SubHistory
    <2>1. stage.bundle[s + 1] \in SubCommits
      BY <1>1, RepositoriesAre DEF CommitOf
    <2>2. SubCommit("baseline", Patched(s, stage.bundle[s + 1].tree)) \in SubCommits
      BY <1>1, RepositoriesAre DEF SubCommit, SubCommits, Makers
    <2> QED  BY <2>1, <2>2, ShortHistoryTyped, HistoriesAre DEF RestoredSub
  <1>3. RestoredSuper \in SuperHistory
    <2>1. stage.bundle[1] \in SuperCommits
      BY <1>1, RepositoriesAre DEF CommitOf, Super
    <2>2. SuperCommit("baseline", Patched(Super, stage.bundle[1].tree),
                      [s \in Submodules |-> RestoredSub(s)]) \in SuperCommits
      <3>1. Patched(Super, stage.bundle[1].tree) \in Tree
        BY <1>1, RepositoriesAre DEF Super
      <3> QED  BY <1>2, <3>1 DEF SuperCommit, SuperCommits, Makers
    <2> QED  BY <2>1, <2>2, ShortHistoryTyped, HistoriesAre DEF RestoredSuper
  <1> QED  BY <1>1, <1>2, <1>3

\* After the last repository comes the first one, of the next task.
LEMMA ThenTyped ==
    ASSUME Typed, NEW task, Then(task)
    PROVE  /\ at' \in Repos
           /\ IF at = Subs THEN pc' = task /\ at' = Super ELSE pc' = pc /\ at' = at + 1
  BY RepositoriesAre DEF Typed, TypeOK, Then, Repos

\* A step that leaves the stage and the Mac alone, outside the preparation.
LEMMA RunStepTyped ==
    ASSUME Typed, UNCHANGED <<host, stage, bounced>>,
           pc' \in Captures \cup {"working", "returned"}, at' \in Repos, choice' \in BaselineChoices,
           line' \in [{"work", "topic"} -> SuperHistory], on' \in {"work", "topic"},
           sub' \in [Submodules -> SubHistory], tree' \in [Repos -> Tree], carried' = carried
    PROVE  Typed'
  <1>1. TypeOK'
    BY DEF Typed, TypeOK, host
  <1>2. StageTyped'
    BY DEF Typed, StageTyped, Grown, Captures
  <1> QED  BY <1>1, <1>2 DEF Typed

LEMMA TypedStep == Typed /\ [Next]_vars => Typed'
  <1> SUFFICES ASSUME Typed, [Next]_vars PROVE Typed'
    OBVIOUS
  <1>t. TypeOK /\ StageTyped
    BY DEF Typed
  <1>1. CASE BeginPrepare \/ HeadHasMoved \/ MaterializeRefuses
    <2>1. TypeOK'
      BY <1>1, <1>t, RepositoriesAre
      DEF BeginPrepare, HeadHasMoved, MaterializeRefuses, PackageRemoved, TypeOK, host, workspace
    <2>2. stage' = NoPackage /\ pc' \in {"idle", "heads"} /\ at' = 0
      BY <1>1, <1>t
      DEF BeginPrepare, HeadHasMoved, MaterializeRefuses, PackageRemoved, StageTyped, Grown, Super
    <2>3. StageTyped'
      BY <2>2, NoPackageTyped DEF StageTyped, Grown, Super, Repos
    <2> QED  BY <2>1, <2>3 DEF Typed
  <1>2. CASE ReadHead
    <2>1. at \in Repos /\ HeadCommit(at) \in CommitOf(at) /\ HeadCommit(at) \in SubCommits \cup SuperCommits
      BY <1>t, HeadCommitTyped DEF TypeOK, CommitOf
    <2>2. /\ stage'.head \in Seq(SubCommits \cup SuperCommits) /\ Len(stage'.head) = at + 1
          /\ \A r \in Repos : r < at + 1 => stage'.head[r + 1] \in CommitOf(r)
          /\ stage' = [stage EXCEPT !.head = stage'.head]
          /\ stage.bundle = <<>> /\ stage.patch = <<>>
      <3>1. /\ stage.head \in Seq(SubCommits \cup SuperCommits) /\ Len(stage.head) = at /\ at \in Nat
            /\ stage.bundle = <<>> /\ stage.patch = <<>>
            /\ \A r \in Repos : r < at => stage.head[r + 1] \in CommitOf(r)
        BY <1>2, <1>t, <2>1 DEF ReadHead, StageTyped, Grown, Repos
      <3>2. /\ stage'.head = Append(stage.head, HeadCommit(at))
            /\ stage' = [stage EXCEPT !.head = stage'.head]
        BY <1>2, <1>t DEF ReadHead, StageTyped
      <3>3. /\ stage'.head \in Seq(SubCommits \cup SuperCommits) /\ Len(stage'.head) = at + 1
            /\ \A i \in 1 .. at : stage'.head[i] = stage.head[i]
            /\ stage'.head[at + 1] = HeadCommit(at)
        BY <2>1, <3>1, <3>2, AppendTyped
      <3>4. \A r \in Repos : r < at + 1 => r = at \/ (r < at /\ r + 1 \in 1 .. at)
        BY <3>1 DEF Repos
      <3> QED  BY <2>1, <3>1, <3>2, <3>3, <3>4
    <2>3. at' \in Repos /\ IF at = Subs THEN pc' = "bundle" /\ at' = Super ELSE pc' = "heads" /\ at' = at + 1
      BY <1>2, ThenTyped DEF ReadHead
    <2>4. TypeOK'
      BY <1>2, <1>t, <2>3 DEF ReadHead, TypeOK, host, workspace
    <2>5. StageTyped'
      <3>1. stage' \in [head : Seq(SubCommits \cup SuperCommits),
                        bundle : Seq(SubCommits \cup SuperCommits), patch : Seq(Patches)]
        BY <1>t, <2>2 DEF StageTyped
      <3>2. stage'.bundle = <<>> /\ stage'.patch = <<>>
        BY <1>t, <2>2 DEF StageTyped
      <3>3. Grown'
        BY <2>1, <2>2, <2>3, <3>2 DEF Grown, Super
      <3> QED  BY <2>2, <3>1, <3>2, <3>3, RepositoriesAre DEF StageTyped, Repos
    <2> QED  BY <2>4, <2>5 DEF Typed
  <1>3. CASE BundleHead
    <2>1. at \in Repos /\ HeadCommit(at) \in CommitOf(at) /\ HeadCommit(at) \in SubCommits \cup SuperCommits
      BY <1>t, HeadCommitTyped DEF TypeOK, CommitOf
    <2>2. /\ stage'.bundle \in Seq(SubCommits \cup SuperCommits) /\ Len(stage'.bundle) = at + 1
          /\ \A r \in Repos : r < at + 1 => stage'.bundle[r + 1] \in CommitOf(r)
          /\ stage' = [stage EXCEPT !.bundle = stage'.bundle]
      BY <1>3, <1>t, <2>1, RepositoriesAre DEF BundleHead, StageTyped, Grown, Repos
    <2>3. TypeOK'
      BY <1>3, <1>t DEF BundleHead, TypeOK, host, workspace
    <2>4. StageTyped'
      BY <1>3, <1>t, <2>2 DEF BundleHead, StageTyped, Grown
    <2> QED  BY <2>3, <2>4 DEF Typed
  <1>4. CASE DiffFromHead
    <2>1. at \in Repos /\ [adds |-> work[at] \ head[at], drops |-> head[at] \ work[at]] \in Patches
      BY <1>t DEF TypeOK, Patches, Tree
    <2>2. /\ stage'.patch \in Seq(Patches) /\ Len(stage'.patch) = at + 1
          /\ stage' = [stage EXCEPT !.patch = stage'.patch]
      BY <1>4, <1>t, <2>1 DEF DiffFromHead, StageTyped, Grown
    <2>3. at' \in Repos /\ IF at = Subs THEN pc' = "recheck" /\ at' = Super
                            ELSE pc' = "bundle" /\ at' = at + 1
      BY <1>4, <2>1, RepositoriesAre DEF DiffFromHead, Repos
    <2>4. TypeOK'
      BY <1>4, <1>t, <2>3 DEF DiffFromHead, TypeOK, host, workspace
    <2>5. StageTyped'
      BY <1>4, <1>t, <2>1, <2>2, <2>3 DEF DiffFromHead, StageTyped, Grown
    <2> QED  BY <2>4, <2>5 DEF Typed
  <1>5. CASE RecheckHead
    <2>1. at' \in Repos /\ IF at = Subs THEN pc' = "ready" /\ at' = Super ELSE pc' = "recheck" /\ at' = at + 1
      BY <1>5, ThenTyped DEF RecheckHead
    <2>2. TypeOK'
      BY <1>5, <1>t, <2>1 DEF RecheckHead, TypeOK, host, workspace
    <2>3. StageTyped'
      BY <1>5, <1>t, <2>1 DEF RecheckHead, StageTyped, Grown
    <2> QED  BY <2>2, <2>3 DEF Typed
  <1>6. CASE Materialize
    <2>1. TypeOK'
      <3>1. line' \in [{"work", "topic"} -> SuperHistory] /\ sub' \in [Submodules -> SubHistory]
            /\ tree' \in [Repos -> Tree]
        BY <1>6, <1>t, RestoredTyped DEF Materialize, TypeOK
      <3>2. carried' \subseteq Repos
        BY <1>6, RepositoriesAre DEF Materialize
      <3> QED  BY <1>6, <1>t, <3>1, <3>2 DEF Materialize, TypeOK, host
    <2>2. StageTyped'
      <3>1. /\ stage'.head = stage.head /\ Len(stage'.bundle) = 0
            /\ stage' \in [head : Seq(SubCommits \cup SuperCommits),
                            bundle : Seq(SubCommits \cup SuperCommits), patch : Seq(Patches)]
            /\ pc' = "working"
        BY <1>6, <1>t, NoPackageTyped DEF Materialize, StageTyped, NoPackage
      <3> QED  BY <1>t, <3>1, RepositoriesAre DEF StageTyped, Grown, Repos
    <2> QED  BY <2>1, <2>2 DEF Typed
  <1>7. ASSUME NEW r \in Repos, UserEdits(r) \/ UserCommits(r) \/ UserGoesBack(r) PROVE Typed'
    <2>1. StageTyped'
      BY <1>7, <1>t DEF UserEdits, UserCommits, UserGoesBack, StageTyped, Grown
    <2>2. /\ head' \in [Repos -> Tree] /\ work' \in [Repos -> Tree]
          /\ links' \in [Submodules -> SubHistory] /\ bounced' \subseteq Repos
      <3>1. CASE UserEdits(r)
        BY <3>1, <1>t, UserTrees DEF UserEdits, TypeOK
      <3>2. CASE UserCommits(r)
        <4>1. \A s \in Submodules : <<SubCommit("source", head[s])>> \in SubHistory
          BY <1>t, RepositoriesAre DEF SubCommit, SubHistory, TypeOK, Makers
        <4> QED  BY <3>2, <1>t, <4>1 DEF UserCommits, TypeOK
      <3>3. CASE UserGoesBack(r)
        <4>1. stage.head[r + 1] \in CommitOf(r)
          BY <3>3, <1>t DEF UserGoesBack, StageTyped
        <4>2. stage.head[r + 1].tree \in Tree
          BY <4>1 DEF CommitOf, SubCommits, SuperCommits
        <4>3. r = Super => stage.head[1].links \in [Submodules -> SubHistory]
          BY <4>1 DEF CommitOf, SuperCommits, Super
        <4> QED  BY <3>3, <1>t, <4>2, <4>3 DEF UserGoesBack, TypeOK
      <3> QED  BY <1>7, <3>1, <3>2, <3>3
    <2>3. TypeOK'
      BY <1>7, <1>t, <2>2 DEF UserEdits, UserCommits, UserGoesBack, TypeOK, workspace
    <2> QED  BY <2>1, <2>3 DEF Typed
  <1>8. ASSUME NEW r \in Repos, AgentEdits(r) PROVE Typed'
    <2>1. tree' \in [Repos -> Tree]
      BY <1>8, <1>t DEF AgentEdits, TypeOK, Tree
    <2> QED  BY <1>8, <1>t, <2>1, RunStepTyped DEF AgentEdits, Turns, TypeOK
  <1>9. ASSUME NEW r \in Repos, AgentCommits(r) PROVE Typed'
    <2>1. line' \in [{"work", "topic"} -> SuperHistory] /\ sub' \in [Submodules -> SubHistory]
      <3>1. CASE r = Super
        <4>1. Append(line[on], Checked("agent")) \in SuperHistory
          BY <1>t, CheckedTyped DEF TypeOK, SuperHistory, SuperCommits, Makers
        <4> QED  BY <1>9, <1>t, <3>1, <4>1 DEF AgentCommits, TypeOK
      <3>2. CASE r # Super
        <4>1. Append(sub[r], SubCommit("agent", tree[r])) \in SubHistory
          <5>1. sub[r] \in SubHistory /\ tree[r] \in Tree
            BY <1>t, <3>2, RepositoriesAre DEF TypeOK
          <5> QED  BY <5>1, AppendTyped, SubCommitTyped, HistoriesAre DEF Makers
        <4> QED  BY <1>9, <1>t, <3>2, <4>1 DEF AgentCommits, TypeOK
      <3> QED  BY <3>1, <3>2
    <2> QED  BY <1>9, <1>t, <2>1, RunStepTyped DEF AgentCommits, Turns, TypeOK
  <1>10. ASSUME NEW r \in Repos, AgentTakesBack(r) PROVE Typed'
    <2>1. line' \in [{"work", "topic"} -> SuperHistory] /\ sub' \in [Submodules -> SubHistory]
      <3>1. CASE r = Super
        <4>1. Front(line[on]) \in SuperHistory
          BY <1>10, <1>t, <3>1, FrontTyped DEF AgentTakesBack, TypeOK, SuperHistory
        <4> QED  BY <1>10, <1>t, <3>1, <4>1 DEF AgentTakesBack, TypeOK
      <3>2. CASE r # Super
        <4>1. Front(sub[r]) \in SubHistory
          BY <1>10, <1>t, <3>2, FrontTyped, RepositoriesAre DEF AgentTakesBack, TypeOK, SubHistory
        <4> QED  BY <1>10, <1>t, <3>2, <4>1 DEF AgentTakesBack, TypeOK
      <3> QED  BY <3>1, <3>2
    <2> QED  BY <1>10, <1>t, <2>1, RunStepTyped DEF AgentTakesBack, Turns, TypeOK
  <1>11. CASE AgentSwitches
    BY <1>11, <1>t, RunStepTyped DEF AgentSwitches, Turns, TypeOK
  <1>12. ASSUME NEW c \in BaselineChoices, BeginCapture(c) PROVE Typed'
    BY <1>12, <1>t, RunStepTyped, RepositoriesAre
    DEF BeginCapture, TypeOK, workspace, Captures, Repos, Super
  <1>13. CASE FinalizeTracked
    <2>1. line' \in [{"work", "topic"} -> SuperHistory] /\ sub' \in [Submodules -> SubHistory]
          /\ pc' \in Captures /\ UNCHANGED <<host, at, stage, on, tree, carried, choice, bounced>>
      <3>1. CASE at = Super
        <4>1. Append(line[on], Checked("final")) \in SuperHistory
          BY <1>t, CheckedTyped DEF TypeOK, SuperHistory, SuperCommits, Makers
        <4> QED  BY <1>13, <1>t, <3>1, <4>1 DEF FinalizeTracked, TypeOK, Captures
      <3>2. CASE at # Super
        <4>1. Append(sub[at], SubCommit("final", tree[at])) \in SubHistory
          <5>1. sub[at] \in SubHistory /\ tree[at] \in Tree
            BY <1>t, <3>2, RepositoriesAre DEF TypeOK
          <5> QED  BY <5>1, AppendTyped, SubCommitTyped, HistoriesAre DEF Makers
        <4> QED  BY <1>13, <1>t, <3>2, <4>1 DEF FinalizeTracked, TypeOK, Captures
      <3> QED  BY <3>1, <3>2
    <2> QED  BY <1>t, <2>1, RunStepTyped DEF TypeOK
  <1>14. CASE \/ PackSubmodule \/ ResolveTip \/ AddCheckout \/ RebaseSucceeds \/ RebaseConflicts
              \/ PublishReplay \/ PackSuperproject \/ HandOver \/ CaptureRefuses \/ CaptureFails
              \/ CaptureKilled \/ NotImported
    <2>1. /\ pc' \in Captures \cup {"working", "returned"} /\ at' \in Repos
          /\ UNCHANGED <<host, stage, workspace, choice, bounced>>
      BY <1>14, <1>t, RepositoriesAre
      DEF PackSubmodule, ResolveTip, AddCheckout, RebaseSucceeds, RebaseConflicts, PublishReplay,
          PackSuperproject, HandOver, CaptureRefuses, Refused, CaptureFails, CaptureKilled,
          NotImported, CaptureEnds, TypeOK, Repos, Captures
    <2> QED  BY <1>t, <2>1, RunStepTyped DEF TypeOK, workspace
  <1>15. CASE UNCHANGED vars
    BY <1>15, <1>t DEF vars, host, workspace, Typed, TypeOK, StageTyped, Grown
  <1> QED
    BY <1>1, <1>2, <1>3, <1>4, <1>5, <1>6, <1>7, <1>8, <1>9, <1>10, <1>11, <1>12, <1>13, <1>14, <1>15
    DEF Next, Captured

\* The Mac, the run's repositories and the step that is under way keep their types.
THEOREM TypeCorrect == Spec => []TypeOK
  <1>1. Typed => TypeOK
    BY DEF Typed
  <1> QED  BY InitTyped, TypedStep, <1>1, PTL DEF Spec

(***************************************************************************)
(* A stage is what was seen.                                               *)
(***************************************************************************)
\* The staged difference of a repository, on its staged commit, is a working tree
\* the repository has had since the preparation began.
Faithful(r) == Patched(r, stage.head[r + 1].tree) \in seen[r]

\* A repository whose HEAD never came back either shows that it is another one now,
\* or its difference was taken from the commit that was read.
SeenSoFar ==
    /\ seen \in [Repos -> SUBSET Tree]
    /\ Preparing => \A r \in Repos : work[r] \in seen[r]
    /\ Preparing => \A r \in Repos \ bounced :
         r < Len(stage.patch) => HeadCommit(r) # stage.head[r + 1] \/ Faithful(r)
    /\ pc = "recheck" => \A r \in Repos \ bounced : r < at => Faithful(r)
    /\ pc = "ready" => \A r \in Repos \ bounced : Faithful(r)

StageSound == Typed /\ SeenSoFar

LEMMA InitSeen == Init => StageSound
  BY InitTyped DEF Init, StageSound, SeenSoFar, Preparing

\* A difference that is taken while the HEAD is the one read first gives the working
\* tree back.
LEMMA DifferenceIsFaithful ==
    ASSUME Typed, NEW r \in Repos, r + 1 <= Len(stage'.patch), HeadCommit(r) = stage'.head[r + 1],
           stage'.patch[r + 1] = [adds |-> work[r] \ head[r], drops |-> head[r] \ work[r]]
    PROVE  Patched(r, stage.head[r + 1].tree)' = work[r]
  <1>1. stage'.head[r + 1].tree = head[r]
    BY DEF HeadCommit, SuperCommit, SubCommit, Super
  <1> QED  BY <1>1 DEF Patched, Patch

LEMMA SeenStep ==
    StageSound /\ [Next]_vars =>
      /\ StageSound'
      /\ pc = "ready" /\ pc' = "working" => \A r \in Repos \ bounced : tree'[r] \in seen[r]
  <1> SUFFICES ASSUME StageSound, [Next]_vars
               PROVE  /\ StageSound'
                      /\ pc = "ready" /\ pc' = "working" =>
                           \A r \in Repos \ bounced : tree'[r] \in seen[r]
    OBVIOUS
  <1>t. Typed /\ Typed' /\ SeenSoFar
    BY TypedStep DEF StageSound
  <1>1. CASE BeginPrepare
    <2>1. stage' = stage /\ Len(stage.patch) = 0 /\ pc = "idle" /\ pc' = "heads" /\ UNCHANGED work
          /\ seen' = [r \in Repos |-> {work[r]}]
      BY <1>1, <1>t, NoPackageTyped DEF BeginPrepare, Typed, StageTyped, Grown, host
    <2>2. seen' \in [Repos -> SUBSET Tree] /\ \A r \in Repos : work[r] \in seen'[r]
      BY <1>t, <2>1 DEF Typed, TypeOK
    <2> QED  BY <1>t, <2>1, <2>2 DEF StageSound, SeenSoFar, Repos
  <1>2. CASE HeadHasMoved \/ MaterializeRefuses
    BY <1>2, <1>t
    DEF HeadHasMoved, MaterializeRefuses, PackageRemoved, StageSound, SeenSoFar, Preparing
  <1>3. CASE ReadHead
    <2>1. /\ pc = "heads" /\ pc' \in {"heads", "bundle"} /\ stage'.patch = stage.patch
          /\ Len(stage.patch) = 0 /\ UNCHANGED <<host, seen, bounced>>
      BY <1>3, <1>t DEF ReadHead, Then, Typed, StageTyped, Grown
    <2> QED  BY <1>t, <2>1 DEF StageSound, SeenSoFar, Preparing, Repos, host
  <1>4. CASE BundleHead
    <2>1. /\ pc = "bundle" /\ pc' = "patch" /\ stage'.patch = stage.patch /\ stage'.head = stage.head
          /\ UNCHANGED <<host, seen, bounced>>
      BY <1>4, <1>t DEF BundleHead, Typed, StageTyped
    <2> QED  BY <1>t, <2>1 DEF StageSound, SeenSoFar, Preparing, host, Faithful, Patched, Patch, HeadCommit
  <1>5. CASE DiffFromHead
    <2>1. /\ pc = "patch" /\ at \in Repos /\ UNCHANGED <<host, seen, bounced>>
          /\ stage'.head = stage.head /\ Len(stage.patch) = at /\ Len(stage'.patch) = at + 1
          /\ \A r \in Repos : r < at => stage'.patch[r + 1] = stage.patch[r + 1]
          /\ stage'.patch[at + 1] = [adds |-> work[at] \ head[at], drops |-> head[at] \ work[at]]
          /\ pc' = "bundle" \/ (pc' = "recheck" /\ at' = 0)
      BY <1>5, <1>t DEF DiffFromHead, Typed, TypeOK, StageTyped, Grown, Repos, Super
    <2>2. ASSUME NEW r \in Repos \ bounced, r < at + 1
          PROVE  HeadCommit(r)' # stage'.head[r + 1] \/ Faithful(r)'
      <3>1. HeadCommit(r)' = HeadCommit(r)
        BY <2>1 DEF HeadCommit, host
      <3>2. CASE r < at
        BY <1>t, <2>1, <2>2, <3>1, <3>2 DEF SeenSoFar, Preparing, Faithful, Patched, Patch
      <3>3. CASE r = at /\ HeadCommit(r) = stage'.head[r + 1]
        <4>1. Patched(r, stage.head[r + 1].tree)' = work[r]
          BY <1>t, <2>1, <3>3, DifferenceIsFaithful
        <4> QED  BY <1>t, <2>1, <4>1 DEF SeenSoFar, Preparing, Faithful
      <3> QED  BY <2>1, <2>2, <3>1, <3>2, <3>3 DEF Repos
    <2>3. SeenSoFar'
      BY <1>t, <2>1, <2>2 DEF SeenSoFar, Preparing, Repos, host
    <2> QED  BY <1>t, <2>1, <2>3 DEF StageSound
  <1>6. CASE RecheckHead
    <2>1. /\ pc = "recheck" /\ at \in Repos /\ UNCHANGED <<host, stage, seen, bounced>>
          /\ HeadCommit(at) = stage.head[at + 1] /\ Len(stage.patch) = Subs + 1
          /\ IF at = Subs THEN pc' = "ready" ELSE pc' = "recheck" /\ at' = at + 1
      BY <1>6, <1>t, ThenTyped DEF RecheckHead, Typed, TypeOK, StageTyped, Grown
    <2>2. \A r \in Repos \ bounced : r < at + 1 => Faithful(r)
      <3>1. \A r \in Repos \ bounced : r < at => Faithful(r)
        BY <1>t, <2>1 DEF SeenSoFar
      <3>2. at \notin bounced => Faithful(at)
        BY <1>t, <2>1, RepositoriesAre DEF SeenSoFar, Preparing, Repos
      <3> QED  BY <2>1, <3>1, <3>2 DEF Repos
    <2>3. SeenSoFar'
      BY <1>t, <2>1, <2>2 DEF SeenSoFar, Preparing, Repos, host, Faithful, Patched, Patch, HeadCommit
    <2> QED  BY <1>t, <2>1, <2>3 DEF StageSound
  <1>7. CASE Materialize
    <2>1. ASSUME NEW r \in Repos \ bounced PROVE tree'[r] \in seen[r]
      BY <1>7, <1>t DEF Materialize, Restorable, SeenSoFar, Faithful
    <2>2. SeenSoFar'
      BY <1>7 DEF Materialize, SeenSoFar, Preparing
    <2> QED  BY <1>t, <2>1, <2>2 DEF StageSound
  <1>8. ASSUME NEW r \in Repos, UserEdits(r) PROVE StageSound' /\ pc' # "working"
    <2>1. /\ Preparing /\ UNCHANGED <<head, links, pc, at, stage, bounced>>
          /\ \A q \in Repos : work'[q] \in seen'[q] /\ seen[q] \subseteq seen'[q]
      BY <1>8, <1>t DEF UserEdits, Edits, SeenSoFar, Typed, TypeOK
    <2>2. \A q \in Repos : Faithful(q) => Faithful(q)'
      BY <2>1 DEF Faithful, Patched, Patch
    <2>3. SeenSoFar'
      <3>1. seen' \in [Repos -> SUBSET Tree]
        BY <1>8, <1>t DEF UserEdits, SeenSoFar, Typed, TypeOK
      <3>2. \A q \in Repos : HeadCommit(q)' = HeadCommit(q)
        BY <2>1 DEF HeadCommit
      <3>3. \A q \in Repos \ bounced : q < Len(stage.patch) =>
              HeadCommit(q)' # stage.head[q + 1] \/ Faithful(q)'
        BY <1>t, <2>1, <2>2, <3>2 DEF SeenSoFar
      <3>4. pc = "recheck" => \A q \in Repos \ bounced : q < at => Faithful(q)'
        BY <1>t, <2>2 DEF SeenSoFar
      <3> QED  BY <2>1, <3>1, <3>3, <3>4 DEF SeenSoFar, Preparing
    <2> QED  BY <1>t, <2>1, <2>3 DEF StageSound, Preparing
  <1>9. ASSUME NEW r \in Repos, UserCommits(r) \/ UserGoesBack(r) PROVE StageSound' /\ pc' # "working"
    <2>1. /\ Preparing /\ UNCHANGED <<work, pc, at, stage, seen>> /\ bounced \subseteq bounced'
          /\ Len(stage.patch) <= Len(stage.head)
      <3>1. Preparing /\ UNCHANGED <<work, pc, at, stage, seen>> /\ bounced \subseteq bounced'
        BY <1>9 DEF UserCommits, UserGoesBack, Edits
      <3>2. /\ pc = "heads" => Len(stage.head) = at /\ Len(stage.patch) = 0
            /\ pc \in {"bundle", "patch"} => Len(stage.head) = Subs + 1 /\ Len(stage.patch) = at
            /\ pc = "recheck" => Len(stage.head) = Subs + 1 /\ Len(stage.patch) = Subs + 1
            /\ at \in 0 .. Subs /\ Subs \in Nat
        BY <1>t, RepositoriesAre DEF Typed, TypeOK, StageTyped, Grown, Repos
      <3> QED  BY <3>1, <3>2 DEF Preparing
    <2>2. ASSUME NEW q \in Repos \ {r} PROVE HeadCommit(q)' = HeadCommit(q)
      BY <1>9, <1>t, <2>2 DEF UserCommits, UserGoesBack, HeadCommit, Typed, TypeOK
    <2>3. r \in bounced' \/ (r < Len(stage.head) => HeadCommit(r)' # stage.head[r + 1])
      BY <1>9 DEF UserCommits, UserGoesBack
    <2>4. \A q \in Repos : Faithful(q) => Faithful(q)'
      BY <2>1 DEF Faithful, Patched, Patch
    <2>5. ASSUME NEW q \in Repos \ bounced', q < Len(stage.patch)
          PROVE  HeadCommit(q)' # stage.head[q + 1] \/ Faithful(q)'
      <3>1. CASE q = r
        BY <1>t, <2>1, <2>3, <2>5, <3>1 DEF Repos, Typed, StageTyped
      <3>2. CASE q # r
        BY <1>t, <2>1, <2>2, <2>4, <2>5, <3>2 DEF SeenSoFar
      <3> QED  BY <3>1, <3>2
    <2>6. SeenSoFar'
      BY <1>t, <2>1, <2>4, <2>5 DEF SeenSoFar, Preparing
    <2> QED  BY <1>t, <2>1, <2>6 DEF StageSound, Preparing
  <1>10. CASE \/ \E r \in Repos : AgentEdits(r) \/ AgentCommits(r) \/ AgentTakesBack(r)
              \/ AgentSwitches \/ (\E c \in BaselineChoices : BeginCapture(c))
              \/ Captured \/ CaptureFails \/ CaptureKilled \/ NotImported
    <2>1. pc # "ready" /\ pc' \in Captures \cup {"working", "returned"} /\ UNCHANGED seen
      BY <1>10
      DEF AgentEdits, AgentCommits, AgentTakesBack, AgentSwitches, Turns, BeginCapture, Captured,
          FinalizeTracked, PackSubmodule, ResolveTip, AddCheckout, RebaseSucceeds, RebaseConflicts,
          PublishReplay, PackSuperproject, HandOver, CaptureRefuses, Refused, CaptureFails,
          CaptureKilled, NotImported, CaptureEnds, Captures
    <2> QED  BY <1>t, <2>1 DEF StageSound, SeenSoFar, Preparing, Captures
  <1>11. CASE UNCHANGED vars
    BY <1>11, <1>t
    DEF vars, host, StageSound, SeenSoFar, Preparing, Faithful, Patched, Patch, HeadCommit
  <1> QED
    BY <1>1, <1>2, <1>3, <1>4, <1>5, <1>6, <1>7, <1>8, <1>9, <1>10, <1>11 DEF Next

\* A run starts, in every repository whose HEAD was not moved away and back, from a
\* working tree the user had there while the stage was prepared.
THEOREM StagesAreSnapshots == Spec => StagedAsSeen
  <1>1. StageSound /\ [Next]_vars =>
          [pc = "ready" /\ pc' = "working" =>
             \A r \in Repos \ bounced : tree'[r] \in seen[r]]_vars
    BY SeenStep
  <1>2. StageSound /\ [Next]_vars => StageSound'
    BY SeenStep
  <1> QED  BY InitSeen, <1>1, <1>2, PTL DEF Spec, StagedAsSeen

(***************************************************************************)
(* What a replay computes.                                                 *)
(***************************************************************************)
\* Sets of naturals have a least element: induction on the length of a history is
\* done with the least length that would break what is proved.
LEMMA NaturalsHaveLeast ==
    ASSUME NEW T \in SUBSET Nat, T # {} PROVE \E m \in T : \A k \in T : m <= k
  <1> DEFINE Less == {p \in Nat \X Nat : p[1] < p[2]}
  <1>1. IsWellFoundedOn(Less, Nat)
    BY NatLessThanWellFounded DEF OpToRel
  <1>2. \A i, j \in Nat : i < j => <<i, j>> \in Less
    OBVIOUS
  <1> HIDE DEF Less
  <1>3. PICK m \in T : \A k \in T : <<k, m>> \notin Less
    BY <1>1, WFMin
  <1>4. ASSUME NEW k \in T PROVE m <= k
    <2>1. k \in Nat /\ m \in Nat /\ ~(k < m)
      BY <1>2, <1>3
    <2> QED  BY <2>1
  <1> QED  BY <1>4

\* The picks of a replay, each on top of the one before.
Pick(history, c, i) == Append(c, Rebased(history[i + 1], Last(c), history[i]))
Picks(history, n, f) ==
    [i \in 1 .. n |-> IF i = 1 THEN <<history[1]>> ELSE Pick(history, f[i - 1], i)]

\* The definition by recursion defines something.
LEMMA PicksExist ==
    ASSUME NEW history, NEW n \in Nat
    PROVE  \E f : f = Picks(history, n, f)
  <1> DEFINE Without == {m \in Nat : ~\E f : f = Picks(history, m, f)}
  <1>1. SUFFICES ASSUME Without # {} PROVE FALSE
    OBVIOUS
  <1>2. PICK m \in Without : \A k \in Without : m <= k
    <2>1. Without \in SUBSET Nat
      OBVIOUS
    <2> HIDE DEF Without
    <2> QED  BY <1>1, <2>1, NaturalsHaveLeast
  <1>3. m # 0
    <2>1. <<>> = Picks(history, 0, <<>>)
      BY DEF Picks
    <2> QED  BY <2>1
  <1>4. PICK f : f = Picks(history, m - 1, f)
    <2>1. m - 1 \in Nat /\ ~(m <= m - 1)
      BY <1>3
    <2>2. m - 1 \notin Without
      BY <1>2, <2>1
    <2> QED  BY <2>1, <2>2
  <1> DEFINE g == [i \in 1 .. m |->
                     IF i < m THEN f[i]
                     ELSE IF m = 1 THEN <<history[1]>> ELSE Pick(history, f[m - 1], m)]
  <1>5. ASSUME NEW i \in 1 .. m
        PROVE  g[i] = IF i = 1 THEN <<history[1]>> ELSE Pick(history, g[i - 1], i)
    <2>1. CASE i < m
      <3>1. i \in 1 .. m - 1
        BY <2>1
      <3>2. f[i] = IF i = 1 THEN <<history[1]>> ELSE Pick(history, f[i - 1], i)
        BY <1>4, <3>1 DEF Picks
      <3> QED  BY <2>1, <3>2
    <2>2. CASE i = m
      BY <2>2
    <2> QED  BY <2>1, <2>2
  <1>6. g = Picks(history, m, g)
    <2>1. Picks(history, m, g) = [i \in 1 .. m |-> g[i]]
      <3> HIDE DEF g
      <3> QED  BY <1>5 DEF Picks
    <2> QED  BY <2>1
  <1> QED  BY <1>6

LEMMA ReplayedIsPicked ==
    ASSUME NEW history, Len(history) \in Nat, Len(history) > 1
    PROVE  \E f : /\ Replayed(history) = f[Len(history) - 1]
                  /\ f = Picks(history, Len(history) - 1, f)
  <1> DEFINE on_top == CHOOSE f : f = Picks(history, Len(history) - 1, f)
  <1>1. Replayed(history) = on_top[Len(history) - 1]
    BY DEF Replayed, Picks, Pick
  <1>2. \E f : f = Picks(history, Len(history) - 1, f)
    BY PicksExist
  <1>3. on_top = Picks(history, Len(history) - 1, on_top)
    BY <1>2
  <1> HIDE DEF on_top
  <1> QED  BY <1>1, <1>3

\* A history that was staged at a tree of the user's: past its first commit nothing
\* changes what the user had changed, only the second can be the baseline, and no
\* pointer the baseline moved is moved again.
Stacked(history) ==
    /\ history \in SuperHistory /\ Len(history) > 1
    /\ history[1].tree \subseteq UserChanges /\ history[2].tree \subseteq UserChanges
    /\ \A i \in 2 .. Len(history) : history[i].tree \cap UserChanges = history[2].tree \cap UserChanges
    /\ \A i \in 3 .. Len(history) : history[i].by # "baseline"
    /\ ~PointersCollide(history)

\* What the first picks have made, at the commit i + 1 of the history.
PickedSoFar(history, i, picked) ==
    /\ picked \in SuperHistory /\ Len(picked) = i
    /\ \A j \in 2 .. i : picked[j].by # "baseline"
    /\ picked[i].tree = (history[i + 1].tree \cap AgentChanges) \cup history[1].tree
    /\ \A s \in Submodules :
         IF history[2].links[s] = history[1].links[s]
         THEN picked[i].links[s] = history[i + 1].links[s]
         ELSE history[i + 1].links[s] = history[2].links[s]

LEMMA CommitsOfHistory ==
    ASSUME NEW history \in SuperHistory, NEW i \in 1 .. Len(history)
    PROVE  /\ history[i] \in SuperCommits /\ history[i].tree \subseteq UserChanges \cup AgentChanges
           /\ history[i].links \in [Submodules -> SubHistory] /\ Len(history) \in Nat
  <1>1. history[i] \in SuperCommits /\ Len(history) \in Nat
    BY HistoriesAre
  <1> QED  BY <1>1 DEF SuperCommits, Tree

LEMMA RebasedTyped ==
    ASSUME NEW old \in SuperCommits, NEW new \in SuperCommits, NEW parent \in SuperCommits
    PROVE  /\ Rebased(old, new, parent) \in SuperCommits
           /\ Rebased(old, new, parent).by = old.by
           /\ Rebased(old, new, parent).tree =
                (new.tree \ (parent.tree \ old.tree)) \cup (old.tree \ parent.tree)
           /\ \A s \in Submodules : Rebased(old, new, parent).links[s] =
                IF old.links[s] = parent.links[s] THEN new.links[s] ELSE old.links[s]
  <1>1. /\ old.tree \in Tree /\ new.tree \in Tree /\ parent.tree \in Tree
        /\ new.links \in [Submodules -> SubHistory] /\ old.links \in [Submodules -> SubHistory]
    BY DEF SuperCommits
  <1>2. (new.tree \ (parent.tree \ old.tree)) \cup (old.tree \ parent.tree) \in Tree
    BY <1>1 DEF Tree
  <1>3. [s \in Submodules |-> IF old.links[s] = parent.links[s] THEN new.links[s] ELSE old.links[s]]
          \in [Submodules -> SubHistory]
    BY <1>1
  <1> QED  BY <1>2, <1>3 DEF Rebased, SuperCommits

\* The first commit, alone, is what a replay starts from.
LEMMA FirstPick ==
    ASSUME NEW history, Stacked(history) PROVE PickedSoFar(history, 1, <<history[1]>>)
  <1>1. history \in SuperHistory /\ Len(history) > 1 /\ Len(history) \in Nat
    BY HistoriesAre DEF Stacked
  <1>2. history[1] \in SuperCommits /\ 1 \in 1 .. Len(history) /\ 2 \in 1 .. Len(history)
    BY <1>1, CommitsOfHistory
  <1>3. <<history[1]>> \in SuperHistory /\ Len(<<history[1]>>) = 1 /\ <<history[1]>>[1] = history[1]
    BY <1>2, HistoriesAre
  <1>4. history[1].tree = (history[2].tree \cap AgentChanges) \cup history[1].tree
    BY ChangesAssumption DEF Stacked
  <1> QED  BY <1>3, <1>4 DEF PickedSoFar

\* A commit that is picked brings what it changed, and nothing of the baseline.
LEMMA NextPick ==
    ASSUME NEW history, Stacked(history), NEW i \in 2 .. Len(history) - 1, NEW picked,
           PickedSoFar(history, i - 1, picked)
    PROVE  PickedSoFar(history, i, Pick(history, picked, i))
  <1> DEFINE old == history[i + 1]
             parent == history[i]
             new == picked[i - 1]
             next == Rebased(old, new, parent)
  <1>1. history \in SuperHistory /\ Len(history) > 1 /\ Len(history) \in Nat
    BY HistoriesAre DEF Stacked
  <1>2. /\ i \in 2 .. Len(history) /\ i + 1 \in 3 .. Len(history) /\ i \in Nat
        /\ i \in 1 .. Len(history) /\ i + 1 \in 1 .. Len(history)
    BY <1>1
  <1>3. old \in SuperCommits /\ parent \in SuperCommits /\ new \in SuperCommits
    <2>1. picked \in Seq(SuperCommits) /\ Len(picked) = i - 1 /\ i - 1 \in 1 .. Len(picked)
      BY <1>2, HistoriesAre DEF PickedSoFar
    <2> QED  BY <1>1, <1>2, <2>1, CommitsOfHistory
  <1>4. Last(picked) = new /\ picked \in Seq(SuperCommits) /\ Len(picked) = i - 1
    BY HistoriesAre DEF PickedSoFar, Last
  <1> HIDE DEF old, parent, new
  <1>5. /\ next \in SuperCommits /\ next.by = old.by
        /\ next.tree = (new.tree \ (parent.tree \ old.tree)) \cup (old.tree \ parent.tree)
        /\ \A s \in Submodules : next.links[s] =
             IF old.links[s] = parent.links[s] THEN new.links[s] ELSE old.links[s]
    BY <1>3, RebasedTyped
  <1> HIDE DEF next
  <1>6. /\ Append(picked, next) \in Seq(SuperCommits) /\ Len(Append(picked, next)) = i
        /\ \A j \in 1 .. i - 1 : Append(picked, next)[j] = picked[j]
        /\ Append(picked, next)[i] = next
    BY <1>2, <1>4, <1>5, AppendTyped
  <1>7. Pick(history, picked, i) = Append(picked, next)
    BY <1>4 DEF Pick, next, old, parent
  <1>8. \A j \in 2 .. i : Append(picked, next)[j].by # "baseline"
    <2>1. old.by # "baseline"
      BY <1>2 DEF Stacked, old
    <2>2. \A j \in 2 .. i - 1 : picked[j].by # "baseline"
      BY DEF PickedSoFar
    <2> QED  BY <1>2, <1>5, <1>6, <2>1, <2>2
  <1>9. next.tree = (old.tree \cap AgentChanges) \cup history[1].tree
    <2>1. /\ old.tree \cap UserChanges = parent.tree \cap UserChanges
          /\ history[1].tree \subseteq UserChanges
      BY <1>2 DEF Stacked, old, parent
    <2>2. new.tree = (parent.tree \cap AgentChanges) \cup history[1].tree
      BY <1>2 DEF PickedSoFar, new, parent
    <2>3. /\ old.tree \subseteq UserChanges \cup AgentChanges
          /\ parent.tree \subseteq UserChanges \cup AgentChanges
      BY <1>3 DEF SuperCommits, Tree
    <2> QED  BY <1>5, <2>1, <2>2, <2>3, ChangesAssumption
  <1>10. ASSUME NEW s \in Submodules
         PROVE  IF history[2].links[s] = history[1].links[s]
                THEN next.links[s] = old.links[s]
                ELSE old.links[s] = history[2].links[s]
    <2>1. IF history[2].links[s] = history[1].links[s]
          THEN new.links[s] = parent.links[s]
          ELSE parent.links[s] = history[2].links[s]
      BY <1>2 DEF PickedSoFar, new, parent
    <2>2. old.links[s] = parent.links[s] \/ history[2].links[s] = history[1].links[s]
      <3>1. (i + 1) - 1 = i
        BY <1>2
      <3> QED  BY <1>2, <3>1 DEF Stacked, PointersCollide, old, parent
    <2> QED  BY <1>5, <2>1, <2>2
  <1> QED
    BY <1>6, <1>7, <1>8, <1>9, <1>10, HistoriesAre DEF PickedSoFar, old

\* A replay leaves out the baseline and nothing else: what the user had changed is
\* back where the run was staged, every change of the agent's is there, and so is
\* every submodule pointer the baseline did not move: what the rebase without the
\* baseline computes, for histories of any length.
THEOREM ReplayIsTheRest ==
    ASSUME NEW history, Stacked(history)
    PROVE  PickedSoFar(history, Len(history) - 1, Replayed(history))
  <1>1. Len(history) \in Nat /\ Len(history) > 1
    BY HistoriesAre DEF Stacked
  <1>2. PICK f : /\ Replayed(history) = f[Len(history) - 1]
                 /\ f = Picks(history, Len(history) - 1, f)
    BY <1>1, ReplayedIsPicked
  <1>3. \A i \in 1 .. Len(history) - 1 :
          f[i] = IF i = 1 THEN <<history[1]>> ELSE Pick(history, f[i - 1], i)
    BY <1>2 DEF Picks
  <1> DEFINE Wrong == {i \in 1 .. Len(history) - 1 : ~PickedSoFar(history, i, f[i])}
  <1>4. SUFFICES ASSUME Wrong # {} PROVE FALSE
    BY <1>1, <1>2
  <1>5. PICK i \in Wrong : \A k \in Wrong : i <= k
    <2>1. Wrong \in SUBSET Nat
      BY <1>1
    <2> HIDE DEF Wrong
    <2> QED  BY <1>4, <2>1, NaturalsHaveLeast
  <1>6. i \in 1 .. Len(history) - 1 /\ ~PickedSoFar(history, i, f[i])
    OBVIOUS
  <1>7. CASE i = 1
    BY <1>3, <1>6, <1>7, FirstPick
  <1>8. CASE i # 1
    <2>1. i \in 2 .. Len(history) - 1 /\ i - 1 \in 1 .. Len(history) - 1 /\ ~(i <= i - 1)
      BY <1>1, <1>6, <1>8
    <2>2. PickedSoFar(history, i - 1, f[i - 1])
      BY <1>5, <2>1
    <2>3. f[i] = Pick(history, f[i - 1], i)
      BY <1>3, <1>8, <2>1
    <2> QED  BY <1>6, <2>1, <2>2, <2>3, NextPick
  <1> QED  BY <1>7, <1>8

(***************************************************************************)
(* A capture hands over the run's work.                                    *)
(***************************************************************************)
\* On the Mac every change is the user's.
MacsChanges ==
    /\ head \in [Repos -> SUBSET UserChanges] /\ work \in [Repos -> SUBSET UserChanges]
    /\ \A r \in Repos : r < Len(stage.head) => stage.head[r + 1].tree \subseteq UserChanges
    /\ \A r \in Repos : r < Len(stage.bundle) => stage.bundle[r + 1].tree \subseteq UserChanges
    /\ \A r \in Repos : r < Len(stage.patch) => stage.patch[r + 1].adds \subseteq UserChanges

\* In the run's history, over its working tree of now: past the first commit nobody
\* changes what the user had changed, and only the second can be the baseline, which
\* records each submodule that has none where it was staged.
StandsOnBaseline(history, now, based) ==
    /\ \A i \in 2 .. Len(history) : history[i].tree \cap UserChanges = now \cap UserChanges
    /\ \A i \in 3 .. Len(history) : history[i].by # "baseline"
    /\ HasBaseline(history) =>
         /\ history[2].tree \subseteq UserChanges
         /\ \A s \in Submodules \ based : Len(history[2].links[s]) = 1

Running == Captures \cup {"working", "returned"}

RunsHistory ==
    pc \in Running => /\ stage.head[1].tree \subseteq UserChanges
                      /\ StandsOnBaseline(line["work"], tree[Super], carried)

\* The submodules before the one that is reached have been handed over as they are.
AtSubmodule == pc \in {"finalize", "pack"} /\ at # Super
Final(s) == sub[s] # <<>> /\ Last(sub[s]).tree = tree[s]

SubmodulesPacked ==
    pc \in Captures \cup {"returned"} =>
        /\ DOMAIN prepared = {"tip", "subs", "final"} /\ prepared.subs \in Seq(SubHistory)
        /\ Len(prepared.subs) = IF AtSubmodule THEN at - 1 ELSE Subs
        /\ \A s \in 1 .. Len(prepared.subs) : prepared.subs[s] = sub[s] /\ Final(s)
        /\ pc = "pack" /\ at # Super => Final(at)
        /\ pc \notin {"finalize", "pack"} => at = Super

\* The superproject's last commit is its working tree, with the submodules as they are.
Finalized ==
    /\ line["work"] # <<>>
    /\ Last(line["work"]).tree = tree[Super]
    /\ Last(line["work"]).links = [s \in Submodules |-> sub[s]]

\* What ReturnsTheRunsWork says of a tip, of a capture that has one.
TipIsWhole ==
    LET tip == Last(prepared.tip) IN
    /\ \A s \in Submodules :
         tip.links[s] = prepared.subs[s] \/ (choice = "drop" /\ Len(prepared.subs[s]) = 1)
    /\ choice = "keep" => tip.tree = tree[Super]
    /\ choice = "drop" =>
         /\ ~HasBaseline(prepared.tip)
         /\ tip.tree = (tree[Super] \cap AgentChanges) \cup stage.head[1].tree

AfterTip == pc \in {"publish", "done", "returned"} \/ (pc = "pack" /\ at = Super)

TipTaken ==
    /\ (pc \in {"tip", "prune", "rebase"} \/ AfterTip) /\ on = "work" => Finalized
    /\ pc \in {"prune", "rebase"} => choice = "drop" /\ StagedFirst(line["work"], Super)
    /\ pc = "rebase" => Replayable
    /\ AfterTip /\ on = "work" => TipIsWhole

WorkSound == Typed /\ MacsChanges /\ RunsHistory /\ SubmodulesPacked /\ TipTaken

LEMMA InitWork == Init => WorkSound
  <1> SUFFICES ASSUME Init PROVE WorkSound
    OBVIOUS
  <1>1. Typed
    BY InitTyped
  <1>2. MacsChanges
    BY NoPackageTyped, RepositoriesAre DEF Init, MacsChanges, Repos
  <1>3. RunsHistory /\ SubmodulesPacked /\ TipTaken
    BY DEF Init, RunsHistory, SubmodulesPacked, TipTaken, AfterTip, Running, Captures
  <1> QED  BY <1>1, <1>2, <1>3 DEF WorkSound

\* The steps of the run, which leave the Mac and the stage alone.
RunSteps ==
    \/ \E r \in Repos : AgentEdits(r) \/ AgentCommits(r) \/ AgentTakesBack(r)
    \/ AgentSwitches
    \/ \E c \in BaselineChoices : BeginCapture(c)
    \/ Captured \/ CaptureFails \/ CaptureKilled \/ NotImported

LEMMA RunStepsAre ==
    ASSUME RunSteps
    PROVE  /\ UNCHANGED <<host, stage, carried>>
           /\ pc \in Running /\ pc' \in Running
  BY DEF RunSteps, AgentEdits, AgentCommits, AgentTakesBack, AgentSwitches, Turns, BeginCapture,
         Captured, FinalizeTracked, PackSubmodule, ResolveTip, AddCheckout, RebaseSucceeds,
         RebaseConflicts, PublishReplay, PackSuperproject, HandOver, CaptureRefuses, Refused,
         CaptureFails, CaptureKilled, NotImported, CaptureEnds, Running, Captures, workspace

LEMMA MacStep == Typed /\ MacsChanges /\ [Next]_vars => MacsChanges'
  <1> SUFFICES ASSUME Typed, MacsChanges, [Next]_vars PROVE MacsChanges'
    OBVIOUS
  <1>1. CASE UNCHANGED <<head, work, stage>>
    BY <1>1 DEF MacsChanges
  <1>2. CASE HeadHasMoved \/ MaterializeRefuses
    <2>1. stage' = NoPackage /\ UNCHANGED <<head, work>>
      BY <1>2 DEF HeadHasMoved, MaterializeRefuses, PackageRemoved, host
    <2> QED  BY <2>1, NoPackageTyped, RepositoriesAre DEF MacsChanges, Repos
  <1>3. CASE ReadHead
    <2>1. /\ UNCHANGED <<head, work>> /\ stage'.bundle = stage.bundle /\ stage'.patch = stage.patch
          /\ stage'.head = Append(stage.head, HeadCommit(at)) /\ at \in Repos
          /\ stage.head \in Seq(SubCommits \cup SuperCommits) /\ Len(stage.head) = at
      BY <1>3 DEF ReadHead, Typed, TypeOK, StageTyped, Grown, host
    <2>2. HeadCommit(at) \in SubCommits \cup SuperCommits
      BY <2>1, HeadCommitTyped DEF Typed, CommitOf
    <2>3. HeadCommit(at).tree = head[at]
      BY DEF HeadCommit, SuperCommit, SubCommit, Super
    <2>4. \A r \in Repos : r < Len(stage'.head) => stage'.head[r + 1].tree \subseteq UserChanges
      BY <2>1, <2>2, <2>3, AppendTyped DEF MacsChanges, Repos
    <2> QED  BY <2>1, <2>4 DEF MacsChanges
  <1>4. CASE BundleHead
    <2>1. /\ UNCHANGED <<head, work>> /\ stage'.head = stage.head /\ stage'.patch = stage.patch
          /\ stage'.bundle = Append(stage.bundle, HeadCommit(at)) /\ at \in Repos
          /\ stage.bundle \in Seq(SubCommits \cup SuperCommits) /\ Len(stage.bundle) = at
      BY <1>4 DEF BundleHead, Typed, TypeOK, StageTyped, Grown, host
    <2>2. HeadCommit(at) \in SubCommits \cup SuperCommits
      BY <2>1, HeadCommitTyped DEF Typed, CommitOf
    <2>3. HeadCommit(at).tree = head[at]
      BY DEF HeadCommit, SuperCommit, SubCommit, Super
    <2>4. \A r \in Repos : r < Len(stage'.bundle) => stage'.bundle[r + 1].tree \subseteq UserChanges
      BY <2>1, <2>2, <2>3, AppendTyped DEF MacsChanges, Repos
    <2> QED  BY <2>1, <2>4 DEF MacsChanges
  <1>5. CASE DiffFromHead
    <2> DEFINE difference == [adds |-> work[at] \ head[at], drops |-> head[at] \ work[at]]
    <2>1. /\ UNCHANGED <<head, work>> /\ stage'.head = stage.head /\ stage'.bundle = stage.bundle
          /\ stage'.patch = Append(stage.patch, difference) /\ at \in Repos
          /\ stage.patch \in Seq(Patches) /\ Len(stage.patch) = at
      BY <1>5 DEF DiffFromHead, Typed, TypeOK, StageTyped, Grown, host
    <2>2. difference \in Patches /\ difference.adds \subseteq UserChanges
      BY <2>1 DEF Patches, MacsChanges, Tree
    <2> HIDE DEF difference
    <2>3. \A r \in Repos : r < Len(stage'.patch) => stage'.patch[r + 1].adds \subseteq UserChanges
      BY <2>1, <2>2, AppendTyped DEF MacsChanges, Repos
    <2> QED  BY <2>1, <2>3 DEF MacsChanges
  <1>6. CASE Materialize
    <2>1. /\ UNCHANGED <<head, work>> /\ stage'.head = stage.head
          /\ stage'.bundle = <<>> /\ stage'.patch = <<>>
      BY <1>6, NoPackageTyped DEF Materialize, host
    <2> QED  BY <2>1, RepositoriesAre DEF MacsChanges, Repos
  <1>7. ASSUME NEW r \in Repos, UserEdits(r) PROVE MacsChanges'
    <2>1. UNCHANGED <<head, stage>> /\ work' \in [Repos -> SUBSET UserChanges]
      BY <1>7 DEF UserEdits, MacsChanges
    <2> QED  BY <2>1 DEF MacsChanges
  <1>8. ASSUME NEW r \in Repos, UserCommits(r) \/ UserGoesBack(r) PROVE MacsChanges'
    <2>1. UNCHANGED <<work, stage>> /\ head' \in [Repos -> SUBSET UserChanges]
      BY <1>8 DEF UserCommits, UserGoesBack, MacsChanges
    <2> QED  BY <2>1 DEF MacsChanges
  <1>9. CASE RunSteps \/ BeginPrepare \/ RecheckHead \/ UNCHANGED vars
    BY <1>1, <1>9, RunStepsAre DEF BeginPrepare, RecheckHead, vars, host
  <1> QED
    BY <1>2, <1>3, <1>4, <1>5, <1>6, <1>7, <1>8, <1>9 DEF Next, RunSteps

(***************************************************************************)
(* The run's history.                                                      *)
(***************************************************************************)
LEMMA AppendStands ==
    ASSUME NEW history \in SuperHistory, NEW now, NEW based, StandsOnBaseline(history, now, based),
           NEW c \in SuperCommits, c.tree = now, c.by # "baseline"
    PROVE  StandsOnBaseline(Append(history, c), now, based)
  <1>1. /\ Len(history) \in Nat /\ Len(Append(history, c)) = Len(history) + 1
        /\ \A i \in 1 .. Len(history) : Append(history, c)[i] = history[i]
        /\ Append(history, c)[Len(history) + 1] = c
    BY HistoriesAre, AppendTyped
  <1>2. \A i \in 1 .. Len(history) + 1 : i = Len(history) + 1 \/ i \in 1 .. Len(history)
    BY <1>1
  <1>3. HasBaseline(Append(history, c)) => HasBaseline(history) /\ Append(history, c)[2] = history[2]
    BY <1>1 DEF HasBaseline
  <1>4. \A i \in 2 .. Len(history) + 1 :
          Append(history, c)[i].tree \cap UserChanges = now \cap UserChanges
    BY <1>1, <1>2 DEF StandsOnBaseline
  <1>5. \A i \in 3 .. Len(history) + 1 : Append(history, c)[i].by # "baseline"
    BY <1>1, <1>2 DEF StandsOnBaseline
  <1> QED  BY <1>1, <1>3, <1>4, <1>5 DEF StandsOnBaseline

LEMMA FrontIs ==
    ASSUME NEW S, NEW s \in Seq(S), s # <<>>
    PROVE  /\ Len(s) \in Nat /\ Len(s) > 0 /\ Len(Front(s)) = Len(s) - 1
           /\ \A i \in 1 .. Len(s) - 1 : Front(s)[i] = s[i]
  <1>1. Len(s) \in Nat /\ Len(s) > 0
    OBVIOUS
  <1>2. /\ Len(SubSeq(s, 1, Len(s) - 1)) = Len(s) - 1
        /\ \A i \in 1 .. Len(s) - 1 : SubSeq(s, 1, Len(s) - 1)[i] = s[i]
    <2>1. Len(s) - 1 \in Int /\ 1 \in Int /\ \A i \in 1 .. Len(s) - 1 : s[i] \in S
      BY <1>1
    <2>2. /\ Len(SubSeq(s, 1, Len(s) - 1)) = IF 1 <= Len(s) - 1 THEN Len(s) - 1 - 1 + 1 ELSE 0
          /\ \A i \in 1 .. Len(s) - 1 - 1 + 1 : SubSeq(s, 1, Len(s) - 1)[i] = s[1 + i - 1]
      BY <2>1, SubSeqProperties
    <2>3. \A i \in 1 .. Len(s) - 1 : i \in 1 .. Len(s) - 1 - 1 + 1 /\ 1 + i - 1 = i
      BY <1>1
    <2>4. \A n \in Nat : n > 0 => (IF 1 <= n - 1 THEN n - 1 - 1 + 1 ELSE 0) = n - 1
      OBVIOUS
    <2> QED  BY <1>1, <2>2, <2>3, <2>4
  <1> QED  BY <1>1, <1>2 DEF Front

LEMMA FrontStands ==
    ASSUME NEW history \in SuperHistory, NEW now, NEW based, StandsOnBaseline(history, now, based),
           history # <<>>
    PROVE  StandsOnBaseline(Front(history), now, based)
  <1>1. /\ Len(history) \in Nat /\ Len(history) > 0 /\ Len(Front(history)) = Len(history) - 1
        /\ \A i \in 1 .. Len(history) - 1 : Front(history)[i] = history[i]
    BY HistoriesAre, FrontIs
  <1> QED  BY <1>1 DEF StandsOnBaseline, HasBaseline

\* Changes of the agent's are none of the user's.
LEMMA AgentsEditStands ==
    ASSUME NEW history, NEW before, NEW now, NEW based, StandsOnBaseline(history, before, based),
           now \cap UserChanges = before \cap UserChanges
    PROVE  StandsOnBaseline(history, now, based)
  BY DEF StandsOnBaseline

\* What is materialized is the staged commit and perhaps a baseline of the user's
\* changes.
LEMMA MaterializeStands ==
    ASSUME Typed, MacsChanges, Materialize
    PROVE  RunsHistory'
  <1>1. /\ pc = "ready" /\ line' = [line EXCEPT !["work"] = RestoredSuper]
        /\ tree' = [r \in Repos |-> Patched(r, stage.bundle[r + 1].tree)]
        /\ \A s \in Submodules : s \notin carried' => Len(RestoredSub(s)) # 2
        /\ stage'.head = stage.head /\ Restorable(Super)
    BY RepositoriesAre DEF Materialize, NoPackage
  <1>2. /\ Super + 1 = 1 /\ Super < Len(stage.head) /\ Super < Len(stage.bundle)
        /\ Super < Len(stage.patch)
    BY <1>1, RepositoriesAre DEF Typed, StageTyped, Grown, Super
  <1>3. /\ stage.head[1].tree \subseteq UserChanges /\ stage.bundle[1].tree \subseteq UserChanges
        /\ stage.patch[1].adds \subseteq UserChanges
    BY <1>2, RepositoriesAre DEF MacsChanges
  <1> DEFINE now == Patched(Super, stage.bundle[1].tree)
             base == SuperCommit("baseline", now, [s \in Submodules |-> RestoredSub(s)])
  <1>4. now \subseteq UserChanges /\ tree'[Super] = now
    BY <1>1, <1>2, <1>3, RepositoriesAre DEF Patched, Patch
  <1>5. ASSUME NEW s \in Submodules, s \notin carried' PROVE Len(base.links[s]) = 1
    <2>1. base.links[s] = RestoredSub(s)
      BY DEF SuperCommit
    <2> QED  BY <1>1, <1>5, <2>1 DEF RestoredSub
  <1>6. base.tree = now
    BY DEF SuperCommit
  <1> HIDE DEF now
  <1>7. RestoredSuper = <<stage.bundle[1]>> \/ RestoredSuper = <<stage.bundle[1], base>>
    BY DEF RestoredSuper, now
  <1>8. line'["work"] = RestoredSuper
    BY <1>1 DEF Typed, TypeOK
  <1> HIDE DEF base
  <1>9. StandsOnBaseline(RestoredSuper, now, carried')
    <2>1. CASE RestoredSuper = <<stage.bundle[1]>>
      BY <2>1 DEF StandsOnBaseline, HasBaseline
    <2>2. CASE RestoredSuper = <<stage.bundle[1], base>>
      BY <1>4, <1>5, <1>6, <2>2 DEF StandsOnBaseline, HasBaseline
    <2> QED  BY <1>7, <2>1, <2>2
  <1> QED  BY <1>1, <1>3, <1>4, <1>8, <1>9 DEF RunsHistory

LEMMA HistoryStep ==
    Typed /\ MacsChanges /\ RunsHistory /\ [Next]_vars => RunsHistory'
  <1> SUFFICES ASSUME Typed, MacsChanges, RunsHistory, [Next]_vars PROVE RunsHistory'
    OBVIOUS
  <1>1. CASE pc' \notin Running
    BY <1>1 DEF RunsHistory
  <1>2. CASE Materialize
    BY <1>2, MaterializeStands
  <1>3. CASE pc \in Running /\ UNCHANGED <<stage, carried, line, tree>>
    BY <1>3 DEF RunsHistory
  <1>t. ASSUME pc \in Running
        PROVE  /\ line["work"] \in SuperHistory /\ Super \in Repos
               /\ stage.head[1].tree \subseteq UserChanges
               /\ StandsOnBaseline(line["work"], tree[Super], carried)
    BY <1>t, RepositoriesAre DEF RunsHistory, Typed, TypeOK
  <1>4. ASSUME NEW r \in Repos, AgentEdits(r) PROVE RunsHistory'
    <2>1. /\ pc \in Running /\ UNCHANGED <<stage, carried, line>>
          /\ tree'[Super] \cap UserChanges = tree[Super] \cap UserChanges
      BY <1>4, ChangesAssumption DEF AgentEdits, Turns, Running, Typed, TypeOK
    <2> QED  BY <1>t, <2>1, AgentsEditStands DEF RunsHistory
  <1>5. ASSUME NEW r \in Repos, AgentCommits(r) PROVE RunsHistory'
    <2>1. /\ pc \in Running /\ UNCHANGED <<stage, carried, tree>>
          /\ line' = line \/ line'["work"] = line["work"]
               \/ line'["work"] = Append(line["work"], Checked("agent"))
      BY <1>5 DEF AgentCommits, Turns, Running, Typed, TypeOK
    <2>2. /\ Checked("agent") \in SuperCommits /\ Checked("agent").tree = tree[Super]
          /\ Checked("agent").by # "baseline"
      BY CheckedTyped DEF Typed, Makers, Checked, SuperCommit
    <2> QED  BY <1>t, <2>1, <2>2, AppendStands DEF RunsHistory
  <1>6. ASSUME NEW r \in Repos, AgentTakesBack(r) PROVE RunsHistory'
    <2>1. /\ pc \in Running /\ UNCHANGED <<stage, carried, tree>>
          /\ line'["work"] = line["work"]
               \/ (line["work"] # <<>> /\ line'["work"] = Front(line["work"]))
      BY <1>6 DEF AgentTakesBack, Turns, Running, Typed, TypeOK
    <2> QED  BY <1>t, <2>1, FrontStands DEF RunsHistory
  <1>7. CASE AgentSwitches
    <2>1. pc \in Running /\ UNCHANGED <<stage, carried, tree>> /\ line'["work"] = line["work"]
      BY <1>7 DEF AgentSwitches, Turns, Running, Typed, TypeOK
    <2> QED  BY <2>1 DEF RunsHistory
  <1>8. CASE FinalizeTracked
    <2>1. /\ pc \in Running /\ UNCHANGED <<stage, carried, tree>>
          /\ line' = line \/ line'["work"] = line["work"]
               \/ line'["work"] = Append(line["work"], Checked("final"))
      BY <1>8 DEF FinalizeTracked, Running, Captures, Typed, TypeOK
    <2>2. /\ Checked("final") \in SuperCommits /\ Checked("final").tree = tree[Super]
          /\ Checked("final").by # "baseline"
      BY CheckedTyped DEF Typed, Makers, Checked, SuperCommit
    <2> QED  BY <1>t, <2>1, <2>2, AppendStands DEF RunsHistory
  <1>9. CASE \/ \E c \in BaselineChoices : BeginCapture(c)
             \/ PackSubmodule \/ ResolveTip \/ AddCheckout \/ RebaseSucceeds \/ RebaseConflicts
             \/ PublishReplay \/ PackSuperproject \/ HandOver \/ CaptureRefuses
             \/ CaptureFails \/ CaptureKilled \/ NotImported \/ UNCHANGED vars
    <2>1. UNCHANGED <<stage, carried, line, tree>> /\ (pc \in Running \/ pc' = pc)
      BY <1>9
      DEF BeginCapture, PackSubmodule, ResolveTip, AddCheckout, RebaseSucceeds, RebaseConflicts,
          PublishReplay, PackSuperproject, HandOver, CaptureRefuses, Refused, CaptureFails,
          CaptureKilled, NotImported, CaptureEnds, Running, Captures, workspace, vars
    <2> QED  BY <1>1, <1>3, <2>1
  <1>10. ASSUME \/ BeginPrepare \/ ReadHead \/ BundleHead \/ DiffFromHead \/ RecheckHead
                \/ HeadHasMoved \/ MaterializeRefuses
                \/ \E r \in Repos : UserEdits(r) \/ UserCommits(r) \/ UserGoesBack(r)
         PROVE  pc' \notin Running
    BY <1>10, ThenTyped
    DEF BeginPrepare, ReadHead, BundleHead, DiffFromHead, RecheckHead, HeadHasMoved,
        MaterializeRefuses, PackageRemoved, UserEdits, UserCommits, UserGoesBack, Edits, Preparing,
        Running, Captures
  <1> QED
    BY <1>1, <1>2, <1>4, <1>5, <1>6, <1>7, <1>8, <1>9, <1>10 DEF Next, Captured

(***************************************************************************)
(* The submodules that are handed over, and the tip.                       *)
(***************************************************************************)
LEMMA LastIs ==
    ASSUME NEW S, NEW s \in Seq(S), NEW e \in S
    PROVE  /\ Append(s, e) \in Seq(S) /\ Append(s, e) # <<>> /\ Last(Append(s, e)) = e
  BY AppendTyped DEF Last

\* A submodule that was finalized has its working tree as its last commit.
LEMMA FinalizeFinal ==
    ASSUME Typed, FinalizeTracked, at # Super
    PROVE  /\ pc' = "pack" /\ UNCHANGED <<at, prepared, line, on, tree>>
           /\ Final(at)' /\ \A s \in Submodules : s # at => sub'[s] = sub[s]
  <1>1. /\ at \in Submodules /\ sub[at] \in Seq(SubCommits) /\ tree[at] \in Tree
        /\ SubCommit("final", tree[at]) \in SubCommits
    BY HistoriesAre, RepositoriesAre, SubCommitTyped DEF Typed, TypeOK, Makers
  <1> DEFINE clean == sub[at] # <<>> /\ Last(sub[at]).tree = tree[at]
             final == SubCommit("final", tree[at])
  <1>2. final.tree = tree[at]
    BY DEF SubCommit
  <1>3. /\ pc' = "pack" /\ UNCHANGED <<at, prepared, line, on, tree>>
        /\ sub' = [sub EXCEPT ![at] = IF clean THEN @ ELSE Append(@, final)]
    BY DEF FinalizeTracked
  <1> HIDE DEF final
  <1>4. sub'[at] # <<>> /\ Last(sub'[at]).tree = tree[at]
    <2>1. sub'[at] = IF clean THEN sub[at] ELSE Append(sub[at], final)
      BY <1>1, <1>3 DEF Typed, TypeOK
    <2>2. CASE clean
      BY <2>1, <2>2
    <2>3. CASE ~clean
      <3>1. Append(sub[at], final) # <<>> /\ Last(Append(sub[at], final)) = final
        BY <1>1, LastIs DEF final
      <3> HIDE DEF clean
      <3> QED  BY <1>2, <2>1, <2>3, <3>1
    <2> QED  BY <2>2, <2>3
  <1>5. \A s \in Submodules : s # at => sub'[s] = sub[s]
    BY <1>3 DEF Typed, TypeOK
  <1> QED  BY <1>3, <1>4, <1>5 DEF Final

\* And so has the superproject.
LEMMA FinalizeFinalized ==
    ASSUME Typed, FinalizeTracked, at = Super, on = "work"
    PROVE  Finalized'
  <1> DEFINE final == Checked("final")
             last == line["work"]
             clean == last # <<>> /\ Last(last).tree = final.tree /\ Last(last).links = final.links
  <1>1. last \in Seq(SuperCommits) /\ final \in SuperCommits
    BY HistoriesAre, CheckedTyped DEF Typed, TypeOK, Makers
  <1>2. final.tree = tree[Super] /\ final.links = [s \in Submodules |-> sub[s]]
    BY DEF Checked, SuperCommit
  <1>3. /\ UNCHANGED <<sub, tree>>
        /\ line'["work"] = IF clean THEN last ELSE Append(last, final)
    BY DEF FinalizeTracked, Typed, TypeOK
  <1> HIDE DEF final, last
  <1>4. CASE clean
    BY <1>2, <1>3, <1>4 DEF Finalized
  <1>5. CASE ~clean
    <2>1. Append(last, final) # <<>> /\ Last(Append(last, final)) = final
      BY <1>1, LastIs
    <2> HIDE DEF clean
    <2> QED  BY <1>2, <1>3, <1>5, <2>1 DEF Finalized
  <1> QED  BY <1>4, <1>5

LEMMA PackedStep ==
    Typed /\ SubmodulesPacked /\ [Next]_vars => SubmodulesPacked'
  <1> SUFFICES ASSUME Typed, SubmodulesPacked, [Next]_vars PROVE SubmodulesPacked'
    OBVIOUS
  <1>1. CASE pc' \notin Captures \cup {"returned"}
    BY <1>1 DEF SubmodulesPacked
  <1>t. at \in Repos /\ Submodules = Repos \ {Super} /\ Super = 0 /\ Subs \in Nat /\ Repos = 0 .. Subs
    BY RepositoriesAre DEF Typed, TypeOK, Super, Repos
  <1>2. ASSUME NEW c \in BaselineChoices, BeginCapture(c) PROVE SubmodulesPacked'
    <2>1. /\ pc' = "finalize" /\ at' = IF Subs = 0 THEN Super ELSE 1
          /\ DOMAIN prepared' = {"tip", "subs", "final"} /\ prepared'.subs = <<>>
      BY <1>2 DEF BeginCapture, NotPrepared
    <2> QED  BY <1>t, <2>1 DEF SubmodulesPacked, AtSubmodule, Captures
  <1>3. CASE FinalizeTracked /\ at # Super
    <2>1. /\ pc = "finalize" /\ pc' = "pack" /\ UNCHANGED <<at, prepared, line, on, tree>>
          /\ Final(at)' /\ \A s \in Submodules : s # at => sub'[s] = sub[s]
      BY <1>3, FinalizeFinal DEF FinalizeTracked
    <2>2. /\ DOMAIN prepared = {"tip", "subs", "final"} /\ prepared.subs \in Seq(SubHistory)
          /\ Len(prepared.subs) = at - 1
          /\ \A s \in 1 .. at - 1 : prepared.subs[s] = sub[s] /\ Final(s)
      BY <1>3, <2>1 DEF SubmodulesPacked, AtSubmodule, Captures
    <2>3. \A s \in 1 .. at - 1 : s \in Submodules /\ s # at
      BY <1>t
    <2>4. \A s \in 1 .. at - 1 : prepared.subs[s] = sub'[s] /\ Final(s)'
      BY <2>1, <2>2, <2>3 DEF Final
    <2> QED  BY <1>3, <2>1, <2>2, <2>4 DEF SubmodulesPacked, AtSubmodule
  <1>4. CASE FinalizeTracked /\ at = Super
    <2>1. /\ pc = "finalize" /\ pc' = "tip" /\ UNCHANGED <<at, sub, tree>>
          /\ \E final : prepared' = [prepared EXCEPT !.final = final]
      BY <1>4 DEF FinalizeTracked
    <2>2. DOMAIN prepared = {"tip", "subs", "final"}
      BY <2>1 DEF SubmodulesPacked, Captures
    <2>3. DOMAIN prepared' = DOMAIN prepared /\ prepared'.subs = prepared.subs
      BY <2>1, <2>2
    <2> QED  BY <1>4, <2>1, <2>3 DEF SubmodulesPacked, AtSubmodule, Captures, Final
  <1>5. CASE PackSubmodule
    <2>1. /\ pc = "pack" /\ at # Super /\ UNCHANGED <<sub, tree>> /\ pc' = "finalize"
          /\ prepared' = [prepared EXCEPT !.subs = Append(@, sub[at])]
          /\ at' = IF at = Subs THEN Super ELSE at + 1
      BY <1>5 DEF PackSubmodule, workspace
    <2>2. /\ DOMAIN prepared = {"tip", "subs", "final"} /\ prepared.subs \in Seq(SubHistory)
          /\ Len(prepared.subs) = at - 1 /\ Final(at) /\ sub[at] \in SubHistory
          /\ \A s \in 1 .. at - 1 : prepared.subs[s] = sub[s] /\ Final(s)
      BY <1>t, <2>1 DEF SubmodulesPacked, AtSubmodule, Captures, Typed, TypeOK
    <2>3. /\ DOMAIN prepared' = {"tip", "subs", "final"}
          /\ prepared'.subs = Append(prepared.subs, sub[at])
      BY <2>1, <2>2
    <2>4. /\ prepared'.subs \in Seq(SubHistory) /\ Len(prepared'.subs) = at
          /\ \A s \in 1 .. at - 1 : prepared'.subs[s] = prepared.subs[s]
          /\ prepared'.subs[at] = sub[at]
      BY <1>t, <2>2, <2>3, AppendTyped
    <2>5. \A s \in 1 .. at : prepared'.subs[s] = sub[s] /\ Final(s)
      <3>1. \A s \in 1 .. at : s = at \/ s \in 1 .. at - 1
        BY <1>t
      <3> QED  BY <2>2, <2>4, <3>1
    <2>6. Len(prepared'.subs) = IF at' # Super THEN at' - 1 ELSE Subs
      BY <1>t, <2>1, <2>4
    <2> QED  BY <2>1, <2>3, <2>4, <2>5, <2>6 DEF SubmodulesPacked, AtSubmodule, Final
  <1>6. CASE ResolveTip \/ RebaseSucceeds
    <2>1. /\ pc \in {"tip", "rebase"} /\ pc' \in {"prune", "pack", "publish"}
          /\ UNCHANGED <<at, sub, tree>>
          /\ \E tip : prepared' = [prepared EXCEPT !.tip = tip]
      BY <1>6 DEF ResolveTip, RebaseSucceeds, workspace
    <2>2. DOMAIN prepared = {"tip", "subs", "final"}
      BY <2>1 DEF SubmodulesPacked, Captures
    <2>3. DOMAIN prepared' = DOMAIN prepared /\ prepared'.subs = prepared.subs
      BY <2>1, <2>2
    <2> QED  BY <2>1, <2>3 DEF SubmodulesPacked, AtSubmodule, Captures, Final
  <1>7. CASE AddCheckout \/ PublishReplay \/ PackSuperproject \/ HandOver
    <2>1. /\ pc \in {"prune", "publish", "done"} \/ (pc = "pack" /\ at = Super)
          /\ pc' \in {"rebase", "pack", "done", "returned"} /\ UNCHANGED <<at, sub, tree, prepared>>
      BY <1>7 DEF AddCheckout, PublishReplay, PackSuperproject, HandOver, workspace
    <2> QED  BY <2>1 DEF SubmodulesPacked, AtSubmodule, Captures, Final
  <1>8. CASE UNCHANGED vars
    BY <1>8 DEF vars, workspace, SubmodulesPacked, AtSubmodule, Final
  <1>9. ASSUME \/ BeginPrepare \/ ReadHead \/ BundleHead \/ DiffFromHead \/ RecheckHead
               \/ HeadHasMoved \/ MaterializeRefuses \/ Materialize
               \/ \E r \in Repos : \/ UserEdits(r) \/ UserCommits(r) \/ UserGoesBack(r)
                                   \/ AgentEdits(r) \/ AgentCommits(r) \/ AgentTakesBack(r)
               \/ AgentSwitches \/ RebaseConflicts \/ CaptureRefuses
               \/ CaptureFails \/ CaptureKilled \/ NotImported
        PROVE  pc' \notin Captures \cup {"returned"}
    BY <1>9, ThenTyped
    DEF BeginPrepare, ReadHead, BundleHead, DiffFromHead, RecheckHead, HeadHasMoved,
        MaterializeRefuses, PackageRemoved, Materialize, UserEdits, UserCommits, UserGoesBack, Edits,
        Preparing, AgentEdits, AgentCommits, AgentTakesBack, AgentSwitches, Turns, RebaseConflicts,
        CaptureRefuses, Refused, CaptureFails, CaptureKilled, NotImported, CaptureEnds, Captures
  <1> QED
    BY <1>1, <1>2, <1>3, <1>4, <1>5, <1>6, <1>7, <1>8, <1>9 DEF Next, Captured

\* With every submodule handed over, the tip of a finalized history is the work.
LEMMA TipKept ==
    ASSUME Typed, SubmodulesPacked, ResolveTip, choice = "keep", Finalized
    PROVE  TipIsWhole'
  <1>1. /\ pc = "tip" /\ UNCHANGED <<choice, line, sub, tree, stage>>
        /\ prepared' = [prepared EXCEPT !.tip = line["work"]]
    BY DEF ResolveTip, workspace
  <1>2. /\ DOMAIN prepared = {"tip", "subs", "final"}
        /\ \A s \in Submodules : prepared.subs[s] = sub[s]
    BY <1>1 DEF SubmodulesPacked, AtSubmodule, Captures, Submodules
  <1>3. prepared'.tip = line["work"] /\ prepared'.subs = prepared.subs
    BY <1>1, <1>2
  <1> QED  BY <1>1, <1>2, <1>3 DEF TipIsWhole, Finalized

\* And so is what a replay makes of it, without the baseline.
LEMMA TipReplayed ==
    ASSUME Typed, RunsHistory, SubmodulesPacked, TipTaken, RebaseSucceeds, on = "work"
    PROVE  TipIsWhole'
  <1> DEFINE h == line["work"]
             tip == Replayed(h)
  <1>1. /\ pc = "rebase" /\ UNCHANGED <<choice, line, sub, tree, stage>> /\ ~PointersCollide(h)
        /\ prepared' = [prepared EXCEPT !.tip = tip]
    BY DEF RebaseSucceeds, workspace
  <1>2. /\ DOMAIN prepared = {"tip", "subs", "final"}
        /\ \A s \in Submodules : prepared.subs[s] = sub[s]
    BY <1>1 DEF SubmodulesPacked, AtSubmodule, Captures, Submodules
  <1>3. prepared'.tip = tip /\ prepared'.subs = prepared.subs
    BY <1>1, <1>2
  <1>4. /\ choice = "drop" /\ StagedFirst(h, Super) /\ carried = {Super} /\ HasBaseline(h)
        /\ h # <<>> /\ Last(h).tree = tree[Super] /\ Last(h).links = [s \in Submodules |-> sub[s]]
    BY <1>1 DEF TipTaken, Replayable, Finalized
  <1>5. /\ stage.head[1].tree \subseteq UserChanges
        /\ StandsOnBaseline(h, tree[Super], carried)
    BY <1>1 DEF RunsHistory, Running, Captures
  <1>6. h \in SuperHistory /\ Len(h) \in Nat /\ Len(h) > 1 /\ h[1] = stage.head[1] /\ Last(h) = h[Len(h)]
    BY <1>4, HistoriesAre DEF Typed, TypeOK, StagedFirst, HasBaseline, Super, Last
  <1> HIDE DEF h
  <1>7. \A s \in Submodules : Len(h[2].links[s]) = 1
    BY <1>4, <1>5 DEF StandsOnBaseline, Super, Submodules
  <1>8. Stacked(h)
    <2>1. \A i \in 2 .. Len(h) : h[i].tree \cap UserChanges = h[2].tree \cap UserChanges
      BY <1>5, <1>6 DEF StandsOnBaseline
    <2>2. h[2].tree \subseteq UserChanges /\ \A i \in 3 .. Len(h) : h[i].by # "baseline"
      BY <1>4, <1>5 DEF StandsOnBaseline
    <2> QED  BY <1>1, <1>5, <1>6, <2>1, <2>2 DEF Stacked
  <1>9. PickedSoFar(h, Len(h) - 1, tip)
    BY <1>8, ReplayIsTheRest
  <1> HIDE DEF tip
  <1>10. Len(tip) = Len(h) - 1 /\ Last(tip) = tip[Len(h) - 1] /\ (Len(h) - 1) + 1 = Len(h)
    BY <1>6, <1>9 DEF PickedSoFar, Last
  <1>11. ~HasBaseline(tip)
    BY <1>6, <1>9, <1>10 DEF PickedSoFar, HasBaseline
  <1>12. Last(tip).tree = (tree[Super] \cap AgentChanges) \cup stage.head[1].tree
    BY <1>4, <1>6, <1>9, <1>10 DEF PickedSoFar
  <1>13. ASSUME NEW s \in Submodules
         PROVE  Last(tip).links[s] = sub[s] \/ Len(sub[s]) = 1
    <2>1. Last(h).links[s] = sub[s]
      BY <1>4
    <2>2. Last(tip).links[s] = h[Len(h)].links[s] \/ h[Len(h)].links[s] = h[2].links[s]
      BY <1>9, <1>10 DEF PickedSoFar
    <2> QED  BY <1>6, <1>7, <2>1, <2>2
  <1> QED  BY <1>1, <1>2, <1>3, <1>4, <1>11, <1>12, <1>13 DEF TipIsWhole

LEMMA TipStep ==
    Typed /\ RunsHistory /\ SubmodulesPacked /\ TipTaken /\ [Next]_vars => TipTaken'
  <1> SUFFICES ASSUME Typed, RunsHistory, SubmodulesPacked, TipTaken, [Next]_vars PROVE TipTaken'
    OBVIOUS
  <1>1. CASE pc' \notin {"tip", "prune", "rebase"} /\ ~AfterTip'
    BY <1>1 DEF TipTaken
  <1>2. CASE FinalizeTracked
    <2>1. CASE at # Super
      BY <1>1, <2>1, <1>2, FinalizeFinal DEF AfterTip
    <2>2. CASE at = Super
      <3>1. pc' = "tip" /\ on' = on
        BY <1>2, <2>2 DEF FinalizeTracked
      <3> QED  BY <1>2, <2>2, <3>1, FinalizeFinalized DEF TipTaken, AfterTip
    <2> QED  BY <2>1, <2>2
  <1>3. CASE ResolveTip
    <2>1. /\ pc = "tip" /\ UNCHANGED <<choice, on, at, line, sub, tree, stage>>
          /\ StagedFirst(line["work"], Super)
          /\ pc' = IF choice = "drop" THEN "prune" ELSE "pack"
      BY <1>3 DEF ResolveTip, workspace
    <2>2. on = "work" => Finalized /\ Finalized'
      BY <2>1 DEF TipTaken, Finalized
    <2>3. choice = "keep" /\ on = "work" => TipIsWhole'
      BY <1>3, <2>2, TipKept
    <2>4. StagedFirst(line["work"], Super)'
      BY <2>1 DEF StagedFirst
    <2>5. choice \in {"keep", "drop"}
      BY DEF Typed, TypeOK, BaselineChoices
    <2> QED  BY <2>1, <2>2, <2>3, <2>4, <2>5 DEF TipTaken, AfterTip
  <1>4. CASE AddCheckout
    <2>1. /\ pc = "prune" /\ pc' = "rebase" /\ UNCHANGED <<choice, on, line, sub, tree, stage, carried>>
          /\ Replayable
      BY <1>4 DEF AddCheckout, workspace
    <2> QED
      BY <2>1 DEF TipTaken, AfterTip, Finalized, StagedFirst, Replayable
  <1>5. CASE RebaseSucceeds
    <2>1. /\ pc = "rebase" /\ pc' = "publish" /\ UNCHANGED <<on, line, sub, tree>>
      BY <1>5 DEF RebaseSucceeds, workspace
    <2>2. on = "work" => Finalized'
      BY <2>1 DEF TipTaken, Finalized
    <2>3. on = "work" => TipIsWhole'
      BY <1>5, TipReplayed
    <2> QED  BY <2>1, <2>2, <2>3 DEF TipTaken
  <1>6. CASE PublishReplay \/ PackSuperproject \/ HandOver
    <2>1. /\ AfterTip /\ pc' \in {"pack", "done", "returned"}
          /\ UNCHANGED <<choice, on, line, sub, tree, stage, prepared>>
      BY <1>6 DEF PublishReplay, PackSuperproject, HandOver, AfterTip, workspace
    <2>2. on = "work" => Finalized' /\ TipIsWhole'
      BY <2>1 DEF TipTaken, Finalized, TipIsWhole
    <2> QED  BY <2>1, <2>2 DEF TipTaken
  <1>7. CASE UNCHANGED vars
    BY <1>7
    DEF vars, workspace, TipTaken, AfterTip, Finalized, TipIsWhole, StagedFirst, Replayable
  <1>8. ASSUME \/ \E c \in BaselineChoices : BeginCapture(c)
               \/ PackSubmodule \/ RebaseConflicts \/ CaptureRefuses
               \/ CaptureFails \/ CaptureKilled \/ NotImported
               \/ \E r \in Repos : \/ UserEdits(r) \/ UserCommits(r) \/ UserGoesBack(r)
                                   \/ AgentEdits(r) \/ AgentCommits(r) \/ AgentTakesBack(r)
               \/ AgentSwitches
               \/ BeginPrepare \/ ReadHead \/ BundleHead \/ DiffFromHead \/ RecheckHead
               \/ HeadHasMoved \/ MaterializeRefuses \/ Materialize
        PROVE  pc' \notin {"tip", "prune", "rebase"} /\ ~AfterTip'
    BY <1>8, ThenTyped
    DEF BeginCapture, PackSubmodule, RebaseConflicts, CaptureRefuses, Refused, CaptureFails,
        CaptureKilled, NotImported, CaptureEnds, UserEdits, UserCommits, UserGoesBack, Edits,
        Preparing, AgentEdits, AgentCommits, AgentTakesBack, AgentSwitches, Turns, BeginPrepare,
        ReadHead, BundleHead, DiffFromHead, RecheckHead, HeadHasMoved, MaterializeRefuses,
        PackageRemoved, Materialize, AfterTip
  <1> QED
    BY <1>1, <1>2, <1>3, <1>4, <1>5, <1>6, <1>7, <1>8 DEF Next, Captured

\* What a capture hands over, after any number of attempts that were refused, failed
\* or were killed, is the run's work and all of it; without the baseline, exactly what
\* was not the baseline.
THEOREM CapturesReturnTheWork == Spec => []ReturnsTheRunsWork
  <1>1. WorkSound /\ [Next]_vars => WorkSound'
    BY TypedStep, MacStep, HistoryStep, PackedStep, TipStep DEF WorkSound
  <1>2. WorkSound => ReturnsTheRunsWork
    <2> SUFFICES ASSUME WorkSound, pc = "returned", on = "work" PROVE ReturnsTheRunsWork
      BY DEF ReturnsTheRunsWork
    <2>1. /\ TipIsWhole
          /\ \A s \in Submodules : prepared.subs[s] = sub[s] /\ Last(sub[s]).tree = tree[s]
      BY DEF WorkSound, TipTaken, AfterTip, SubmodulesPacked, AtSubmodule, Submodules, Final
    <2> QED  BY <2>1 DEF ReturnsTheRunsWork, TipIsWhole
  <1> QED  BY InitWork, <1>1, <1>2, PTL DEF Spec
==============================================================================
