------------------------- MODULE IncludedFilesProofs -------------------------
(***************************************************************************)
(* Theorems about IncludedFiles, for any paths, roots, contents and bounds.*)
(***************************************************************************)
EXTENDS IncludedFiles, TLAPS

Stored == Contents \cup {"absent"}

\* The counter that tells the user's steps from the others.
Counted == spent \in [edits : Nat, turns : Nat, mishaps : Nat]

Typed == TypeOK /\ Counted

LEMMA InitTyped == Init => Typed
  <1> SUFFICES ASSUME Init PROVE Typed
    OBVIOUS
  <1>1. host \in [Paths -> Held] /\ tracked \subseteq Paths
    BY ContentsAssumption DEF Init, Held, Contents, There
  <1>2. Nothing \in [Paths -> Contents \cup {"absent"}]
    BY DEF Nothing
  <1>3. listed \in [files : SUBSET Paths, whole : SUBSET Dirs] /\ Counted
    BY DEF Init, NothingListed, Counted
  <1>4. run \in [Paths -> Contents \cup {"absent", "special"}]
    BY DEF Init, Nothing
  <1> QED  BY <1>1, <1>2, <1>3, <1>4 DEF Init, Typed, TypeOK

\* What can be described is a file or a link.
LEMMA DescribedTyped ==
    ASSUME NEW tree, NEW paths \in SUBSET Paths, Describable(tree, paths)
    PROVE  \A p \in paths : tree[p] \in Contents
  BY DEF Describable

LEMMA CopiedTyped ==
    ASSUME TypeOK, NEW p \in Paths PROVE Copied(p) \subseteq Contents
  BY DEF Copied, Contents

\* A step that leaves what is staged alone.
LEMMA LaterStepTyped ==
    ASSUME Typed, UNCHANGED <<stage, tracked>>, host' \in [Paths -> Held],
           run' \in [Paths -> Contents \cup {"absent", "special"}], committed' \subseteq Paths,
           outputs' \in [Paths -> Contents \cup {"absent"}],
           pc' \in {"working", "returned", "placing", "linking", "done", "refused"} \cup {pc},
           {todo', forced', edited', raced'} \subseteq SUBSET Paths, Counted'
    PROVE  Typed'
  BY DEF Typed, TypeOK, stage

LEMMA MatchesTyped ==
    ASSUME TypeOK, NEW names \in SUBSET Roots
    PROVE  UNION {Matches(r) : r \in names} \subseteq Paths
  BY RootsAssumption DEF Matches, TypeOK, There, Roots

LEMMA TypedStep == Typed /\ [Next]_vars => Typed'
  <1> SUFFICES ASSUME Typed, [Next]_vars PROVE Typed'
    OBVIOUS
  <1>t. TypeOK /\ Counted
    BY DEF Typed
  <1>1. CASE ListExcludedInputs
    <2>1. listed' \in [files : SUBSET Paths, whole : SUBSET Dirs]
      BY <1>1 DEF ListExcludedInputs, There
    <2> QED  BY <1>1, <1>t, <2>1
             DEF ListExcludedInputs, source, workspace, plan, history, Typed, TypeOK, Counted
  <1>2. ASSUME NEW include \in SUBSET Roots, NEW unsafe \in SUBSET Roots, Select(include, unsafe)
        PROVE  Typed'
    <2> DEFINE chosen == UNION {Matches(r) : r \in include \cup unsafe}
    <2>1. chosen \subseteq Paths
      BY <1>t, MatchesTyped
    <2>2. \A p \in chosen : host[p] \in Contents
      BY <1>2, <2>1, DescribedTyped DEF Select, Admits
    <2>3. inputs' \in [Paths -> Contents \cup {"absent"}]
      BY <1>2, <2>2 DEF Select
    <2>4. listed' \in [files : SUBSET Paths, whole : SUBSET Dirs]
      BY <1>2 DEF Select, NothingListed
    <2> QED  BY <1>2, <1>t, <2>3, <2>4
             DEF Select, source, workspace, plan, history, Typed, TypeOK, Counted
  <1>3. CASE Prepare
    <2>1. bundled' \in [Paths -> Contents \cup {"absent"}] /\ todo' \in SUBSET Paths
      BY <1>3 DEF Prepare, Carried
    <2> QED  BY <1>3, <1>t, <2>1
             DEF Prepare, source, workspace, history, Typed, TypeOK, Counted
  <1>4. ASSUME NEW p \in Paths, ArchiveInput(p) PROVE Typed'
    <2>1. archive' \in [Paths -> Contents \cup {"absent"}]
      BY <1>4, <1>t, CopiedTyped DEF ArchiveInput, TypeOK
    <2>2. todo' \in SUBSET Paths
      BY <1>4, <1>t DEF ArchiveInput, TypeOK
    <2> QED  BY <1>4, <1>t, <2>1, <2>2
             DEF ArchiveInput, source, workspace, history, Typed, TypeOK, Counted
  <1>5. CASE Materialize
    <2>1. /\ run' \in [Paths -> Contents \cup {"absent", "special"}] /\ committed' \subseteq Paths
          /\ bundled' \in [Paths -> Contents \cup {"absent"}]
      BY <1>5, <1>t DEF Materialize, Bundled, Nothing, TypeOK
    <2> QED  BY <1>5, <1>t, <2>1
             DEF Materialize, source, plan, history, Typed, TypeOK, Counted
  <1>6. CASE \/ \E include, unsafe \in SUBSET Roots : SelectRefuses(include, unsafe)
             \/ \E p \in Paths : ArchiveRefuses(p)
             \/ MaterializeRefuses \/ CaptureRefuses \/ ClearReturned
    BY <1>6, <1>t
    DEF SelectRefuses, ArchiveRefuses, MaterializeRefuses, CaptureRefuses, ClearReturned, source,
        stage, workspace, plan, history, Typed, TypeOK, Counted
  <1>7. ASSUME NEW p \in Paths, AgentWrites(p) \/ AgentTracks(p) PROVE Typed'
    <2>1. run' \in [Paths -> Contents \cup {"absent", "special"}] /\ committed' \subseteq Paths
      BY <1>7, <1>t DEF AgentWrites, AgentTracks, TypeOK
    <2>2. Counted' /\ UNCHANGED <<pc, source, stage, outputs, plan, history>>
      BY <1>7, <1>t DEF AgentWrites, AgentTracks, Turns, Counted
    <2> QED  BY <1>t, <2>1, <2>2, LaterStepTyped DEF TypeOK, source, plan, history
  <1>8. CASE CaptureIncludedOutputs
    <2>1. outputs' \in [Paths -> Contents \cup {"absent"}]
      <3>1. Returning \in SUBSET Paths
        BY DEF Returning, There
      <3> QED  BY <1>8, <3>1, DescribedTyped DEF CaptureIncludedOutputs
    <2> QED  BY <1>8, <1>t, <2>1, LaterStepTyped
             DEF CaptureIncludedOutputs, TypeOK, source, workspace, plan, history, Counted
  <1>9. ASSUME NEW force \in BOOLEAN, CopyBack(force) PROVE Typed'
    <2>1. todo' \in SUBSET Paths /\ forced' \in SUBSET Paths /\ raced' = {} /\ edited' = edited
      BY <1>9 DEF CopyBack, Writes, Conflicts, Returned
    <2> QED  BY <1>9, <1>t, <2>1, LaterStepTyped
             DEF CopyBack, TypeOK, source, workspace, history, Counted
  <1>10. ASSUME NEW p \in Paths, PlaceFile(p) \/ RemoveForLink(p) \/ PlaceLink(p) PROVE Typed'
    <2>1. host' \in [Paths -> Held] /\ todo' \in SUBSET Paths /\ pc' \in {"placing", "linking"} \cup {pc}
      BY <1>10, <1>t DEF PlaceFile, RemoveForLink, PlaceLink, Wrote, TypeOK, Held
    <2>2. UNCHANGED <<tracked, stage, workspace, outputs, forced, history, spent>>
      BY <1>10 DEF PlaceFile, RemoveForLink, PlaceLink, Wrote
    <2> QED  BY <1>t, <2>1, <2>2, LaterStepTyped DEF TypeOK, workspace, history, Counted
  <1>11. CASE CopyIsCut \/ \E p \in Paths : PlaceFails(p)
    <2>1. CopyEnds /\ Counted'
      BY <1>11, <1>t DEF CopyIsCut, PlaceFails, Counted
    <2> QED  BY <1>t, <2>1, LaterStepTyped DEF CopyEnds, TypeOK, source, workspace, history
  <1>12. ASSUME NEW p \in Paths, UserWrites(p) \/ UserTracks(p) PROVE Typed'
    <2>1. host' \in [Paths -> Held] /\ tracked' \subseteq Paths
      BY <1>12, <1>t DEF UserWrites, UserTracks, TypeOK
    <2>2. edited' \in SUBSET Paths /\ raced' \in SUBSET Paths /\ Counted'
      BY <1>12, <1>t DEF UserWrites, UserTracks, Edits, history, TypeOK, Counted
    <2> QED  BY <1>12, <1>t, <2>1, <2>2
             DEF UserWrites, UserTracks, stage, workspace, plan, history, Typed, TypeOK
  <1>13. CASE UNCHANGED vars
    BY <1>13, <1>t DEF vars, source, stage, workspace, plan, history, Typed, TypeOK, Counted
  <1> QED
    BY <1>1, <1>2, <1>3, <1>4, <1>5, <1>6, <1>7, <1>8, <1>9, <1>10, <1>11, <1>12, <1>13
    DEF Next, Written

\* Every path keeps something a path can hold, on the Mac, in the run and between.
THEOREM TypeCorrect == Spec => []TypeOK
  <1>1. Typed => TypeOK
    BY DEF Typed
  <1> QED  BY InitTyped, TypedStep, <1>1, PTL DEF Spec

(***************************************************************************)
(* The Mac's work is kept.                                                 *)
(***************************************************************************)
Copying == pc \in {"placing", "linking"}

\* Every path that is still to be written holds what was included there, or nothing,
\* or is one the user overrode or has just changed.
PlanSound ==
    Typed /\ (Copying => \A p \in todo : host[p] \in {"absent", inputs[p]} \/ p \in forced \cup raced)

\* The steps that write to the Mac without the user: a copy-back's.
LEMMA OnlyCopyWrites ==
    ASSUME Typed, Next
    PROVE  \/ UNCHANGED host
           \/ \E p \in Paths : UserWrites(p)
           \/ \E p \in Paths : PlaceFile(p) \/ RemoveForLink(p) \/ PlaceLink(p)
  BY DEF Next, Written, ListExcludedInputs, Select, SelectRefuses, Prepare, Materialize,
         MaterializeRefuses, ArchiveInput, ArchiveRefuses, CaptureIncludedOutputs, CaptureRefuses,
         CopyBack, PlaceFails, ClearReturned, CopyIsCut, CopyEnds, AgentWrites, AgentTracks,
         UserTracks, source

\* The steps during which a copy-back stays under way.
LEMMA WhileCopying ==
    ASSUME Typed, Next, Copying'
    PROVE  \/ \E force \in BOOLEAN : CopyBack(force)
           \/ \E p \in Paths : UserWrites(p) /\ Copying
           \/ \E p \in Paths : PlaceFile(p) \/ RemoveForLink(p) \/ PlaceLink(p)
  BY DEF Next, Written, ListExcludedInputs, Select, SelectRefuses, Prepare, Materialize, Copying,
         MaterializeRefuses, ArchiveInput, ArchiveRefuses, CaptureIncludedOutputs, CaptureRefuses,
         CopyBack, PlaceFails, ClearReturned, CopyIsCut, CopyEnds, AgentWrites, AgentTracks,
         Turns, UserWrites, UserTracks

LEMMA InitPlan == Init => PlanSound
  BY InitTyped DEF Init, PlanSound, Copying

\* One write of a copy-back: the foremost path changes, the rest of the plan stays.
LEMMA WriteIs ==
    ASSUME Typed, NEW p \in Paths, PlaceFile(p) \/ RemoveForLink(p) \/ PlaceLink(p)
    PROVE  /\ Copying /\ p \in todo /\ spent' = spent
           /\ UNCHANGED <<inputs, outputs, forced, before, edited, raced>>
           /\ \A q \in Paths \ {p} : host'[q] = host[q]
           /\ \/ todo' = todo \ {p} /\ host'[p] = outputs[p]
              \/ todo' = todo /\ host'[p] = "absent"
  BY DEF PlaceFile, RemoveForLink, PlaceLink, Placing, Foremost, Wrote, Copying, stage, history,
         Typed, TypeOK

LEMMA PlanStep ==
    PlanSound /\ [Next]_vars =>
      /\ PlanSound'
      /\ \A p \in Paths : (host'[p] # host[p] /\ spent'.edits = spent.edits) =>
                              host[p] \in {"absent", inputs[p]} \/ p \in forced \cup raced
  <1> SUFFICES ASSUME PlanSound, Next
               PROVE  /\ PlanSound'
                      /\ \A p \in Paths : (host'[p] # host[p] /\ spent'.edits = spent.edits) =>
                              host[p] \in {"absent", inputs[p]} \/ p \in forced \cup raced
    <2>1. CASE UNCHANGED vars
      BY <2>1, TypedStep DEF vars, source, stage, plan, history, PlanSound, Copying
    <2> QED  BY <2>1
  <1>t. Typed /\ Typed' /\ Counted
    BY TypedStep DEF PlanSound, Typed
  <1>1. ASSUME NEW p \in Paths, PlaceFile(p) \/ RemoveForLink(p) \/ PlaceLink(p)
        PROVE  /\ PlanSound'
               /\ \A q \in Paths : host'[q] # host[q] =>
                       host[q] \in {"absent", inputs[q]} \/ q \in forced \cup raced
    <2>1. todo \subseteq Paths
      BY <1>t DEF Typed, TypeOK
    <2> QED  BY <1>1, <1>t, <2>1, WriteIs DEF PlanSound
  <1>2. ASSUME NEW p \in Paths, UserWrites(p)
        PROVE  PlanSound' /\ spent'.edits # spent.edits
    <2>1. /\ UNCHANGED <<pc, inputs, todo, forced>> /\ raced' = raced \cup {p}
          /\ \A q \in Paths \ {p} : host'[q] = host[q]
      BY <1>2, <1>t DEF UserWrites, stage, plan, Typed, TypeOK
    <2>2. spent'.edits # spent.edits
      BY <1>2, <1>t DEF UserWrites, Edits, Counted
    <2>3. todo \subseteq Paths
      BY <1>t DEF Typed, TypeOK
    <2> QED  BY <1>t, <2>1, <2>2, <2>3 DEF PlanSound, Copying
  <1>3. ASSUME NEW force \in BOOLEAN, CopyBack(force) PROVE PlanSound' /\ UNCHANGED host
    <2>1. \A q \in Writes : host[q] \in {"absent", inputs[q]}
      BY DEF Writes, UntouchedHere
    <2>2. todo' = Writes \cup forced' /\ UNCHANGED <<host, inputs>>
      BY <1>3 DEF CopyBack, source, stage
    <2> QED  BY <1>t, <2>1, <2>2 DEF PlanSound
  <1>4. CASE ~Copying' /\ UNCHANGED host
    BY <1>4, <1>t DEF PlanSound
  <1> QED  BY <1>t, <1>1, <1>2, <1>3, <1>4, OnlyCopyWrites, WhileCopying

\* A copy-back replaces what was included and nothing else, but for the conflicts the
\* user overrode and the edits made behind its back.
THEOREM CopyBackKeepsTheMacsWork == Spec => KeepsTheMacsWork
  <1>1. PlanSound /\ [Next]_vars =>
          [\A p \in Paths :
             (host'[p] # host[p] /\ spent'.edits = spent.edits) =>
                 host[p] \in {"absent", inputs[p]} \/ p \in forced \cup raced]_vars
    BY PlanStep
  <1>2. PlanSound /\ [Next]_vars => PlanSound'
    BY PlanStep
  <1> QED  BY InitPlan, <1>1, <1>2, PTL DEF Spec, KeepsTheMacsWork

(***************************************************************************)
(* Attempts add up to one copy.                                            *)
(***************************************************************************)
\* What one undisturbed copy leaves at a path, and whether it writes it.
TakesTheRuns(p) == p \in Returned /\ (before[1][p] \notin Contents \/ outputs[p] # inputs[p])
Merged(p) == IF TakesTheRuns(p) THEN outputs[p] ELSE before[1][p]

\* Wherever the attempts so far were cut, a path the user let alone is as it was, as it
\* will be, or removed to be linked anew; and what is planned is what is missing.
MergeSound ==
    before # <<>> =>
      /\ pc \in {"returned", "placing", "linking", "done"}
      /\ \A p \in Paths \ edited :
           /\ \/ host[p] \in {before[1][p], Merged(p)}
              \/ host[p] = "absent" /\ TakesTheRuns(p)
           /\ Copying => IF p \in todo THEN TakesTheRuns(p) ELSE host[p] = Merged(p)
           /\ pc = "done" => host[p] = Merged(p)

CopySound == Typed /\ MergeSound

LEMMA InitCopy == Init => CopySound
  BY InitTyped DEF Init, CopySound, MergeSound

\* The plan of an attempt, for a path the user let alone since the first one.
LEMMA PlanIsWhatIsMissing ==
    ASSUME Typed, NEW force \in BOOLEAN, CopyBack(force), NEW p \in Paths, NEW b, before'[1][p] = b,
           \/ host[p] = b
           \/ /\ p \in Returned /\ (b \notin Contents \/ outputs[p] # inputs[p])
              /\ host[p] \in {"absent", outputs[p]}
    PROVE  IF p \in todo' THEN TakesTheRuns(p)' ELSE host[p] = Merged(p)'
  <1>1. /\ UNCHANGED <<host, outputs, inputs>>
        /\ p \in todo' <=> p \in Writes \/ (force /\ p \in Conflicts)
        /\ p \in Conflicts => force
    BY DEF CopyBack, source, stage
  <1>2. Returned' = Returned /\ (p \in Returned => outputs[p] # "absent")
    BY <1>1 DEF Returned
  <1>3. p \in Writes <=> /\ p \in Returned
                         /\ \/ host[p] = "absent"
                            \/ host[p] # outputs[p] /\ host[p] \in Contents /\ host[p] = inputs[p]
    BY DEF Writes, UntouchedHere, Returned
  <1>4. p \in Conflicts <=> /\ p \in Returned /\ p \notin Writes
                            /\ host[p] # outputs[p]
                            /\ ~(host[p] \in Contents /\ outputs[p] = inputs[p])
    BY DEF Conflicts, UnchangedByRun, Returned
  <1>5. TakesTheRuns(p)' <=> p \in Returned /\ (b \notin Contents \/ outputs[p] # inputs[p])
    BY <1>1, <1>2 DEF TakesTheRuns
  <1>6. Merged(p)' = IF TakesTheRuns(p)' THEN outputs[p] ELSE b
    BY <1>1 DEF Merged
  <1>7. "absent" \notin Contents
    BY ContentsAssumption DEF Contents
  <1> QED  BY <1>1, <1>2, <1>3, <1>4, <1>5, <1>6, <1>7

LEMMA CopyStep == CopySound /\ [Next]_vars => CopySound'
  <1> SUFFICES ASSUME CopySound, Next PROVE CopySound'
    <2>1. CASE UNCHANGED vars
      BY <2>1, TypedStep
      DEF vars, source, stage, plan, history, CopySound, MergeSound, Copying, TakesTheRuns, Merged,
          Returned
    <2> QED  BY <2>1
  <1>t. Typed /\ Typed'
    BY TypedStep DEF CopySound
  <1>s. ASSUME UNCHANGED <<inputs, outputs, before>>, NEW p \in Paths
        PROVE  (TakesTheRuns(p)' <=> TakesTheRuns(p)) /\ Merged(p)' = Merged(p)
    BY <1>s DEF TakesTheRuns, Merged, Returned
  <1>1. ASSUME NEW p \in Paths, PlaceFile(p) \/ RemoveForLink(p) \/ PlaceLink(p) PROVE CopySound'
    <2>1. MergeSound'
      <3> SUFFICES ASSUME before # <<>>, NEW q \in Paths \ edited
          PROVE  /\ \/ host'[q] \in {before[1][q], Merged(q)}
                    \/ host'[q] = "absent" /\ TakesTheRuns(q)
                 /\ IF q \in todo' THEN TakesTheRuns(q) ELSE host'[q] = Merged(q)
        <4>1. pc' \in {"placing", "linking"}
          BY <1>1 DEF PlaceFile, RemoveForLink, PlaceLink, Placing
        <4> QED  BY <1>1, <1>s, <4>1, WriteIs, <1>t DEF MergeSound
      <3>1. Copying /\ MergeSound
        BY <1>1, <1>t, WriteIs DEF CopySound
      <3>2. CASE q = p
        BY <1>1, <1>t, <3>1, <3>2, WriteIs DEF MergeSound, Merged
      <3>3. CASE q # p
        BY <1>1, <1>t, <3>1, <3>3, WriteIs DEF MergeSound
      <3> QED  BY <3>2, <3>3
    <2> QED  BY <1>t, <2>1 DEF CopySound
  <1>2. ASSUME NEW p \in Paths, UserWrites(p) PROVE CopySound'
    <2>1. /\ UNCHANGED <<pc, inputs, outputs, before, todo>>
          /\ \A q \in Paths \ {p} : host'[q] = host[q]
          /\ before # <<>> => edited' = edited \cup {p}
          /\ pc # "done"
      BY <1>2, <1>t DEF UserWrites, Edits, stage, plan, Typed, TypeOK
    <2> QED  BY <1>t, <1>s, <2>1 DEF CopySound, MergeSound, Copying
  <1>3. ASSUME NEW force \in BOOLEAN, CopyBack(force) PROVE CopySound'
    <2>1. /\ UNCHANGED <<host, inputs, outputs, edited>> /\ pc' = "placing"
          /\ before' = IF before = <<>> THEN <<host>> ELSE before
      BY <1>3 DEF CopyBack, source, stage
    <2>2. ASSUME NEW p \in Paths \ edited
          PROVE  /\ \/ host[p] \in {before'[1][p], Merged(p)'}
                    \/ host[p] = "absent" /\ TakesTheRuns(p)'
                 /\ IF p \in todo' THEN TakesTheRuns(p)' ELSE host[p] = Merged(p)'
      <3>1. CASE before = <<>>
        <4>1. before'[1][p] = host[p]
          BY <2>1, <3>1
        <4> QED  BY <1>3, <1>t, <4>1, PlanIsWhatIsMissing
      <3>2. CASE before # <<>>
        <4>1. \/ host[p] = before[1][p]
              \/ TakesTheRuns(p) /\ host[p] \in {"absent", outputs[p]}
          BY <3>2 DEF CopySound, MergeSound, Merged
        <4>2. IF p \in todo' THEN TakesTheRuns(p)' ELSE host[p] = Merged(p)'
          BY <1>3, <1>t, <2>1, <3>2, <4>1, PlanIsWhatIsMissing DEF TakesTheRuns
        <4>3. before' = before
          BY <2>1, <3>2
        <4> QED  BY <1>s, <2>1, <4>1, <4>2, <4>3 DEF Merged
      <3> QED  BY <3>1, <3>2
    <2>3. MergeSound'
      BY <2>1, <2>2 DEF MergeSound
    <2> QED  BY <1>t, <2>3 DEF CopySound
  <1>4. CASE ~Copying' /\ UNCHANGED host
    <2>1. before' = before
      BY <1>4
      DEF Next, Written, ListExcludedInputs, Select, SelectRefuses, Prepare, Materialize, Copying,
          MaterializeRefuses, ArchiveInput, ArchiveRefuses, CaptureIncludedOutputs, CaptureRefuses,
          CopyBack, PlaceFile, RemoveForLink, PlaceLink, Wrote, PlaceFails, ClearReturned, CopyIsCut,
          CopyEnds, AgentWrites, AgentTracks, UserWrites, UserTracks, history
    <2>2. CASE before = <<>>
      BY <1>t, <2>1, <2>2 DEF CopySound, MergeSound
    <2>3. CASE before # <<>>
      <3>1. pc \in {"returned", "placing", "linking", "done"}
        BY <2>3 DEF CopySound, MergeSound
      <3>2. CopyIsCut \/ (\E p \in Paths : PlaceFails(p)) \/ ClearReturned
        <4>1. ~(\E p \in Paths : UserWrites(p))
          BY <1>4, <1>t DEF UserWrites, Typed, TypeOK
        <4>2. ~(\E p \in Paths : PlaceFile(p) \/ RemoveForLink(p) \/ PlaceLink(p))
          BY <1>4 DEF PlaceFile, RemoveForLink, PlaceLink, Placing, Copying
        <4> QED
          BY <1>4, <3>1, <4>1, <4>2
          DEF Next, Written, ListExcludedInputs, Select, SelectRefuses, Prepare, Materialize,
              MaterializeRefuses, ArchiveInput, ArchiveRefuses, CaptureIncludedOutputs,
              CaptureRefuses, CopyBack, AgentWrites, AgentTracks, Turns, UserTracks, Copying
      <3>3. /\ UNCHANGED <<inputs, outputs, edited>>
            /\ \/ pc' = "returned"
               \/ Copying /\ todo = {} /\ pc' = "done"
        BY <3>2
        DEF CopyIsCut, PlaceFails, ClearReturned, CopyEnds, Copying, stage, history
      <3>4. MergeSound'
        BY <1>4, <1>s, <2>1, <2>3, <3>3 DEF CopySound, MergeSound
      <3> QED  BY <1>t, <3>4 DEF CopySound
    <2> QED  BY <2>2, <2>3
  <1> QED  BY <1>t, <1>1, <1>2, <1>3, <1>4, OnlyCopyWrites, WhileCopying

\* However often it was refused, failed or killed, a copy-back that ends has merged: the
\* run's version of what the run changed, and the Mac's of everything else.
THEOREM AttemptsAddUpToOneCopy == Spec => []CompletesToMerge
  <1>1. CopySound => CompletesToMerge
    BY DEF CopySound, MergeSound, CompletesToMerge, Merged, TakesTheRuns
  <1> QED  BY InitCopy, CopyStep, <1>1, PTL DEF Spec
==============================================================================
