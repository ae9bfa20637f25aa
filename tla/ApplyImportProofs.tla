-------------------------- MODULE ApplyImportProofs --------------------------
(***************************************************************************)
(* Theorems about ApplyImport, for any number of repositories, versions    *)
(* and mishaps.  Types hold for any number of appliers; what lands is      *)
(* whole, and lands as AtomicImport says, when applies of a run do not     *)
(* overlap: of two that do, one may roll back what the other has landed.   *)
(***************************************************************************)
EXTENDS ApplyImport, TLAPS

LEMMA Bounds ==
    N \in Nat /\ N > 0 /\ MaxVersion \in Nat /\ MaxVersion > 0 /\ MaxMishaps \in Nat
  BY RepositoriesAssumption, VersionAssumption, ApplyMishapsAssumption

LEMMA Places ==
    /\ 1 \in Repos /\ Super \in Repos
    /\ Repos \subseteq Place /\ N + 1 \in Place
    /\ \A r \in Repos : r + 1 \in Place /\ (r # Super => r + 1 \in Repos)
    /\ \A r, limit \in Place : r < limit => r \in Repos
  BY Bounds DEF Repos, Super, Place

LEMMA Numbers ==
    /\ Version \subseteq VersionOrNil /\ Version \subseteq Commit
    /\ Nil \in VersionOrNil /\ Nil \in Commit /\ Theirs \in Commit
    /\ Nil \notin Version /\ Theirs \notin Version /\ Theirs # Nil
    /\ Head \in Version
    /\ \A v \in VersionOrNil : v # Nil => v \in Version
    /\ \A v \in Version : Nil <= v
  BY Bounds DEF Version, VersionOrNil, Commit, Nil, Theirs, Head

(***************************************************************************)
(* The type invariant, with what it needs to be inductive: an applier at   *)
(* work has a version and, unless its rollback is over, a repository.      *)
(***************************************************************************)
Formed(s) ==
    /\ s \in Applier
    /\ s.pc # "idle" => s.version \in Version
    /\ s.pc # "discard" => s.at \in Repos

Typed == TypeOK /\ \A c \in Appliers : Formed(cmd[c])

CmdTyped == cmd \in [Appliers -> Applier] /\ \A c \in Appliers : Formed(cmd[c])

LEMMA CmdOf ==
    ASSUME Typed, NEW c \in Appliers
    PROVE  cmd[c] \in Applier /\ Formed(cmd[c])
  BY DEF Typed, TypeOK

LEMMA CmdFormed ==
    ASSUME Typed, NEW c \in Appliers, NEW s, Formed(s), cmd' = [cmd EXCEPT ![c] = s]
    PROVE  CmdTyped'
  BY DEF Typed, CmdTyped, TypeOK, Formed

LEMMA IdleFormed == Formed(Idle)
  BY Numbers, Places DEF Formed, Idle, Applier, PC

LEMMA TipType ==
    ASSUME Typed, NEW c \in Appliers, ~At(c, "idle"), cmd[c].at \in Repos
    PROVE  Tip(c) \in Version
  BY DEF Typed, Formed, TypeOK, Tip, At

LEMMA StepsType ==
    ASSUME NEW v
    PROVE  Steps(v) \subseteq Repos /\ Super \in Steps(v)
  BY Bounds DEF Steps, Moves, Repos, Super

\* How each helper of an action moves the applier.
LEMMA StopsTyped ==
    ASSUME Typed, NEW c \in Appliers, Stops(c)
    PROVE  CmdTyped'
  BY CmdFormed, IdleFormed DEF Stops

LEMMA GotoTyped ==
    ASSUME Typed, NEW c \in Appliers, NEW pc \in PC, ~At(c, "idle"),
           cmd[c].at \in Repos, Goto(c, pc)
    PROVE  CmdTyped'
  <1> DEFINE s == [cmd[c] EXCEPT !.pc = pc]
  <1>1. cmd' = [cmd EXCEPT ![c] = s]
    BY DEF Goto, Typed, TypeOK
  <1>2. Formed(s)
    BY Places, CmdOf DEF Formed, Applier, At
  <1> HIDE DEF s
  <1> QED
    BY <1>1, <1>2, CmdFormed

LEMMA RollsBackTyped ==
    ASSUME Typed, NEW c \in Appliers, NEW limit \in Place, ~At(c, "idle"),
           RollsBack(c, limit)
    PROVE  CmdTyped'
  <1> DEFINE s == [cmd[c] EXCEPT !.pc = "discard", !.at = 1, !.limit = limit]
  <1>1. cmd' = [cmd EXCEPT ![c] = s]
    BY DEF RollsBack, Typed, TypeOK
  <1>2. Formed(s)
    BY Places, CmdOf DEF Formed, Applier, At, PC
  <1> HIDE DEF s
  <1> QED
    BY <1>1, <1>2, CmdFormed

LEMMA AdvancesTyped ==
    ASSUME Typed, NEW c \in Appliers, NEW then \in PC, ~At(c, "idle"),
           cmd[c].at \in Repos, Advances(c, Super, then)
    PROVE  CmdTyped'
  <1> DEFINE s == [cmd[c] EXCEPT !.at = IF @ = Super THEN 1 ELSE @ + 1,
                                 !.pc = IF cmd[c].at = Super THEN then ELSE @]
  <1>1. cmd' = [cmd EXCEPT ![c] = s]
    BY DEF Advances, Typed, TypeOK
  <1>2. Formed(s)
    BY Places, CmdOf DEF Formed, Applier, At
  <1> HIDE DEF s
  <1> QED
    BY <1>1, <1>2, CmdFormed

LEMMA NextCommitTyped ==
    ASSUME Typed, NEW c \in Appliers, At(c, "drop"), NextCommit(c)
    PROVE  CmdTyped'
  <1> DEFINE s == [cmd[c] EXCEPT !.at = IF @ = Super THEN 1 ELSE @ + 1,
                                 !.pc = IF cmd[c].at = Super THEN "complete" ELSE "commit"]
  <1>1. cmd' = [cmd EXCEPT ![c] = s]
    BY DEF NextCommit, Typed, TypeOK
  <1>2. Formed(s)
    BY Places, CmdOf DEF Formed, Applier, At, PC
  <1> HIDE DEF s
  <1> QED
    BY <1>1, <1>2, CmdFormed

LEMMA NextUndoTyped ==
    ASSUME Typed, NEW c \in Appliers, At(c, "undo"), NextUndo(c)
    PROVE  CmdTyped'
  <1> DEFINE s == [cmd[c] EXCEPT !.pc = "discard", !.at = @ + 1]
  <1>1. cmd' = [cmd EXCEPT ![c] = s]
    BY DEF NextUndo, Typed, TypeOK
  <1>2. Formed(s)
    BY Places, CmdOf DEF Formed, Applier, At, PC
  <1> HIDE DEF s
  <1> QED
    BY <1>1, <1>2, CmdFormed

LEMMA InitTyped == Init => Typed
  <1> SUFFICES ASSUME Init PROVE Typed
    OBVIOUS
  <1>1. TypeOK
    BY Numbers, Bounds, IdleFormed DEF Init, TypeOK, Formed, Version
  <1> QED
    BY <1>1, IdleFormed DEF Init, Typed

\* One step of an apply under way.
LEMMA ProceedsTyped ==
    ASSUME Typed, NEW c \in Appliers, Proceeds(c)
    PROVE  Typed'
  <1> USE DEF Record, Result
  <1>1. /\ cmd \in [Appliers -> Applier] /\ Formed(cmd[c])
        /\ ~At(c, "discard") => cmd[c].at \in Repos
        /\ ~At(c, "idle") => cmd[c].version \in Version
    BY DEF Typed, TypeOK, Formed, At
  <1>2. ASSUME CmdTyped', UNCHANGED <<branch, temp, objects, Record, Result, mishaps>>
        PROVE  Typed'
    BY <1>2 DEF Typed, CmdTyped, TypeOK, Formed
  <1>3. \A r : r \in Repos /\ ~At(c, "idle") => tree[cmd[c].version][r] \in Version
    BY Numbers, <1>1 DEF Typed, TypeOK
  <1>4. CASE SkipImport(c)
    BY Numbers, <1>1, <1>2, <1>4, AdvancesTyped DEF SkipImport, At, PC
  <1>5. CASE FetchBundle(c)
    <2>1. CmdTyped'
      BY Numbers, <1>1, <1>5, AdvancesTyped DEF FetchBundle, At, PC
    <2>2. temp' \in [Repos -> Commit] /\ objects' \in [Repos -> SUBSET Commit]
      <3>1. Tip(c) \in Commit
        BY Numbers, <1>1, <1>5, Numbers, TipType DEF FetchBundle, At
      <3>2. objects[cmd[c].at] \cup {Tip(c)} \in SUBSET Commit
        BY <1>1, <1>5, <3>1 DEF FetchBundle, At, Typed, TypeOK
      <3> QED
        BY <1>5, <3>1, <3>2 DEF FetchBundle, Typed, TypeOK
    <2> QED
      BY <1>5, <2>1, <2>2 DEF FetchBundle, Typed, CmdTyped, TypeOK, Formed
  <1>6. CASE BranchIsTaken(c)
    BY Numbers, <1>1, <1>2, <1>6, RollsBackTyped, Places DEF BranchIsTaken, At
  <1>7. CASE CheckSubmodules(c)
    BY Numbers, <1>1, <1>2, <1>7, GotoTyped, RollsBackTyped, Places DEF CheckSubmodules, At, PC
  <1>8. CASE ReadRecord(c)
    BY Numbers, <1>1, <1>2, <1>8, GotoTyped, RollsBackTyped, Places DEF ReadRecord, At, PC
  <1>9. CASE RecordPlan(c)
    <2>1. CmdTyped'
      BY Numbers, <1>1, <1>9, GotoTyped DEF RecordPlan, At, PC
    <2> QED
      BY Numbers, <1>1, <1>9, <2>1 DEF RecordPlan, At, Typed, CmdTyped, TypeOK, Formed
  <1>10. CASE SkipCommit(c)
    BY Numbers, <1>1, <1>2, <1>10, AdvancesTyped DEF SkipCommit, At, PC
  <1>11. CASE CreateRef(c)
    <2>1. CmdTyped'
      BY Numbers, <1>1, <1>11, GotoTyped DEF CreateRef, At, PC
    <2>2. Tip(c) \in Commit
      BY Numbers, <1>1, <1>11, Numbers, TipType DEF CreateRef, At
    <2> QED
      BY Numbers, <1>11, <2>1, <2>2 DEF CreateRef, Typed, CmdTyped, TypeOK, Formed
  <1>12. CASE CommitIsRefused(c)
    BY <1>2, <1>12, StopsTyped DEF CommitIsRefused
  <1>13. CASE DropTemporaryRef(c)
    <2>1. CmdTyped'
      BY Numbers, <1>13, NextCommitTyped DEF DropTemporaryRef
    <2>2. temp' \in [Repos -> Commit]
      BY Numbers, <1>13 DEF DropTemporaryRef, Dropped, Typed, TypeOK
    <2> QED
      BY Numbers, <1>13, <2>1, <2>2 DEF DropTemporaryRef, Typed, CmdTyped, TypeOK, Formed
  <1>14. CASE ReadPlan(c)
    <2>1. CASE state = "stopped" /\ plan # Nil
      <3> DEFINE s == [cmd[c] EXCEPT !.pc = "import done", !.version = plan]
      <3>1. cmd' = [cmd EXCEPT ![c] = s]
        BY Numbers, <1>1, <1>14, <2>1 DEF ReadPlan
      <3>2. Formed(s)
        BY Numbers, <1>1, <1>14, <2>1 DEF ReadPlan, At, Formed, Applier, PC, Typed, TypeOK
      <3> HIDE DEF s
      <3>3. CmdTyped'
        BY <3>1, <3>2, CmdFormed
      <3> QED
        BY <1>2, <1>14, <3>3 DEF ReadPlan
    <2> QED
      BY <1>2, <1>14, <2>1, StopsTyped DEF ReadPlan
  <1>15. CASE CompleteApply(c)
    <2>1. CmdTyped'
      BY Numbers, <1>15, StopsTyped DEF CompleteApply
    <2> QED
      BY Numbers, <1>1, <1>15, <2>1 DEF CompleteApply, At, Typed, CmdTyped, TypeOK, Formed
  <1>16. CASE RollBackTemporaryRef(c)
    <2>1. cmd[c].at \in Repos
      BY Places, <1>1, <1>16 DEF RollBackTemporaryRef, RollsOn, Formed, Applier
    <2>2. CmdTyped'
      BY Numbers, <1>16, <2>1, GotoTyped DEF RollBackTemporaryRef, At, PC
    <2>3. temp' \in [Repos -> Commit]
      BY Numbers, <1>16 DEF RollBackTemporaryRef, Dropped, Typed, TypeOK
    <2> QED
      BY Numbers, <1>16, <2>2, <2>3 DEF RollBackTemporaryRef, Typed, CmdTyped, TypeOK, Formed
  <1>17. CASE RollBackBranch(c)
    <2>1. CmdTyped'
      BY Numbers, <1>17, NextUndoTyped DEF RollBackBranch
    <2>2. branch' \in [Repos -> Commit]
      BY Numbers, <1>17 DEF RollBackBranch, Typed, TypeOK
    <2> QED
      BY Numbers, <1>17, <2>1, <2>2 DEF RollBackBranch, Typed, CmdTyped, TypeOK, Formed
  <1>18. CASE RolledBack(c)
    BY <1>2, <1>18, StopsTyped DEF RolledBack
  <1> QED
    BY <1>4, <1>5, <1>6, <1>7, <1>8, <1>9, <1>10, <1>11, <1>12, <1>13, <1>14, <1>15, <1>16,
       <1>17, <1>18 DEF Proceeds

LEMMA BeginTyped ==
    ASSUME Typed, NEW c \in Appliers, BeginApply(c)
    PROVE  Typed'
  <1> DEFINE v == IF plan # Nil THEN plan ELSE version
             s == [Idle EXCEPT !.pc = IF plan # Nil THEN "commit" ELSE "import", !.version = v]
  <1>1. v \in Version /\ v \in VersionOrNil
    BY Numbers DEF Typed, TypeOK
  <1> HIDE DEF v
  <1>2. Formed(s)
    BY <1>1, Numbers, IdleFormed DEF Formed, Applier, PC, Idle
  <1>3. cmd' = [cmd EXCEPT ![c] = s]
    BY DEF BeginApply, v
  <1> HIDE DEF s
  <1>4. CmdTyped'
    BY <1>2, <1>3, CmdFormed
  <1> QED
    BY <1>4 DEF BeginApply, Record, Result, Typed, CmdTyped, TypeOK, Formed

LEMMA MishapsTyped ==
    ASSUME Typed, NEW c \in Appliers,
           \/ Killed(c) \/ ApplyFails(c) \/ FailureIgnored(c)
           \/ FetchUnresolved(c) \/ WriteUnsynced(c)
    PROVE  Typed'
  <1> USE DEF Record, Result
  <1>1. /\ Formed(cmd[c]) /\ cmd[c].at \in Place
        /\ ~At(c, "discard") => cmd[c].at \in Repos
        /\ ~At(c, "idle") => cmd[c].version \in Version
    BY CmdOf DEF Formed, At, Applier
  <1>2. ASSUME CmdTyped', NEW kind, Mishap(kind), UNCHANGED <<branch, temp, objects, Record, Result>>
        PROVE  Typed'
    BY <1>2 DEF Typed, CmdTyped, TypeOK, Formed, Mishap
  <1>3. CASE Killed(c)
    BY <1>2, <1>3, StopsTyped DEF Killed
  <1>4. CASE ApplyFails(c)
    <2>1. CmdTyped'
      BY <1>1, <1>4, StopsTyped, RollsBackTyped, Places DEF ApplyFails, At
    <2> QED
      BY <1>2, <1>4, <2>1 DEF ApplyFails
  <1>5. CASE FailureIgnored(c)
    <2>1. CASE At(c, "discard") /\ RollsOn(c) /\ Goto(c, "undo")
      <3>1. cmd[c].at \in Repos
        BY <1>1, <2>1, Places DEF RollsOn, Formed, Applier
      <3> QED
        BY <1>2, <1>5, <2>1, <3>1, GotoTyped DEF FailureIgnored, At, PC
    <2> QED
      BY <1>2, <1>5, <2>1, NextCommitTyped, NextUndoTyped DEF FailureIgnored
  <1>6. CASE FetchUnresolved(c)
    <2>1. CmdTyped'
      BY <1>1, <1>6, RollsBackTyped, Places DEF FetchUnresolved, At
    <2>2. Tip(c) \in Commit
      BY <1>1, <1>6, Numbers, TipType DEF FetchUnresolved, At
    <2>3. objects[cmd[c].at] \cup {Tip(c)} \in SUBSET Commit
      BY <1>1, <1>6, <2>2 DEF FetchUnresolved, At, Typed, TypeOK
    <2>4. temp' \in [Repos -> Commit] /\ objects' \in [Repos -> SUBSET Commit]
      BY <1>6, <2>2, <2>3 DEF FetchUnresolved, Typed, TypeOK
    <2> QED
      BY <1>6, <2>1, <2>4 DEF FetchUnresolved, Typed, CmdTyped, TypeOK, Formed, Mishap
  <1>7. CASE WriteUnsynced(c)
    <2>1. CmdTyped'
      BY <1>1, <1>7, RollsBackTyped, StopsTyped, Places DEF WriteUnsynced, At
    <2>2. state' \in {"stopped", "imported"} /\ plan' \in VersionOrNil /\ landed' \in VersionOrNil
      BY <1>1, <1>7, Numbers DEF WriteUnsynced, At, Typed, TypeOK
    <2>3. Mishap("unsynced") /\ UNCHANGED <<branch, temp, objects, Result>>
      BY <1>7 DEF WriteUnsynced
    <2>4. mishaps \in [count : Nat, unsynced : BOOLEAN]
      BY DEF Typed, TypeOK
    <2> QED
      BY <2>1, <2>2, <2>3, <2>4 DEF Typed, CmdTyped, TypeOK, Formed, Mishap
  <1> QED
    BY <1>3, <1>4, <1>5, <1>6, <1>7

LEMMA SurroundingsTyped ==
    ASSUME Typed,
           \/ RunWorks
           \/ \E r \in Repos : UserTakesBranch(r) \/ UserGivesUpBranch(r) \/ CollectGarbage(r)
    PROVE  Typed'
  <1> USE DEF Record, Result
  <1>1. CASE RunWorks
    <2>1. version + 1 \in Version
      BY <1>1, Bounds DEF RunWorks, Typed, TypeOK, Version
    <2>2. PICK moved \in SUBSET (Repos \ {Super}) :
            tree' = [tree EXCEPT ![version + 1] =
                       [r \in Repos |-> IF r \in moved \cup {Super} THEN version + 1
                                        ELSE tree[version][r]]]
      BY <1>1 DEF RunWorks
    <2>3. [r \in Repos |-> IF r \in moved \cup {Super} THEN version + 1 ELSE tree[version][r]]
          \in [Repos -> Version]
      BY <2>1 DEF Typed, TypeOK
    <2>4. tree' \in [Version -> [Repos -> Version]]
      BY <2>2, <2>3 DEF Typed, TypeOK
    <2>5. unstaged' \subseteq Version /\ version' \in Version
      BY <1>1, <2>1 DEF RunWorks, Typed, TypeOK
    <2> QED
      BY <1>1, <2>4, <2>5 DEF RunWorks, Typed, TypeOK, Formed
  <1>2. ASSUME NEW r \in Repos, UserTakesBranch(r) PROVE Typed'
    BY <1>2, Numbers DEF UserTakesBranch, Typed, TypeOK, Formed
  <1>3. ASSUME NEW r \in Repos, UserGivesUpBranch(r) PROVE Typed'
    BY <1>3, Numbers DEF UserGivesUpBranch, Typed, TypeOK, Formed
  <1>4. ASSUME NEW r \in Repos, CollectGarbage(r) PROVE Typed'
    <2>1. objects[r] \cap Reachable(r) \in SUBSET Commit
      BY DEF Typed, TypeOK
    <2> QED
      BY <1>4, <2>1 DEF CollectGarbage, Typed, TypeOK, Formed
  <1> QED
    BY <1>1, <1>2, <1>3, <1>4

LEMMA NextTyped == Typed /\ [Next]_vars => Typed'
  <1> SUFFICES ASSUME Typed, [Next]_vars PROVE Typed'
    OBVIOUS
  <1>1. CASE UNCHANGED vars
    BY <1>1 DEF vars, Typed, TypeOK, Formed
  <1> QED
    BY <1>1, BeginTyped, ProceedsTyped, MishapsTyped, SurroundingsTyped DEF Next

\* Every variable keeps its type, however many appliers there are.
THEOREM TypeCorrect == Spec => []TypeOK
  <1>1. Typed => TypeOK
    BY DEF Typed
  <1> QED
    BY <1>1, InitTyped, NextTyped, PTL DEF Spec

-----------------------------------------------------------------------------
(***************************************************************************)
(* What lands is whole, when applies of a run do not overlap.              *)
(***************************************************************************)
Solo == \A c, d \in Appliers : c = d

Importing == {"import", "check", "begin", "record"}
Landing == {"commit", "drop", "complete", "import done"}
Undoing == {"discard", "undo"}

\* No repository has the run's branch.
Untouched == \A r \in Repos : branch[r] \in {Nil, Theirs}

\* Every repository v touches has its branch.
Whole(v) == \A r \in Steps(v) : branch[r] = tree[v][r]

\* What an applier's place says of the record and the branches.
Placed(s) ==
    /\ s.version <= version
    /\ s.pc \in Importing => state = "stopped" /\ plan = Nil
    /\ s.pc \in Landing => state = "stopped" /\ plan = s.version
    /\ s.pc \in Undoing => state = "stopped" /\ plan \in {Nil, s.version} /\ Untouched
    /\ s.pc \in {"check", "begin", "record"} => s.at = 1
    /\ s.pc \in {"commit", "drop"} =>
         \A r \in Steps(s.version) : r < s.at => branch[r] = tree[s.version][r]
    /\ s.pc = "drop" => s.at \in Steps(s.version) /\ branch[s.at] = tree[s.version][s.at]
    /\ s.pc \in {"complete", "import done"} => Whole(s.version)

\* What the record says of the branches.
Recorded ==
    /\ plan <= version /\ landed <= version
    /\ \A v \in Version : v <= version => tree[v][Super] = v
    /\ state = "imported" => plan = Nil /\ landed # Nil /\ Whole(landed)
    /\ Chosen = Nil => Untouched
    /\ Chosen # Nil =>
         /\ \A r \in Repos :
              \/ branch[r] \in {Nil, Theirs}
              \/ r \in Steps(Chosen) /\ branch[r] = tree[Chosen][r]
         /\ branch[Super] = tree[Chosen][Super] => Whole(Chosen)

Lands == Typed /\ Recorded /\ \A c \in Appliers : Placed(cmd[c])

\* Where each helper of an action takes the applier.
LEMMA GotoGoes ==
    ASSUME Typed, NEW c \in Appliers, NEW pc, Goto(c, pc)
    PROVE  cmd'[c].pc = pc /\ cmd'[c].at = cmd[c].at /\ cmd'[c].version = cmd[c].version
  BY DEF Goto, Typed, TypeOK, Applier

LEMMA RollsBackGoes ==
    ASSUME Typed, NEW c \in Appliers, NEW limit, RollsBack(c, limit)
    PROVE  cmd'[c].pc = "discard" /\ cmd'[c].at = 1 /\ cmd'[c].version = cmd[c].version
  BY DEF RollsBack, Typed, TypeOK, Applier

LEMMA AdvancesGoes ==
    ASSUME Typed, NEW c \in Appliers, NEW last, NEW then, Advances(c, last, then)
    PROVE  /\ cmd'[c].pc = IF cmd[c].at = last THEN then ELSE cmd[c].pc
           /\ cmd'[c].at = IF cmd[c].at = last THEN 1 ELSE cmd[c].at + 1
           /\ cmd'[c].version = cmd[c].version
  BY DEF Advances, Typed, TypeOK, Applier

LEMMA NextCommitGoes ==
    ASSUME Typed, NEW c \in Appliers, NextCommit(c)
    PROVE  /\ cmd'[c].pc = IF cmd[c].at = Super THEN "complete" ELSE "commit"
           /\ cmd'[c].at = IF cmd[c].at = Super THEN 1 ELSE cmd[c].at + 1
           /\ cmd'[c].version = cmd[c].version
  BY DEF NextCommit, Typed, TypeOK, Applier

LEMMA NextUndoGoes ==
    ASSUME Typed, NEW c \in Appliers, NextUndo(c)
    PROVE  cmd'[c].pc = "discard" /\ cmd'[c].version = cmd[c].version
  BY DEF NextUndo, Typed, TypeOK, Applier

LEMMA StopsGoes ==
    ASSUME Typed, NEW c \in Appliers, Stops(c)
    PROVE  cmd'[c].pc = "idle" /\ cmd'[c].version = Nil
  BY DEF Stops, Typed, TypeOK, Idle

LEMMA IdlePlaced ==
    ASSUME Typed, NEW s, s.pc = "idle", s.version = Nil
    PROVE  Placed(s)
  <1>1. Nil <= version
    BY Bounds DEF Typed, TypeOK, Version, Nil
  <1> QED
    BY <1>1 DEF Placed, Importing, Landing, Undoing

Facts == <<branch, state, plan, landed, tree, version>>

LEMMA RecordedStays ==
    ASSUME Recorded, UNCHANGED Facts
    PROVE  Recorded'
  BY DEF Facts, Recorded, Chosen, Untouched, Whole, Steps, Moves

\* A step that changes neither a branch nor the record leaves what they say, and
\* the one applier where it says it is.
LEMMA QuietLands ==
    ASSUME Solo, Lands, Typed', UNCHANGED Facts, NEW c \in Appliers, Placed(cmd'[c])
    PROVE  Lands'
  <1>1. Placed(cmd[c])'
    BY DEF Facts, Placed, Untouched, Whole, Steps, Moves
  <1>2. \A d \in Appliers : Placed(cmd[d])'
    BY <1>1 DEF Solo
  <1> QED
    BY <1>2, RecordedStays DEF Lands

\* Where the branches hold nothing of the run's, undoing a branch changes none.
LEMMA UndoIsQuiet ==
    ASSUME Lands, NEW c \in Appliers, RollBackBranch(c)
    PROVE  UNCHANGED branch
  <1>1. Untouched /\ cmd[c].at \in Repos
    BY CmdOf DEF RollBackBranch, At, Lands, Placed, Undoing, Formed
  <1>2. Tip(c) \in Version
    BY <1>1, TipType DEF Lands, RollBackBranch, At
  <1>3. branch[cmd[c].at] # Tip(c)
    BY <1>1, <1>2, Numbers DEF Untouched
  <1>4. branch \in [Repos -> Commit]
    BY DEF Lands, Typed, TypeOK
  <1> QED
    BY <1>1, <1>3, <1>4 DEF RollBackBranch

LEMMA NothingRecorded ==
    ASSUME Recorded, state = "stopped", plan = Nil
    PROVE  Untouched
  BY DEF Recorded, Chosen

\* A step done, the commit goes on, or is over.
LEMMA NextCommitLands ==
    ASSUME Solo, Lands, Typed', UNCHANGED Facts, NEW c \in Appliers,
           At(c, "drop"), NextCommit(c)
    PROVE  Lands'
  <1> DEFINE at == cmd[c].at
             v == cmd[c].version
  <1>1. Typed /\ Placed(cmd[c]) /\ Formed(cmd[c])
    BY DEF Lands, Typed
  <1>2. /\ \A r \in Steps(v) : r < at => branch[r] = tree[v][r]
        /\ branch[at] = tree[v][at]
        /\ v <= version /\ state = "stopped" /\ plan = v
    BY <1>1 DEF Placed, At, Landing
  <1>3. at \in Repos /\ Steps(v) \subseteq Repos
    BY <1>1, StepsType DEF Formed, At
  <1>4. \A r \in Steps(v) : r < at + 1 => branch[r] = tree[v][r]
    BY <1>2, <1>3, Bounds DEF Repos
  <1>5. CASE at = Super
    <2>1. Whole(v)
      BY <1>3, <1>4, <1>5, Bounds DEF Whole, Repos, Super
    <2>2. cmd'[c].pc = "complete" /\ cmd'[c].version = v
      BY <1>1, <1>5, NextCommitGoes
    <2> QED
      BY <1>2, <2>1, <2>2, QuietLands DEF Placed, Importing, Landing, Undoing
  <1>6. CASE at # Super
    <2>1. cmd'[c].pc = "commit" /\ cmd'[c].at = at + 1 /\ cmd'[c].version = v
      BY <1>1, <1>6, NextCommitGoes
    <2> QED
      BY <1>2, <1>4, <2>1, QuietLands DEF Placed, Importing, Landing, Undoing
  <1> QED
    BY <1>5, <1>6

\* The steps of an apply under way that change neither a branch nor the record.
LEMMA QuietStepLands ==
    ASSUME Solo, Lands, Typed', UNCHANGED Facts, NEW c \in Appliers,
           \/ SkipImport(c) \/ FetchBundle(c) \/ BranchIsTaken(c) \/ CheckSubmodules(c)
           \/ ReadRecord(c) \/ SkipCommit(c) \/ CommitIsRefused(c) \/ DropTemporaryRef(c)
           \/ ReadPlan(c) \/ RollBackTemporaryRef(c) \/ RollBackBranch(c) \/ RolledBack(c)
    PROVE  Lands'
  <1>1. Typed /\ Recorded /\ Placed(cmd[c]) /\ Formed(cmd[c])
    BY DEF Lands, Typed
  <1>2. cmd'[c].pc = "idle" /\ cmd'[c].version = Nil => Placed(cmd'[c])
    BY <1>1, IdlePlaced
  <1> USE DEF Importing, Landing, Undoing, At
  <1>3. CASE SkipImport(c) \/ FetchBundle(c)
    <2>1. Advances(c, Super, "check") /\ cmd[c].pc = "import"
      BY <1>3 DEF SkipImport, FetchBundle
    <2>2. /\ cmd'[c].pc = "import" \/ (cmd'[c].pc = "check" /\ cmd'[c].at = 1)
          /\ cmd'[c].version = cmd[c].version
      BY <1>1, <2>1, AdvancesGoes
    <2>3. Placed(cmd'[c])
      BY <1>1, <2>1, <2>2 DEF Placed
    <2> QED
      BY <2>3, QuietLands
  <1>4. CASE BranchIsTaken(c) \/ CheckSubmodules(c) \/ ReadRecord(c)
    <2>1. cmd[c].pc \in Importing
      BY <1>4 DEF BranchIsTaken, CheckSubmodules, ReadRecord
    <2>2. Untouched
      BY <1>1, <2>1, NothingRecorded DEF Placed
    <2>3. CASE \E limit : RollsBack(c, limit)
      BY <1>1, <2>1, <2>2, <2>3, RollsBackGoes, QuietLands DEF Placed
    <2>4. CASE At(c, "check") /\ Goto(c, "begin")
      <3>1. cmd'[c].pc = "begin" /\ cmd'[c].at = cmd[c].at /\ cmd'[c].version = cmd[c].version
        BY <1>1, <2>4, GotoGoes
      <3>2. Placed(cmd'[c])
        BY <1>1, <2>4, <3>1 DEF Placed
      <3> QED
        BY <3>2, QuietLands
    <2>5. CASE At(c, "begin") /\ Goto(c, "record")
      <3>1. cmd'[c].pc = "record" /\ cmd'[c].at = cmd[c].at /\ cmd'[c].version = cmd[c].version
        BY <1>1, <2>5, GotoGoes
      <3>2. Placed(cmd'[c])
        BY <1>1, <2>5, <3>1 DEF Placed
      <3> QED
        BY <3>2, QuietLands
    <2> QED
      BY <1>4, <2>3, <2>4, <2>5 DEF BranchIsTaken, CheckSubmodules, ReadRecord
  <1>5. CASE SkipCommit(c)
    <2>1. /\ cmd[c].pc = "commit" /\ cmd[c].at \notin Steps(cmd[c].version)
          /\ Advances(c, Super, "complete")
      BY <1>5 DEF SkipCommit
    <2>2. cmd[c].at # Super
      BY <2>1, StepsType
    <2>3. /\ cmd'[c].pc = "commit" /\ cmd'[c].at = cmd[c].at + 1
          /\ cmd'[c].version = cmd[c].version
      BY <1>1, <2>1, <2>2, AdvancesGoes
    <2>4. \A r \in Steps(cmd[c].version) : r < cmd[c].at + 1 => r < cmd[c].at
      BY <1>1, <2>1, StepsType, Bounds DEF Formed, Repos
    <2> QED
      BY <1>1, <2>1, <2>3, <2>4, QuietLands DEF Placed
  <1>6. CASE DropTemporaryRef(c)
    <2>1. cmd[c].pc = "drop" /\ NextCommit(c)
      BY <1>6 DEF DropTemporaryRef
    <2> QED
      BY <1>1, <2>1, NextCommitLands
  <1>7. CASE ReadPlan(c)
    <2>1. CASE Stops(c)
      BY <1>1, <1>2, <2>1, StopsGoes, QuietLands
    <2>2. CASE cmd' = [cmd EXCEPT ![c].pc = "import done", ![c].version = plan]
      <3>1. cmd'[c].pc = "import done" /\ cmd'[c].version = plan /\ cmd[c].pc = "complete"
        BY <1>1, <1>7, <2>2 DEF ReadPlan, Typed, TypeOK, Applier
      <3> QED
        BY <1>1, <3>1, QuietLands DEF Placed
    <2> QED
      BY <1>7, <2>1, <2>2 DEF ReadPlan
  <1>8. CASE RollBackTemporaryRef(c)
    <2>1. /\ cmd[c].pc = "discard" /\ cmd'[c].pc = "undo"
          /\ cmd'[c].version = cmd[c].version
      BY <1>1, <1>8, GotoGoes DEF RollBackTemporaryRef
    <2>2. Placed(cmd'[c])
      BY <1>1, <2>1 DEF Placed
    <2> QED
      BY <2>2, QuietLands
  <1>9. CASE RollBackBranch(c)
    BY <1>1, <1>9, NextUndoGoes, QuietLands DEF RollBackBranch, Placed
  <1>10. CASE CommitIsRefused(c) \/ RolledBack(c)
    BY <1>1, <1>2, <1>10, StopsGoes, QuietLands DEF CommitIsRefused, RolledBack
  <1> QED
    BY <1>3, <1>4, <1>5, <1>6, <1>7, <1>8, <1>9, <1>10

\* The plan reaches the record while no repository has the run's branch.
LEMMA PlanRecorded ==
    ASSUME Lands, NEW v \in Version, v <= version, Untouched,
           state' = "stopped", plan' = v, UNCHANGED <<branch, landed, tree, version>>
    PROVE  Recorded' /\ Untouched'
  <1>1. Untouched' /\ tree[v][Super] \in Version
    BY Places DEF Untouched, Lands, Typed, TypeOK
  <1>2. branch[Super] # tree[v][Super]
    BY <1>1, Numbers, Places DEF Untouched
  <1>3. Chosen' = v /\ v # Nil
    BY Numbers DEF Chosen
  <1> QED
    BY <1>1, <1>2, <1>3 DEF Lands, Recorded, Untouched

LEMMA RecordPlanLands ==
    ASSUME Solo, Lands, Typed', NEW c \in Appliers, RecordPlan(c)
    PROVE  Lands'
  <1> DEFINE v == cmd[c].version
  <1>1. Typed /\ Recorded /\ Placed(cmd[c]) /\ cmd[c].pc = "record" /\ v \in Version
    BY CmdOf DEF Lands, Formed, RecordPlan, At
  <1>2. Untouched /\ v <= version /\ cmd[c].at = 1
    BY <1>1, NothingRecorded DEF Placed, Importing
  <1>3. /\ state' = "stopped" /\ plan' = v /\ UNCHANGED <<branch, landed, tree, version>>
        /\ cmd'[c].pc = "commit" /\ cmd'[c].at = 1 /\ cmd'[c].version = v
    BY <1>1, <1>2, GotoGoes DEF RecordPlan, Result
  <1>4. Recorded'
    BY <1>1, <1>2, <1>3, PlanRecorded
  <1>5. \A r \in Steps(v)' : ~(r < 1)
    BY StepsType, Bounds DEF Repos, Steps, Moves
  <1>6. Placed(cmd[c])'
    BY <1>2, <1>3, <1>5 DEF Placed, Importing, Landing, Undoing
  <1> QED
    BY <1>4, <1>6 DEF Lands, Solo

\* A branch is created where the commit has got to.
LEMMA CreateRefLands ==
    ASSUME Solo, Lands, Typed', NEW c \in Appliers, CreateRef(c)
    PROVE  Lands'
  <1> DEFINE v == cmd[c].version
             at == cmd[c].at
  <1>1. /\ Typed /\ Recorded /\ Placed(cmd[c]) /\ cmd[c].pc = "commit"
        /\ v \in Version /\ at \in Repos /\ at \in Steps(v)
    BY CmdOf DEF Lands, Formed, CreateRef, At
  <1>2. /\ state = "stopped" /\ plan = v /\ v <= version
        /\ \A r \in Steps(v) : r < at => branch[r] = tree[v][r]
    BY <1>1 DEF Placed, Landing
  <1>3. /\ UNCHANGED <<state, plan, landed, tree, version>>
        /\ branch' = [branch EXCEPT ![at] = tree[v][at]]
        /\ cmd'[c].pc = "drop" /\ cmd'[c].at = at /\ cmd'[c].version = v
    BY <1>1, GotoGoes DEF CreateRef, Record, Result, Tip
  <1>4. branch \in [Repos -> Commit]
    BY <1>1 DEF Typed, TypeOK
  <1>5. \A r \in Repos : branch'[r] = IF r = at THEN tree[v][at] ELSE branch[r]
    BY <1>3, <1>4
  <1>6. Chosen = v /\ Chosen' = v /\ v # Nil /\ Steps(v)' = Steps(v) /\ Steps(v) \subseteq Repos
    BY <1>1, <1>2, <1>3, Numbers, StepsType DEF Chosen, Steps, Moves
  <1>7. branch'[Super] = tree[v][Super] => \A r \in Steps(v) : branch'[r] = tree[v][r]
    <2>1. CASE at = Super
      <3>1. \A r \in Steps(v) : r = at \/ r < at
        BY <1>6, <2>1, Bounds DEF Repos, Super
      <3> QED
        BY <1>2, <1>5, <1>6, <3>1
    <2>2. CASE at # Super
      BY <1>1, <1>5, <1>6, <2>2, Places DEF Recorded, Whole
    <2> QED
      BY <2>1, <2>2
  <1>8. Recorded'
    <2>1. \A r \in Repos : branch'[r] \in {Nil, Theirs} \/ (r \in Steps(v) /\ branch'[r] = tree[v][r])
      BY <1>1, <1>5, <1>6 DEF Recorded
    <2> QED
      BY <1>1, <1>2, <1>3, <1>6, <1>7, <2>1 DEF Recorded, Whole
  <1>9. Placed(cmd[c])'
    <2>1. \A r \in Steps(v) : r < at => branch'[r] = tree[v][r]
      BY <1>2, <1>5, <1>6
    <2> QED
      BY <1>1, <1>2, <1>3, <1>5, <1>6, <2>1 DEF Placed, Importing, Landing, Undoing
  <1> QED
    BY <1>8, <1>9 DEF Lands, Solo

\* The record says imported once every branch is in place.
LEMMA ImportRecorded ==
    ASSUME Solo, Lands, Typed', NEW c \in Appliers, At(c, "import done"), Stops(c),
           state' = "imported", plan' = Nil, landed' = cmd[c].version,
           UNCHANGED <<branch, tree, version>>
    PROVE  Lands'
  <1>1. Typed /\ Recorded /\ Placed(cmd[c]) /\ cmd[c].version \in Version
    BY CmdOf DEF Lands, Formed, At
  <1>2. PICK v \in Version : v = cmd[c].version
    BY <1>1
  <1>3. state = "stopped" /\ plan = v /\ v <= version /\ Whole(v)
    BY <1>1, <1>2 DEF Placed, Landing, At
  <1>4. Chosen = v /\ Chosen' = v /\ v # Nil
    BY <1>2, <1>3, Numbers DEF Chosen
  <1>5. Nil <= version
    BY <1>1, Numbers DEF Typed, TypeOK
  <1>6. Whole(v)' /\ Steps(v)' = Steps(v)
    BY <1>3 DEF Whole, Steps, Moves
  <1>7. Recorded'
    BY <1>1, <1>2, <1>3, <1>4, <1>5, <1>6 DEF Recorded, Whole
  <1>8. cmd'[c].pc = "idle" /\ cmd'[c].version = Nil
    BY <1>1, StopsGoes
  <1>9. Placed(cmd[c])'
    BY <1>5, <1>8 DEF Placed, Importing, Landing, Undoing
  <1> QED
    BY <1>7, <1>9 DEF Lands, Solo

LEMMA ProceedsLands ==
    ASSUME Solo, Lands, Typed', NEW c \in Appliers, Proceeds(c)
    PROVE  Lands'
  <1> USE DEF Record, Result, Facts
  <1>1. CASE RecordPlan(c)
    BY <1>1, RecordPlanLands
  <1>2. CASE CreateRef(c)
    BY <1>2, CreateRefLands
  <1>3. CASE CompleteApply(c)
    BY <1>3, ImportRecorded DEF CompleteApply
  <1>4. CASE RollBackBranch(c)
    BY <1>4, UndoIsQuiet, QuietStepLands DEF RollBackBranch
  <1>5. CASE SkipImport(c) \/ FetchBundle(c) \/ BranchIsTaken(c) \/ CheckSubmodules(c)
    BY <1>5, QuietStepLands DEF SkipImport, FetchBundle, BranchIsTaken, CheckSubmodules
  <1>6. CASE ReadRecord(c) \/ SkipCommit(c) \/ CommitIsRefused(c) \/ DropTemporaryRef(c)
    BY <1>6, QuietStepLands DEF ReadRecord, SkipCommit, CommitIsRefused, DropTemporaryRef
  <1>7. CASE ReadPlan(c) \/ RollBackTemporaryRef(c) \/ RolledBack(c)
    BY <1>7, QuietStepLands DEF ReadPlan, RollBackTemporaryRef, RolledBack
  <1> QED
    BY <1>1, <1>2, <1>3, <1>4, <1>5, <1>6, <1>7 DEF Proceeds

LEMMA BeginLands ==
    ASSUME Solo, Lands, Typed', NEW c \in Appliers, BeginApply(c)
    PROVE  Lands'
  <1> DEFINE v == IF plan # Nil THEN plan ELSE version
  <1>1. Typed /\ Recorded /\ UNCHANGED Facts /\ state = "stopped" /\ version \in Version
    BY DEF BeginApply, Lands, Record, Result, Facts, Typed, TypeOK
  <1>2. /\ cmd'[c].pc = IF plan # Nil THEN "commit" ELSE "import"
        /\ cmd'[c].at = 1 /\ cmd'[c].version = v
    BY <1>1 DEF BeginApply, Idle, Typed, TypeOK
  <1>3. v <= version
    BY <1>1, Bounds DEF Recorded, Version
  <1>4. \A r \in Steps(v) : ~(r < 1)
    BY StepsType, Bounds DEF Repos
  <1> HIDE DEF v
  <1>5. CASE plan # Nil
    <2>1. v = plan
      BY <1>5 DEF v
    <2> QED
      BY <1>1, <1>2, <1>3, <1>4, <1>5, <2>1, QuietLands DEF Placed, Importing, Landing, Undoing
  <1>6. CASE plan = Nil
    BY <1>1, <1>2, <1>3, <1>6, QuietLands DEF Placed, Importing, Landing, Undoing
  <1> QED
    BY <1>5, <1>6

LEMMA MishapsLands ==
    ASSUME Solo, Lands, Typed', NEW c \in Appliers,
           \/ Killed(c) \/ ApplyFails(c) \/ FailureIgnored(c)
           \/ FetchUnresolved(c) \/ WriteUnsynced(c)
    PROVE  Lands'
  <1>1. Typed /\ Recorded /\ Placed(cmd[c]) /\ Formed(cmd[c])
    BY DEF Lands, Typed
  <1> USE DEF Importing, Landing, Undoing, At
  <1>2. ASSUME UNCHANGED Facts, Stops(c)
        PROVE  Lands'
    BY <1>1, <1>2, IdlePlaced, StopsGoes, QuietLands
  <1>3. ASSUME UNCHANGED Facts, cmd[c].pc \in Importing, NEW limit, RollsBack(c, limit)
        PROVE  Lands'
    <2>1. Untouched
      BY <1>1, <1>3, NothingRecorded DEF Placed
    <2> QED
      BY <1>1, <1>3, <2>1, RollsBackGoes, QuietLands DEF Placed
  <1>4. CASE Killed(c)
    BY <1>2, <1>4 DEF Killed, Record, Result, Facts
  <1>5. CASE ApplyFails(c)
    <2>1. UNCHANGED Facts
      BY <1>5 DEF ApplyFails, Record, Result, Facts
    <2>2. Stops(c) \/ (cmd[c].pc \in Importing /\ \E limit : RollsBack(c, limit))
      BY <1>5 DEF ApplyFails
    <2> QED
      BY <1>2, <1>3, <2>1, <2>2
  <1>6. CASE FailureIgnored(c)
    <2>1. UNCHANGED Facts
      BY <1>6 DEF FailureIgnored, Record, Result, Facts
    <2>2. CASE At(c, "drop") /\ NextCommit(c)
      BY <2>1, <2>2, NextCommitLands
    <2>3. CASE At(c, "discard") /\ Goto(c, "undo")
      <3>1. cmd'[c].pc = "undo" /\ cmd'[c].version = cmd[c].version
        BY <1>1, <2>3, GotoGoes
      <3>2. Placed(cmd'[c])
        BY <1>1, <2>3, <3>1 DEF Placed
      <3> QED
        BY <2>1, <3>2, QuietLands
    <2>4. CASE At(c, "undo") /\ NextUndo(c)
      BY <1>1, <2>1, <2>4, NextUndoGoes, QuietLands DEF Placed
    <2> QED
      BY <1>6, <2>2, <2>3, <2>4 DEF FailureIgnored
  <1>7. CASE FetchUnresolved(c)
    BY <1>3, <1>7 DEF FetchUnresolved, Record, Result, Facts
  <1>8. CASE WriteUnsynced(c)
    <2>1. CASE At(c, "record")
      <3>1. PICK v \in Version : v = cmd[c].version
        BY <1>1, <2>1 DEF Formed
      <3>2. Untouched /\ v <= version
        BY <1>1, <2>1, <3>1, NothingRecorded DEF Placed
      <3>3. /\ state' = "stopped" /\ plan' = v /\ UNCHANGED <<branch, landed, tree, version>>
            /\ RollsBack(c, N + 1)
        BY <1>8, <2>1, <3>1 DEF WriteUnsynced, Result
      <3>4. Recorded' /\ Untouched'
        BY <3>2, <3>3, PlanRecorded
      <3>5. cmd'[c].pc = "discard" /\ cmd'[c].version = v
        BY <1>1, <3>1, <3>3, RollsBackGoes
      <3>6. Placed(cmd[c])'
        BY <3>2, <3>3, <3>4, <3>5 DEF Placed
      <3> QED
        BY <3>4, <3>6 DEF Lands, Solo
    <2>2. CASE At(c, "import done")
      BY <1>8, <2>2, ImportRecorded DEF WriteUnsynced, Result
    <2> QED
      BY <1>8, <2>1, <2>2 DEF WriteUnsynced
  <1> QED
    BY <1>4, <1>5, <1>6, <1>7, <1>8

\* Versions that are made later land nothing yet.
LEMMA RunWorksLands ==
    ASSUME Lands, Typed', RunWorks
    PROVE  Lands'
  <1>1. /\ Typed /\ Recorded /\ state = "stopped" /\ plan = Nil
        /\ version \in Version /\ version' = version + 1
        /\ UNCHANGED <<branch, state, plan, landed, cmd>>
    BY DEF RunWorks, Lands, Record, Typed, TypeOK
  <1>2. version + 1 \in Version /\ \A v \in Version : v <= version + 1 => v <= version \/ v = version + 1
    BY <1>1, Bounds DEF RunWorks, Version
  <1>3. PICK moved \in SUBSET (Repos \ {Super}) :
          tree' = [tree EXCEPT ![version + 1] =
                     [r \in Repos |-> IF r \in moved \cup {Super} THEN version + 1
                                      ELSE tree[version][r]]]
    BY DEF RunWorks
  <1>4. tree'[version + 1][Super] = version + 1
    BY <1>1, <1>2, <1>3, Places DEF Typed, TypeOK
  <1>5. \A v \in Version : v # version + 1 => tree'[v] = tree[v]
    BY <1>1, <1>3 DEF Typed, TypeOK
  <1>6. ~(version + 1 <= version) /\ \A k \in VersionOrNil : k <= version => k <= version + 1
    BY <1>1, Bounds DEF Version, VersionOrNil
  <1>7. Untouched /\ Untouched'
    BY <1>1, NothingRecorded DEF Untouched
  <1>8. \A v \in Version : v <= version' => tree'[v][Super] = v
    BY <1>1, <1>2, <1>4, <1>5 DEF Recorded
  <1>9. Recorded'
    <2>1. plan' <= version' /\ landed' <= version'
      BY <1>1, <1>6 DEF Recorded, Typed, TypeOK
    <2>2. Chosen' = Nil
      BY <1>1 DEF Chosen
    <2> QED
      BY <1>1, <1>7, <1>8, <2>1, <2>2 DEF Recorded
  <1>10. ASSUME NEW c \in Appliers PROVE Placed(cmd[c])'
    <2>1. Placed(cmd[c]) /\ Formed(cmd[c]) /\ cmd[c].version \in VersionOrNil
      BY CmdOf, <1>1 DEF Lands, Applier
    <2>2. cmd[c].pc \notin Landing
      BY <1>1, <2>1, Numbers DEF Placed, Landing, Formed
    <2>3. cmd[c].version <= version'
      BY <1>1, <1>6, <2>1 DEF Placed
    <2> QED
      BY <1>1, <1>7, <2>1, <2>2, <2>3 DEF Placed, Landing
  <1> QED
    BY <1>9, <1>10 DEF Lands

\* A branch that is not the run's is nothing to an apply, whoever moves it.
LEMMA UserLands ==
    ASSUME Lands, Typed', NEW r \in Repos, NEW b \in {Nil, Theirs},
           branch[r] \in {Nil, Theirs}, branch' = [branch EXCEPT ![r] = b],
           UNCHANGED <<state, plan, landed, tree, version, cmd>>
    PROVE  Lands'
  <1>1. Typed /\ Recorded /\ branch \in [Repos -> Commit]
    BY DEF Lands, Typed, TypeOK
  <1>2. \A q \in Repos : branch'[q] = IF q = r THEN b ELSE branch[q]
    BY <1>1
  <1>3. \A v \in Version : \A q \in Repos :
          /\ tree[v][q] \notin {Nil, Theirs}
          /\ branch'[q] = tree[v][q] <=> branch[q] = tree[v][q]
    <2>1. \A v \in Version : \A q \in Repos : tree[v][q] \in Version
      BY <1>1 DEF Typed, TypeOK
    <2> QED
      BY <1>2, <2>1, Numbers
  <1>4. \A v : Steps(v)' = Steps(v) /\ Steps(v) \subseteq Repos
    BY StepsType DEF Steps, Moves
  <1>5. \A v \in Version : Whole(v) => Whole(v)'
    BY <1>3, <1>4 DEF Whole
  <1>6. Untouched => Untouched'
    BY <1>2 DEF Untouched
  <1>7. Chosen' = Chosen /\ Chosen \in VersionOrNil
    BY <1>1 DEF Chosen, Typed, TypeOK
  <1>8. Recorded'
    <2>1. CASE Chosen = Nil
      <3>1. state = "stopped"
        BY <1>1, <2>1 DEF Recorded, Chosen, Typed, TypeOK
      <3> QED
        BY <1>1, <1>6, <1>7, <2>1, <3>1 DEF Recorded
    <2>2. CASE Chosen # Nil
      <3>1. Chosen \in Version
        BY <1>7, <2>2, Numbers
      <3>2. \A q \in Repos : branch'[q] \in {Nil, Theirs}
              \/ (q \in Steps(Chosen) /\ branch'[q] = tree[Chosen][q])
        BY <1>1, <1>2, <2>2 DEF Recorded
      <3>3. branch'[Super] = tree[Chosen][Super] => Whole(Chosen)
        BY <1>1, <1>3, <2>2, <3>1, Places DEF Recorded
      <3>4. state = "imported" => landed \in Version /\ Whole(landed)
        BY <1>1, Numbers DEF Recorded, Typed, TypeOK
      <3> QED
        BY <1>1, <1>4, <1>5, <1>7, <2>2, <3>1, <3>2, <3>3, <3>4 DEF Recorded
    <2> QED
      BY <2>1, <2>2
  <1>9. ASSUME NEW c \in Appliers PROVE Placed(cmd[c])'
    <2>1. Placed(cmd[c]) /\ Formed(cmd[c])
      BY CmdOf, <1>1 DEF Lands
    <2>2. CASE cmd[c].pc \in Landing
      <3>1. PICK v \in Version : v = cmd[c].version
        BY <2>1, <2>2 DEF Formed, Landing
      <3>2. cmd[c].pc = "drop" => cmd[c].at \in Repos
        BY <2>1 DEF Formed
      <3>3. /\ state = "stopped" /\ plan = v /\ v <= version
            /\ cmd[c].pc \in {"commit", "drop"} =>
                 \A q \in Steps(v) : q < cmd[c].at => branch'[q] = tree[v][q]
        BY <1>3, <1>4, <2>1, <2>2, <3>1 DEF Placed
      <3>4. /\ cmd[c].pc = "drop" => cmd[c].at \in Steps(v) /\ branch'[cmd[c].at] = tree[v][cmd[c].at]
            /\ cmd[c].pc \in {"complete", "import done"} => Whole(v)'
        BY <1>3, <1>5, <2>1, <3>1, <3>2 DEF Placed
      <3>5. cmd'[c] = cmd[c] /\ cmd[c].version = v
        BY <3>1
      <3> QED
        BY <1>4, <2>2, <3>3, <3>4, <3>5 DEF Placed, Importing, Landing, Undoing
    <2>3. CASE cmd[c].pc \notin Landing
      BY <1>6, <2>1, <2>3 DEF Placed, Landing
    <2> QED
      BY <2>2, <2>3
  <1> QED
    BY <1>8, <1>9 DEF Lands

LEMMA InitLands == Init => Lands
  <1> SUFFICES ASSUME Init PROVE Lands
    OBVIOUS
  <1>1. Typed /\ Untouched /\ Chosen = Nil
    BY InitTyped DEF Init, Untouched, Chosen
  <1>2. Recorded
    <2>1. \A v \in Version : v <= 1 => v = Head
      BY Bounds DEF Version, Head
    <2>2. \A v \in Version : v <= version => tree[v][Super] = v
      BY <2>1, Places DEF Init
    <2> QED
      BY <1>1, <2>2 DEF Init, Recorded, Nil
  <1>3. \A c \in Appliers : Placed(cmd[c])
    BY <1>1, IdlePlaced DEF Init, Idle
  <1> QED
    BY <1>1, <1>2, <1>3 DEF Lands

LEMMA NextLands == Solo /\ Lands /\ [Next]_vars => Lands'
  <1> SUFFICES ASSUME Solo, Lands, [Next]_vars PROVE Lands'
    OBVIOUS
  <1>1. Typed'
    BY NextTyped DEF Lands
  <1>2. ASSUME UNCHANGED <<Facts, cmd>> PROVE Lands'
    <2>1. ASSUME NEW c \in Appliers PROVE Placed(cmd[c])'
      <3>1. Placed(cmd[c])
        BY DEF Lands
      <3>2. \A v : Steps(v)' = Steps(v)
        BY <1>2 DEF Facts, Steps, Moves
      <3>3. Untouched' = Untouched /\ \A v : Whole(v)' = Whole(v)
        BY <1>2, <3>2 DEF Facts, Untouched, Whole
      <3> QED
        BY <1>2, <3>1, <3>2, <3>3 DEF Facts, Placed
    <2> QED
      BY <1>1, <1>2, <2>1, RecordedStays DEF Lands
  <1>3. CASE UNCHANGED vars
    BY <1>2, <1>3 DEF vars, Facts
  <1>4. ASSUME NEW c \in Appliers, BeginApply(c) PROVE Lands'
    BY <1>1, <1>4, BeginLands
  <1>5. ASSUME NEW c \in Appliers, Proceeds(c) PROVE Lands'
    BY <1>1, <1>5, ProceedsLands
  <1>6. ASSUME NEW c \in Appliers,
               \/ Killed(c) \/ ApplyFails(c) \/ FailureIgnored(c)
               \/ FetchUnresolved(c) \/ WriteUnsynced(c)
        PROVE  Lands'
    BY <1>1, <1>6, MishapsLands
  <1>7. CASE RunWorks
    BY <1>1, <1>7, RunWorksLands
  <1>8. ASSUME NEW r \in Repos, UserTakesBranch(r) \/ UserGivesUpBranch(r) PROVE Lands'
    BY <1>1, <1>8, UserLands DEF UserTakesBranch, UserGivesUpBranch, Record, Result
  <1>9. ASSUME NEW r \in Repos, CollectGarbage(r) PROVE Lands'
    BY <1>2, <1>9 DEF CollectGarbage, Record, Result, Facts
  <1> QED
    BY <1>3, <1>4, <1>5, <1>6, <1>7, <1>8, <1>9 DEF Next

\* A run whose applies do not overlap is never recorded imported with a branch
\* missing, whatever fails, is killed, or the user does in between.
THEOREM ImportedRunsAreWhole ==
    ASSUME Solo
    PROVE  Spec => []ImportedIsWhole
  <1>1. Lands => ImportedIsWhole
    BY DEF Lands, Recorded, ImportedIsWhole, Whole
  <1>2. Lands /\ [Next]_vars => Lands'
    BY NextLands
  <1> QED
    BY <1>1, <1>2, InitLands, PTL DEF Spec

\* No interruption leaves a superproject branch that names a commit a submodule's
\* branch does not have.
THEOREM SubmodulesLandFirst ==
    ASSUME Solo
    PROVE  Spec => []BranchesComeSubmodulesFirst
  <1>1. Lands => BranchesComeSubmodulesFirst
    <2> SUFFICES ASSUME Lands, branch[Super] \in Version
                 PROVE  \A r \in Moves(branch[Super]) : branch[r] = tree[branch[Super]][r]
      BY DEF BranchesComeSubmodulesFirst
    <2>1. Chosen # Nil /\ Chosen \in VersionOrNil
      BY Numbers, Places DEF Lands, Recorded, Untouched, Chosen, Typed, TypeOK
    <2>2. branch[Super] = tree[Chosen][Super] /\ Whole(Chosen)
      BY <2>1, Numbers, Places DEF Lands, Recorded
    <2>3. Chosen <= version /\ Chosen \in Version
      BY <2>1, Numbers DEF Lands, Recorded, Chosen
    <2>4. tree[Chosen][Super] = Chosen
      BY <2>3 DEF Lands, Recorded
    <2> QED
      BY <2>2, <2>4 DEF Whole, Steps
  <1>2. Lands /\ [Next]_vars => Lands'
    BY NextLands
  <1> QED
    BY <1>1, <1>2, InitLands, PTL DEF Spec

-----------------------------------------------------------------------------
(***************************************************************************)
(* What lands, lands as AtomicImport says: each action is a step of it, or *)
(* changes nothing it can see.                                             *)
(***************************************************************************)
Landed == {r \in Touched : branch[r] = tree[Chosen][r]}

LEMMA FactsAreSeen ==
    ASSUME UNCHANGED Facts
    PROVE  UNCHANGED Import!vars
  BY DEF Facts, Import!vars, Touched, Chosen, Steps, Moves

\* The first record of a plan is the choice.
LEMMA RecordingChooses ==
    ASSUME Lands, NEW v \in Version, state = "stopped", plan = Nil,
           state' = "stopped", plan' = v, UNCHANGED <<branch, landed, tree, version>>
    PROVE  Import!Choose
  <1>1. Untouched /\ Touched = {}
    BY NothingRecorded DEF Lands, Touched, Chosen
  <1>2. Chosen' = v /\ v # Nil
    BY Numbers DEF Chosen
  <1>3. Touched' = Steps(v) /\ Super \in Steps(v) /\ Steps(v) \subseteq Repos
    BY <1>2, StepsType DEF Touched, Steps, Moves
  <1>4. \A r \in Repos : branch[r] # tree[v][r]
    <2>1. \A r \in Repos : tree[v][r] \in Version
      BY DEF Lands, Typed, TypeOK
    <2> QED
      BY <1>1, <2>1, Numbers DEF Untouched
  <1>5. Landed = {} /\ Landed' = {}
    BY <1>1, <1>2, <1>3, <1>4 DEF Landed
  <1> QED
    BY <1>1, <1>3, <1>5 DEF Import!Choose, Landed

\* A branch created is a repository moved, or was in place already.
LEMMA CreatingMoves ==
    ASSUME Lands, NEW c \in Appliers, CreateRef(c)
    PROVE  Import!Next \/ UNCHANGED Import!vars
  <1>1. /\ Typed /\ Recorded /\ Placed(cmd[c]) /\ cmd[c].pc = "commit"
        /\ cmd[c].version \in Version /\ cmd[c].at \in Repos
    BY CmdOf DEF Lands, Formed, CreateRef, At
  <1>2. PICK v \in Version : v = cmd[c].version
    BY <1>1
  <1>3. PICK at \in Repos : at = cmd[c].at
    BY <1>1
  <1>4. /\ at \in Steps(v) /\ branch[at] \in {Nil, tree[v][at]}
        /\ branch' = [branch EXCEPT ![at] = tree[v][at]]
        /\ UNCHANGED <<state, plan, landed, tree, version>>
    BY <1>2, <1>3 DEF CreateRef, Tip, Record, Result
  <1>5. /\ state = "stopped" /\ plan = v
        /\ \A r \in Steps(v) : r < at => branch[r] = tree[v][r]
    BY <1>1, <1>2, <1>3 DEF Placed, Landing
  <1>6. Chosen = v /\ Chosen' = v /\ v # Nil
    BY <1>4, <1>5, Numbers DEF Chosen
  <1>7. Touched = Steps(v) /\ Touched' = Touched /\ Steps(v) \subseteq Repos
    BY <1>4, <1>6, StepsType DEF Touched, Steps, Moves
  <1>8. branch \in [Repos -> Commit] /\ tree[v][at] # Nil
    <2>1. tree[v][at] \in Version
      BY <1>1 DEF Typed, TypeOK
    <2> QED
      BY <1>1, <2>1, Numbers DEF Typed, TypeOK
  <1>9. CASE branch[at] = tree[v][at]
    <2>1. branch' = branch
      BY <1>4, <1>8, <1>9
    <2> QED
      BY <1>4, <2>1, FactsAreSeen DEF Facts
  <1>10. CASE branch[at] = Nil
    <2>1. at \in Touched \ Landed
      BY <1>4, <1>6, <1>7, <1>8, <1>10 DEF Landed
    <2>2. Landed' = Landed \cup {at}
      BY <1>4, <1>6, <1>7, <1>8 DEF Landed
    <2>3. at = Super => Touched \ Landed = {Super}
      <3>1. at = Super => \A r \in Steps(v) : r = at \/ r < at
        BY <1>7, Bounds DEF Repos, Super
      <3> QED
        BY <1>5, <1>6, <1>7, <2>1, <3>1 DEF Landed
    <2>4. (state = "imported")' = (state = "imported")
      BY <1>4
    <2>5. Import!Move(at)
      BY <1>7, <2>1, <2>2, <2>3, <2>4 DEF Import!Move, Landed
    <2> QED
      BY <2>5 DEF Import!Next
  <1> QED
    BY <1>4, <1>9, <1>10

\* The record says imported when every repository has moved.
LEMMA ImportingFinishes ==
    ASSUME Lands, NEW c \in Appliers, At(c, "import done"),
           state' = "imported", landed' = cmd[c].version, UNCHANGED <<branch, tree>>
    PROVE  Import!Finish
  <1>1. Placed(cmd[c]) /\ cmd[c].version \in Version
    BY CmdOf DEF Lands, Formed, At
  <1>2. PICK v \in Version : v = cmd[c].version
    BY <1>1
  <1>3. state = "stopped" /\ plan = v /\ Whole(v)
    BY <1>1, <1>2 DEF Placed, Landing, At
  <1>4. Chosen = v /\ Chosen' = v /\ v # Nil
    BY <1>2, <1>3, Numbers DEF Chosen
  <1>5. Touched = Steps(v) /\ Touched' = Touched /\ Super \in Touched
    BY <1>4, StepsType DEF Touched, Steps, Moves
  <1>6. Landed = Touched /\ Landed' = Landed
    BY <1>3, <1>4, <1>5 DEF Landed, Whole
  <1> QED
    BY <1>5, <1>6 DEF Import!Finish, Landed

\* What the user does to a branch that is not the run's is not seen.
LEMMA UserIsUnseen ==
    ASSUME Lands, NEW r \in Repos, NEW b \in {Nil, Theirs},
           branch[r] \in {Nil, Theirs}, branch' = [branch EXCEPT ![r] = b],
           UNCHANGED <<state, plan, landed, tree>>
    PROVE  UNCHANGED Import!vars
  <1>1. Typed /\ Chosen' = Chosen /\ Chosen \in VersionOrNil
    BY DEF Lands, Typed, TypeOK, Chosen
  <1>2. Touched' = Touched /\ Touched \subseteq Repos
    BY <1>1, StepsType DEF Touched, Steps, Moves
  <1>3. CASE Touched = {}
    BY <1>2, <1>3 DEF Import!vars
  <1>4. CASE Touched # {}
    <2>1. Chosen \in Version
      BY <1>1, <1>4, Numbers DEF Touched
    <2>2. \A q \in Repos : tree[Chosen][q] \notin {Nil, Theirs}
      <3>1. \A q \in Repos : tree[Chosen][q] \in Version
        BY <1>1, <2>1 DEF Typed, TypeOK
      <3> QED
        BY <3>1, Numbers
    <2>3. \A q \in Repos : branch'[q] = IF q = r THEN b ELSE branch[q]
      BY <1>1 DEF Typed, TypeOK
    <2>4. Landed' = Landed
      BY <1>1, <1>2, <2>2, <2>3 DEF Landed
    <2> QED
      BY <1>2, <2>4 DEF Import!vars, Landed
  <1> QED
    BY <1>3, <1>4

LEMMA StepsImport ==
    ASSUME Lands, [Next]_vars
    PROVE  Import!Next \/ UNCHANGED Import!vars
  <1> USE DEF Record, Result, Facts
  <1>1. CASE UNCHANGED Facts
    BY <1>1, FactsAreSeen
  <1>2. ASSUME NEW c \in Appliers, Proceeds(c)
        PROVE  Import!Next \/ UNCHANGED Import!vars
    <2>1. CASE RecordPlan(c)
      <3>1. Placed(cmd[c]) /\ cmd[c].version \in Version /\ cmd[c].pc = "record"
        BY <2>1, CmdOf DEF Lands, Formed, RecordPlan, At
      <3>2. state = "stopped" /\ plan = Nil
        BY <3>1 DEF Placed, Importing
      <3>3. Import!Choose
        BY <2>1, <3>1, <3>2, RecordingChooses DEF RecordPlan
      <3> QED
        BY <3>3 DEF Import!Next
    <2>2. CASE CreateRef(c)
      BY <2>2, CreatingMoves
    <2>3. CASE CompleteApply(c)
      BY <2>3, ImportingFinishes DEF CompleteApply, Import!Next
    <2>4. CASE RollBackBranch(c)
      BY <1>1, <2>4, UndoIsQuiet DEF RollBackBranch
    <2>5. CASE SkipImport(c) \/ FetchBundle(c) \/ BranchIsTaken(c) \/ CheckSubmodules(c)
      BY <1>1, <2>5 DEF SkipImport, FetchBundle, BranchIsTaken, CheckSubmodules
    <2>6. CASE ReadRecord(c) \/ SkipCommit(c) \/ CommitIsRefused(c) \/ DropTemporaryRef(c)
      BY <1>1, <2>6 DEF ReadRecord, SkipCommit, CommitIsRefused, DropTemporaryRef
    <2>7. CASE ReadPlan(c) \/ RollBackTemporaryRef(c) \/ RolledBack(c)
      BY <1>1, <2>7 DEF ReadPlan, RollBackTemporaryRef, RolledBack
    <2> QED
      BY <1>2, <2>1, <2>2, <2>3, <2>4, <2>5, <2>6, <2>7 DEF Proceeds
  <1>3. ASSUME NEW c \in Appliers, WriteUnsynced(c)
        PROVE  Import!Next \/ UNCHANGED Import!vars
    <2>1. CASE At(c, "record")
      <3>1. Placed(cmd[c]) /\ cmd[c].version \in Version
        BY <2>1, CmdOf DEF Lands, Formed, At
      <3>2. state = "stopped" /\ plan = Nil
        BY <2>1, <3>1 DEF Placed, Importing, At
      <3>3. state' = "stopped" /\ plan' = cmd[c].version /\ UNCHANGED <<branch, landed, tree, version>>
        BY <1>3, <2>1 DEF WriteUnsynced, At
      <3>4. Import!Choose
        BY <3>1, <3>2, <3>3, RecordingChooses
      <3> QED
        BY <3>4 DEF Import!Next
    <2>2. CASE At(c, "import done")
      BY <1>3, <2>2, ImportingFinishes DEF WriteUnsynced, At, Import!Next
    <2> QED
      BY <1>3, <2>1, <2>2 DEF WriteUnsynced
  <1>4. ASSUME NEW c \in Appliers,
               \/ BeginApply(c) \/ Killed(c) \/ ApplyFails(c) \/ FailureIgnored(c)
               \/ FetchUnresolved(c)
        PROVE  UNCHANGED Facts
    BY <1>4 DEF BeginApply, Killed, ApplyFails, FailureIgnored, FetchUnresolved
  <1>5. CASE RunWorks
    <2>1. Touched = {} /\ Touched' = {} /\ state' = state
      BY <1>5 DEF RunWorks, Touched, Chosen
    <2> QED
      BY <2>1 DEF Import!vars
  <1>6. ASSUME NEW r \in Repos, UserTakesBranch(r) \/ UserGivesUpBranch(r)
        PROVE  UNCHANGED Import!vars
    BY <1>6, UserIsUnseen DEF UserTakesBranch, UserGivesUpBranch
  <1>7. ASSUME NEW r \in Repos, CollectGarbage(r)
        PROVE  UNCHANGED Facts
    BY <1>7 DEF CollectGarbage
  <1>8. CASE UNCHANGED vars
    BY <1>1, <1>8 DEF vars
  <1> QED
    BY <1>1, <1>2, <1>3, <1>4, <1>5, <1>6, <1>7, <1>8 DEF Next

LEMMA InitImport == Init => Import!Init
  BY DEF Init, Import!Init, Touched, Chosen

\* An apply lands one result, moves each repository once and the superproject
\* last, and is over when all have moved.
THEOREM ImplementsAtomicImport ==
    ASSUME Solo
    PROVE  Spec => LandsAtomically
  <1>1. Lands /\ [Next]_vars => Lands'
    BY NextLands
  <1>2. Lands /\ [Next]_vars => [Import!Next]_(Import!vars)
    BY StepsImport
  <1> QED
    BY <1>1, <1>2, InitLands, InitImport, PTL DEF Spec, LandsAtomically, Import!Spec
-----------------------------------------------------------------------------
(***************************************************************************)
(* A recorded plan can be finished: what it lands stays reachable by a ref *)
(* in every repository, from the fetch to the branch, so that no garbage   *)
(* collection takes it.                                                    *)
(***************************************************************************)
\* What a ref reaches is there.
Held == \A r \in Repos : Reachable(r) \cap Version \subseteq objects[r]

\* Where r's commit of v is kept by a ref.
Anchored(v, r) == tree[v][r] \in Reachable(r)

\* What an import has fetched before its plan is recorded; what is undone was
\* never planned.
Fetched(s) ==
    /\ s.pc = "import" => \A r \in Steps(s.version) : r < s.at => Anchored(s.version, r)
    /\ s.pc \in {"check", "begin", "record"} => \A r \in Steps(s.version) : Anchored(s.version, r)
    /\ s.pc \in Undoing => plan = Nil

Planned == plan # Nil => \A r \in Steps(plan) : Anchored(plan, r)

Assured == Planned /\ \A c \in Appliers : Fetched(cmd[c])

Kept == Held /\ (~mishaps.unsynced => Assured)

LEMMA HeadIsHeld == ASSUME Held, NEW r \in Repos PROVE Head \in objects[r]
  BY Numbers DEF Held, Reachable

\* Steps that move no ref and lose no commit.
LEMMA RefsHeld ==
    ASSUME Held, UNCHANGED <<branch, temp>>, \A r \in Repos : objects[r] \subseteq objects'[r]
    PROVE  Held'
  BY DEF Held, Reachable

\* Steps on one repository: what its refs reach anew is there, or is no commit of
\* the run's.
LEMMA RefMovedHeld ==
    ASSUME Held, NEW at \in Repos,
           \A r \in Repos : r # at => /\ branch'[r] = branch[r] /\ temp'[r] = temp[r]
                                      /\ objects'[r] = objects[r],
           objects[at] \subseteq objects'[at],
           branch'[at] \in {branch[at], Nil, Theirs} \cup objects'[at],
           temp'[at] \in {temp[at], Nil} \cup objects'[at]
    PROVE  Held'
  <1> SUFFICES ASSUME NEW r \in Repos, NEW k \in Version, k \in Reachable(r)'
               PROVE  k \in objects'[r]
    BY DEF Held
  <1>1. k # Nil /\ k # Theirs
    BY Numbers
  <1>2. k \in {Head, branch'[r], temp'[r]}
    BY DEF Reachable
  <1>3. \A q \in Repos : q # at => objects'[q] = objects[q]
    OBVIOUS
  <1>4. k \in {Head, branch[r], temp[r]} => k \in objects[r]
    BY DEF Held, Reachable
  <1>5. CASE r # at
    BY <1>2, <1>4, <1>5
  <1>6. CASE r = at
    BY <1>1, <1>2, <1>4, <1>6
  <1> QED
    BY <1>5, <1>6

LEMMA DroppedHeld ==
    ASSUME Typed, Held, NEW c \in Appliers, cmd[c].at \in Repos, Dropped(c),
           UNCHANGED <<branch, objects>>
    PROVE  Held'
  <1>1. /\ temp'[cmd[c].at] \in {temp[cmd[c].at], Nil}
        /\ \A r \in Repos : r # cmd[c].at => temp'[r] = temp[r]
    BY DEF Dropped, Typed, TypeOK
  <1> QED
    BY <1>1, RefMovedHeld

LEMMA FetchedHeld ==
    ASSUME Typed, Held, NEW c \in Appliers, NEW at \in Repos,
           temp' = [temp EXCEPT ![at] = Tip(c)],
           objects' = [objects EXCEPT ![at] = @ \cup {Tip(c)}],
           UNCHANGED branch
    PROVE  Held'
  <1>1. /\ temp'[at] = Tip(c) /\ objects'[at] = objects[at] \cup {Tip(c)}
        /\ \A r \in Repos : r # at => temp'[r] = temp[r] /\ objects'[r] = objects[r]
    BY DEF Typed, TypeOK
  <1> QED
    BY <1>1, RefMovedHeld

LEMMA ProceedsHeld ==
    ASSUME Typed, Held, NEW c \in Appliers, Proceeds(c)
    PROVE  Held'
  <1>1. Formed(cmd[c]) /\ (~At(c, "discard") => cmd[c].at \in Repos)
    BY CmdOf DEF Formed, At
  <1>2. CASE UNCHANGED <<branch, temp, objects>>
    BY <1>2, RefsHeld
  <1>3. CASE FetchBundle(c)
    <2>1. cmd[c].at \in Repos /\ UNCHANGED branch
      BY <1>1, <1>3 DEF FetchBundle, At
    <2>2. CASE Tip(c) = Head
      BY <1>2, <1>3, <2>2 DEF FetchBundle
    <2>3. CASE Tip(c) # Head
      BY <1>3, <2>1, <2>3, FetchedHeld DEF FetchBundle
    <2> QED
      BY <2>2, <2>3
  <1>4. CASE CreateRef(c)
    <2> DEFINE at == cmd[c].at
    <2>1. at \in Repos /\ Tip(c) \in objects[at] /\ UNCHANGED <<temp, objects>>
      BY <1>1, <1>4 DEF CreateRef, At
    <2>2. branch'[at] = Tip(c) /\ \A r \in Repos : r # at => branch'[r] = branch[r]
      BY <1>4, <2>1 DEF CreateRef, Typed, TypeOK
    <2> QED
      BY <2>1, <2>2, RefMovedHeld
  <1>5. CASE DropTemporaryRef(c)
    BY <1>1, <1>5, DroppedHeld DEF DropTemporaryRef, At
  <1>6. CASE RollBackTemporaryRef(c)
    <2>1. cmd[c].at \in Repos
      BY <1>1, <1>6, Places DEF RollBackTemporaryRef, RollsOn, Formed, Applier
    <2> QED
      BY <1>2, <1>6, <2>1, DroppedHeld DEF RollBackTemporaryRef
  <1>7. CASE RollBackBranch(c)
    <2> DEFINE at == cmd[c].at
    <2>1. at \in Repos /\ UNCHANGED <<temp, objects>>
      BY <1>1, <1>7 DEF RollBackBranch, At
    <2>2. branch'[at] \in {branch[at], Nil} /\ \A r \in Repos : r # at => branch'[r] = branch[r]
      BY <1>7, <2>1 DEF RollBackBranch, Typed, TypeOK
    <2> QED
      BY <2>1, <2>2, RefMovedHeld
  <1>8. \/ UNCHANGED <<branch, temp, objects>>
        \/ FetchBundle(c) \/ CreateRef(c) \/ DropTemporaryRef(c)
        \/ RollBackTemporaryRef(c) \/ RollBackBranch(c)
    BY DEF Proceeds, SkipImport, BranchIsTaken, CheckSubmodules, ReadRecord, RecordPlan, SkipCommit,
           CommitIsRefused, ReadPlan, CompleteApply, RolledBack
  <1> QED
    BY <1>2, <1>3, <1>4, <1>5, <1>6, <1>7, <1>8

LEMMA NextHeld == Typed /\ Held /\ [Next]_vars => Held'
  <1> SUFFICES ASSUME Typed, Held, [Next]_vars PROVE Held'
    OBVIOUS
  <1>1. CASE UNCHANGED <<branch, temp, objects>>
    BY <1>1, RefsHeld
  <1>2. ASSUME NEW c \in Appliers, FetchUnresolved(c) PROVE Held'
    <2>1. cmd[c].at \in Repos
      BY <1>2, CmdOf DEF FetchUnresolved, At, Formed
    <2> QED
      BY <1>2, <2>1, FetchedHeld DEF FetchUnresolved
  <1>3. ASSUME NEW r \in Repos, UserTakesBranch(r) \/ UserGivesUpBranch(r) PROVE Held'
    <2>1. branch'[r] \in {Nil, Theirs} /\ \A q \in Repos : q # r => branch'[q] = branch[q]
      BY <1>3 DEF UserTakesBranch, UserGivesUpBranch, Typed, TypeOK
    <2> QED
      BY <1>3, <2>1, RefMovedHeld DEF UserTakesBranch, UserGivesUpBranch
  <1>4. ASSUME NEW r \in Repos, CollectGarbage(r) PROVE Held'
    <2>1. UNCHANGED <<branch, temp>>
      BY <1>4 DEF CollectGarbage
    <2>2. \A q \in Repos : objects'[q] = IF q = r THEN objects[q] \cap Reachable(q) ELSE objects[q]
      BY <1>4 DEF CollectGarbage, Typed, TypeOK
    <2> QED
      BY <2>1, <2>2 DEF Held, Reachable
  <1>5. \/ UNCHANGED <<branch, temp, objects>>
        \/ \E c \in Appliers : Proceeds(c) \/ FetchUnresolved(c)
        \/ \E r \in Repos : UserTakesBranch(r) \/ UserGivesUpBranch(r) \/ CollectGarbage(r)
    BY DEF Next, BeginApply, Killed, ApplyFails, FailureIgnored, WriteUnsynced, RunWorks, vars
  <1> QED
    BY <1>1, <1>2, <1>3, <1>4, <1>5, ProceedsHeld

\* An applier that neither fetches nor undoes has nothing to answer for here.
LEMMA ElsewhereFetched ==
    ASSUME NEW s, s.pc \notin Importing \cup Undoing
    PROVE  Fetched(s)
  BY DEF Fetched, Importing

\* With no plan recorded, only what is being imported has to be anchored.
LEMMA UnplannedAssured ==
    ASSUME Solo, NEW c \in Appliers, plan' = Nil,
           cmd'[c].pc \in Undoing \/ cmd'[c].pc \notin Importing
    PROVE  Assured'
  <1>1. Fetched(cmd[c])'
    BY DEF Fetched, Importing, Undoing
  <1> QED
    BY <1>1 DEF Assured, Planned, Solo

\* Steps that move no ref.
LEMMA QuietAssured ==
    ASSUME Solo, Assured, UNCHANGED <<branch, temp, plan, tree>>,
           NEW c \in Appliers, Fetched(cmd'[c])
    PROVE  Assured'
  <1>1. Fetched(cmd[c])' /\ Planned'
    BY DEF Assured, Planned, Fetched, Anchored, Reachable, Steps, Moves
  <1> QED
    BY <1>1 DEF Assured, Solo

\* Where a commit lands, only what the plan names has to be anchored.
LEMMA LandingAssured ==
    ASSUME Solo, Planned', NEW c \in Appliers, cmd'[c].pc \notin Importing \cup Undoing
    PROVE  Assured'
  <1>1. Fetched(cmd[c])'
    BY DEF Fetched, Importing
  <1> QED
    BY <1>1 DEF Assured, Solo

LEMMA BeginAssured ==
    ASSUME Solo, Lands, Assured, NEW c \in Appliers, BeginApply(c)
    PROVE  Assured'
  <1>1. cmd'[c].pc \in {"commit", "import"} /\ cmd'[c].at = 1
    BY DEF BeginApply, Lands, Typed, TypeOK, Idle
  <1>2. \A r \in Steps(cmd'[c].version) : ~(r < 1)
    BY StepsType, Bounds DEF Repos
  <1>3. Fetched(cmd'[c])
    BY <1>1, <1>2 DEF Fetched, Undoing
  <1> QED
    BY <1>3, QuietAssured DEF BeginApply, Record, Result

\* The import is through with a repository: what it has fetched of the others stays.
LEMMA ImportGoesOn ==
    ASSUME Solo, Lands, Assured, NEW c \in Appliers, At(c, "import"),
           Advances(c, Super, "check"), UNCHANGED <<plan, tree>>,
           NEW v \in Version, v = cmd[c].version,
           NEW at \in Repos, at = cmd[c].at,
           \A r \in Steps(v) : (r < at /\ Anchored(v, r)) => Anchored(v, r)',
           at \in Steps(v) => Anchored(v, at)'
    PROVE  Assured'
  <1>1. plan = Nil /\ \A r \in Steps(v) : r < at => Anchored(v, r)
    BY DEF Assured, Fetched, At, Lands, Placed, Importing
  <1>2. Steps(v)' = Steps(v) /\ Steps(v) \subseteq Repos
    BY StepsType DEF Steps, Moves
  <1>3. \A r \in Steps(v) : r < at + 1 => Anchored(v, r)'
    <2> SUFFICES ASSUME NEW r \in Steps(v), r < at + 1 PROVE Anchored(v, r)'
      OBVIOUS
    <2>1. r < at \/ r = at
      BY <1>2, Bounds DEF Repos
    <2> QED
      BY <1>1, <2>1
  <1>4. /\ cmd'[c].pc = IF at = Super THEN "check" ELSE "import"
        /\ cmd'[c].at = IF at = Super THEN 1 ELSE at + 1
        /\ cmd'[c].version = v
    BY AdvancesGoes DEF Lands, At
  <1>5. at = Super => \A r \in Steps(v) : r < at + 1
    BY <1>2, Bounds DEF Repos, Super
  <1>6. Fetched(cmd[c])'
    <2>1. CASE at = Super
      BY <1>2, <1>3, <1>4, <1>5, <2>1 DEF Fetched, Undoing
    <2>2. CASE at # Super
      BY <1>2, <1>3, <1>4, <2>2 DEF Fetched, Undoing
    <2> QED
      BY <2>1, <2>2
  <1> QED
    BY <1>1, <1>6 DEF Assured, Planned, Solo

LEMMA ImportAssured ==
    ASSUME Solo, Lands, Assured, NEW c \in Appliers, SkipImport(c) \/ FetchBundle(c)
    PROVE  Assured'
  <1>1. PICK v \in Version, at \in Repos : v = cmd[c].version /\ at = cmd[c].at
    BY CmdOf DEF Lands, Formed, SkipImport, FetchBundle, At
  <1>2. At(c, "import") /\ Advances(c, Super, "check") /\ UNCHANGED <<plan, tree, branch>>
    BY DEF SkipImport, FetchBundle, Record, Result
  <1>3. /\ temp \in [Repos -> Commit] /\ Steps(v) \subseteq Repos
        /\ tree[v][at] = Tip(c)
    BY <1>1, StepsType DEF Lands, Typed, TypeOK, Tip
  <1>4. \A r \in Repos : r # at => temp'[r] = temp[r]
    BY <1>1, <1>3 DEF SkipImport, FetchBundle
  <1>5. \A r \in Steps(v) : (r < at /\ Anchored(v, r)) => Anchored(v, r)'
    <2> SUFFICES ASSUME NEW r \in Steps(v), r < at, Anchored(v, r) PROVE Anchored(v, r)'
      OBVIOUS
    <2>1. r \in Repos /\ r # at
      BY <1>3, Bounds DEF Repos
    <2> QED
      BY <1>2, <1>4, <2>1 DEF Anchored, Reachable
  <1>6. at \in Steps(v) => Anchored(v, at)'
    <2>1. CASE FetchBundle(c)
      <3>1. Tip(c) = Head \/ temp'[at] = Tip(c)
        BY <1>1, <1>3, <2>1 DEF FetchBundle
      <3> QED
        BY <1>2, <1>3, <3>1 DEF Anchored, Reachable
    <2>2. CASE SkipImport(c)
      BY <1>1, <2>2 DEF SkipImport
    <2> QED
      BY <2>1, <2>2
  <1> QED
    BY <1>1, <1>2, <1>5, <1>6, ImportGoesOn

LEMMA UnrecordedAssured ==
    ASSUME Solo, Lands, Assured, NEW c \in Appliers,
           BranchIsTaken(c) \/ CheckSubmodules(c) \/ ReadRecord(c)
    PROVE  Assured'
  <1>1. UNCHANGED <<branch, temp, plan, tree>> /\ cmd[c].pc \in Importing
    BY DEF BranchIsTaken, CheckSubmodules, ReadRecord, Record, Result, At, Importing
  <1>2. plan = Nil
    BY <1>1 DEF Lands, Placed
  <1>3. CASE \E limit : RollsBack(c, limit)
    <2>1. cmd'[c].pc = "discard"
      BY <1>3, RollsBackGoes DEF Lands
    <2> QED
      BY <1>1, <1>2, <2>1, UnplannedAssured DEF Undoing
  <1>4. CASE \/ At(c, "check") /\ Goto(c, "begin")
             \/ At(c, "begin") /\ Goto(c, "record")
    <2>1. /\ cmd[c].pc \in {"check", "begin"} /\ cmd'[c].pc \in {"begin", "record"}
          /\ cmd'[c].version = cmd[c].version
      BY <1>4, GotoGoes DEF Lands, At
    <2>2. Fetched(cmd'[c])
      BY <2>1 DEF Assured, Fetched, Undoing
    <2> QED
      BY <1>1, <2>2, QuietAssured
  <1> QED
    BY <1>3, <1>4 DEF BranchIsTaken, CheckSubmodules, ReadRecord

LEMMA RecordPlanAssured ==
    ASSUME Solo, Lands, Assured, NEW c \in Appliers, RecordPlan(c)
    PROVE  Assured'
  <1>1. /\ cmd[c].pc = "record" /\ UNCHANGED <<branch, temp, tree>>
        /\ plan' = cmd[c].version
    BY DEF RecordPlan, At, Result
  <1>2. \A r \in Steps(cmd[c].version) : Anchored(cmd[c].version, r)
    BY <1>1 DEF Assured, Fetched
  <1>3. Planned'
    BY <1>1, <1>2 DEF Planned, Anchored, Reachable, Steps, Moves
  <1>4. cmd'[c].pc = "commit"
    BY GotoGoes DEF RecordPlan, Lands
  <1> QED
    BY <1>3, <1>4, LandingAssured DEF Importing, Undoing

\* A branch is created at the commit the plan names, and its temporary ref goes
\* only after it.
LEMMA CommitAssured ==
    ASSUME Solo, Lands, Assured, NEW c \in Appliers, CreateRef(c) \/ DropTemporaryRef(c)
    PROVE  Assured'
  <1>1. Typed /\ Placed(cmd[c]) /\ Formed(cmd[c])
    BY CmdOf DEF Lands
  <1>2. PICK v \in Version, at \in Repos : v = cmd[c].version /\ at = cmd[c].at
    BY <1>1 DEF Formed, CreateRef, DropTemporaryRef, At
  <1>3. plan = v /\ v # Nil /\ plan' = v /\ tree' = tree /\ Steps(v) \subseteq Repos
    BY <1>1, <1>2, Numbers, StepsType
       DEF CreateRef, DropTemporaryRef, Record, Result, Placed, Landing, At
  <1>4. \A r \in Steps(v) : tree[v][r] \in {Head, branch[r], temp[r]}
    BY <1>3 DEF Assured, Planned, Anchored, Reachable
  <1>5. Steps(v)' = Steps(v)
    BY <1>3 DEF Steps, Moves
  <1>6. \A r \in Repos : r # at => branch'[r] = branch[r] /\ temp'[r] = temp[r]
    BY <1>1, <1>2 DEF CreateRef, DropTemporaryRef, Dropped, Typed, TypeOK
  <1>7. at \in Steps(v) => branch'[at] = tree[v][at]
    <2>1. CASE CreateRef(c)
      BY <1>1, <1>2, <2>1 DEF CreateRef, Tip, Typed, TypeOK
    <2>2. CASE DropTemporaryRef(c)
      BY <1>1, <1>2, <2>2 DEF DropTemporaryRef, At, Placed
    <2> QED
      BY <2>1, <2>2
  <1>8. \A r \in Steps(v) : tree[v][r] \in {Head, branch'[r], temp'[r]}
    BY <1>3, <1>4, <1>6, <1>7
  <1>9. Planned'
    BY <1>3, <1>5, <1>8 DEF Planned, Anchored, Reachable
  <1>10. cmd'[c].pc \in {"drop", "commit", "complete"}
    BY <1>1, GotoGoes, NextCommitGoes DEF CreateRef, DropTemporaryRef
  <1> QED
    BY <1>9, <1>10, LandingAssured DEF Importing, Undoing

\* The other steps of a commit, the end of it, and a rollback.
LEMMA OthersAssured ==
    ASSUME Solo, Lands, Assured, NEW c \in Appliers,
           \/ SkipCommit(c) \/ CommitIsRefused(c) \/ ReadPlan(c) \/ CompleteApply(c)
           \/ RollBackTemporaryRef(c) \/ RollBackBranch(c) \/ RolledBack(c)
    PROVE  Assured'
  <1>1. Typed
    BY DEF Lands
  <1> USE DEF Record, Result, At
  <1>2. CASE SkipCommit(c)
    <2>1. cmd'[c].pc \in {"commit", "complete"}
      BY <1>1, <1>2, AdvancesGoes DEF SkipCommit
    <2> QED
      BY <1>2, <2>1, ElsewhereFetched, QuietAssured DEF SkipCommit, Importing, Undoing
  <1>3. CASE CommitIsRefused(c) \/ RolledBack(c)
    <2>1. cmd'[c].pc = "idle"
      BY <1>1, <1>3, StopsGoes DEF CommitIsRefused, RolledBack
    <2> QED
      BY <1>3, <2>1, ElsewhereFetched, QuietAssured DEF CommitIsRefused, RolledBack, Importing, Undoing
  <1>4. CASE ReadPlan(c)
    <2>1. cmd'[c].pc \in {"idle", "import done"}
      <3>1. CASE Stops(c)
        BY <1>1, <3>1, StopsGoes
      <3>2. CASE cmd' = [cmd EXCEPT ![c].pc = "import done", ![c].version = plan]
        BY <1>1, <3>2 DEF Typed, TypeOK, Applier
      <3> QED
        BY <1>4, <3>1, <3>2 DEF ReadPlan
    <2> QED
      BY <1>4, <2>1, ElsewhereFetched, QuietAssured DEF ReadPlan, Importing, Undoing
  <1>5. CASE CompleteApply(c)
    <2>1. cmd'[c].pc = "idle" /\ plan' = Nil
      BY <1>1, <1>5, StopsGoes DEF CompleteApply
    <2> QED
      BY <2>1, UnplannedAssured DEF Importing
  <1>6. CASE RollBackTemporaryRef(c) \/ RollBackBranch(c)
    <2>1. plan = Nil /\ plan' = Nil
      BY <1>6 DEF RollBackTemporaryRef, RollBackBranch, Assured, Fetched, Undoing
    <2>2. cmd'[c].pc \in Undoing
      BY <1>1, <1>6, GotoGoes, NextUndoGoes DEF RollBackTemporaryRef, RollBackBranch, Undoing
    <2> QED
      BY <2>1, <2>2, UnplannedAssured
  <1> QED
    BY <1>2, <1>3, <1>4, <1>5, <1>6

LEMMA MishapIs ==
    ASSUME NEW kind, Mishap(kind)
    PROVE  mishaps'.unsynced = (mishaps.unsynced \/ kind = "unsynced")
  BY DEF Mishap

LEMMA MishapsAssured ==
    ASSUME Solo, Lands, Assured, ~mishaps'.unsynced, NEW c \in Appliers,
           \/ Killed(c) \/ ApplyFails(c) \/ FailureIgnored(c)
           \/ FetchUnresolved(c) \/ WriteUnsynced(c)
    PROVE  Assured'
  <1>1. Typed /\ Placed(cmd[c]) /\ Fetched(cmd[c])
    BY DEF Lands, Assured
  <1> USE DEF Record, Result, At
  <1>2. ASSUME cmd[c].pc \in Importing, \E limit : RollsBack(c, limit), UNCHANGED plan
        PROVE  Assured'
    <2>1. plan' = Nil
      BY <1>1, <1>2 DEF Placed
    <2>2. cmd'[c].pc = "discard"
      BY <1>1, <1>2, RollsBackGoes
    <2> QED
      BY <2>1, <2>2, UnplannedAssured DEF Undoing
  <1>3. ASSUME Stops(c), UNCHANGED <<branch, temp, plan, tree>>
        PROVE  Assured'
    <2>1. cmd'[c].pc = "idle"
      BY <1>1, <1>3, StopsGoes
    <2> QED
      BY <1>3, <2>1, ElsewhereFetched, QuietAssured DEF Importing, Undoing
  <1>4. CASE Killed(c)
    BY <1>3, <1>4 DEF Killed
  <1>5. CASE ApplyFails(c)
    BY <1>2, <1>3, <1>5 DEF ApplyFails, Importing
  <1>6. CASE FailureIgnored(c)
    <2>1. CASE cmd[c].pc = "drop" /\ NextCommit(c)
      <3>1. cmd'[c].pc \in {"commit", "complete"}
        BY <1>1, <2>1, NextCommitGoes
      <3> QED
        BY <1>6, <3>1, ElsewhereFetched, QuietAssured DEF FailureIgnored, Importing, Undoing
    <2>2. CASE cmd[c].pc \in Undoing /\ (Goto(c, "undo") \/ NextUndo(c))
      <3>1. cmd'[c].pc \in Undoing
        BY <1>1, <2>2, GotoGoes, NextUndoGoes DEF Undoing
      <3>2. plan' = Nil
        BY <1>1, <1>6, <2>2 DEF FailureIgnored, Fetched
      <3> QED
        BY <3>1, <3>2, UnplannedAssured
    <2> QED
      BY <1>6, <2>1, <2>2 DEF FailureIgnored, Undoing
  <1>7. CASE FetchUnresolved(c)
    BY <1>2, <1>7 DEF FetchUnresolved, Importing
  <1>8. ~WriteUnsynced(c)
    <2>1. ~Mishap("unsynced")
      BY MishapIs
    <2> QED
      BY <2>1 DEF WriteUnsynced
  <1> QED
    BY <1>4, <1>5, <1>6, <1>7, <1>8

\* What the run and the user do besides.  The run works only while no plan is
\* recorded, and makes a version of its own; a branch of the user's is no commit of
\* the run's.
LEMMA RunWorksAssured ==
    ASSUME Lands, Assured, RunWorks
    PROVE  Assured'
  <1>1. /\ Typed /\ plan = Nil /\ UNCHANGED <<branch, temp, plan, cmd>>
        /\ version \in Version /\ version + 1 \notin 0 .. version
    BY Bounds DEF RunWorks, Record, Lands, Typed, TypeOK, Version
  <1>2. \A v \in Version : v <= version => tree'[v] = tree[v]
    BY <1>1, Bounds DEF RunWorks, Typed, TypeOK, Version
  <1>3. ASSUME NEW c \in Appliers PROVE Fetched(cmd[c])'
    <2>1. CASE cmd[c].pc \in Importing
      <3>1. cmd[c].version \in Version /\ cmd[c].version <= version
        BY <1>1, <2>1, CmdOf DEF Formed, Importing, Lands, Placed
      <3>2. PICK v \in Version : v = cmd[c].version
        BY <3>1
      <3>3. tree'[v] = tree[v] /\ Fetched(cmd[c])
        BY <1>2, <3>1, <3>2 DEF Assured
      <3>4. Steps(v)' = Steps(v) /\ \A r : Anchored(v, r)' = Anchored(v, r)
        BY <1>1, <3>3 DEF Steps, Moves, Anchored, Reachable
      <3>5. cmd'[c] = cmd[c] /\ cmd[c].version = v
        BY <1>1, <3>2
      <3> QED
        BY <2>1, <3>3, <3>4, <3>5 DEF Fetched, Importing, Undoing
    <2>2. CASE cmd[c].pc \notin Importing
      BY <1>1, <2>2 DEF Fetched, Importing
    <2> QED
      BY <2>1, <2>2
  <1> QED
    BY <1>1, <1>3 DEF Assured, Planned

LEMMA UserAssured ==
    ASSUME Lands, Assured, NEW at \in Repos, UserTakesBranch(at) \/ UserGivesUpBranch(at)
    PROVE  Assured'
  <1>1. /\ Typed /\ UNCHANGED <<temp, plan, tree, cmd>>
        /\ branch[at] \in {Nil, Theirs} /\ branch'[at] \in {Nil, Theirs}
        /\ \A r \in Repos : r # at => branch'[r] = branch[r]
    BY DEF UserTakesBranch, UserGivesUpBranch, Record, Result, Lands, Typed, TypeOK
  <1>2. \A v \in Version : \A r \in Repos : Anchored(v, r) => Anchored(v, r)'
    <2> SUFFICES ASSUME NEW v \in Version, NEW r \in Repos, Anchored(v, r)
                 PROVE  tree[v][r] \in {Head, branch'[r], temp[r]}
      BY <1>1 DEF Anchored, Reachable
    <2>1. tree[v][r] \in Version
      BY <1>1 DEF Typed, TypeOK
    <2> QED
      BY <1>1, <2>1, Numbers DEF Anchored, Reachable
  <1>3. \A v : Steps(v)' = Steps(v) /\ Steps(v) \subseteq Repos
    BY <1>1, StepsType DEF Steps, Moves
  <1>4. Planned'
    <2>1. plan # Nil => plan \in Version
      BY <1>1, Numbers DEF Typed, TypeOK
    <2> QED
      BY <1>1, <1>2, <1>3, <2>1 DEF Assured, Planned
  <1>5. ASSUME NEW c \in Appliers PROVE Fetched(cmd[c])'
    <2>1. Fetched(cmd[c]) /\ cmd'[c] = cmd[c] /\ plan' = plan
      BY <1>1 DEF Assured
    <2>2. cmd[c].pc \in Importing => cmd[c].version \in Version
      BY <1>1, CmdOf DEF Formed, Importing
    <2> QED
      BY <1>2, <1>3, <2>1, <2>2 DEF Fetched, Importing, Undoing
  <1> QED
    BY <1>4, <1>5 DEF Assured

LEMMA StillAssured ==
    ASSUME Assured, UNCHANGED <<branch, temp, plan, tree, cmd>>
    PROVE  Assured'
  BY DEF Assured, Planned, Fetched, Anchored, Reachable, Steps, Moves

LEMMA NextKept == Solo /\ Lands /\ Kept /\ [Next]_vars => Kept'
  <1> SUFFICES ASSUME Solo, Lands, Kept, [Next]_vars PROVE Kept'
    OBVIOUS
  <1>1. Held'
    BY NextHeld DEF Kept, Lands
  <1>2. ~mishaps'.unsynced => ~mishaps.unsynced
    <2>1. (\E kind : Mishap(kind)) \/ UNCHANGED mishaps
      BY DEF Next, BeginApply, Proceeds, SkipImport, FetchBundle, BranchIsTaken, CheckSubmodules,
             ReadRecord, RecordPlan, SkipCommit, CreateRef, CommitIsRefused, DropTemporaryRef,
             ReadPlan, CompleteApply, RollBackTemporaryRef, RollBackBranch, RolledBack, Killed,
             ApplyFails, FailureIgnored, FetchUnresolved, WriteUnsynced, RunWorks,
             UserTakesBranch, UserGivesUpBranch, CollectGarbage, vars
    <2> QED
      BY <2>1, MishapIs
  <1>3. ASSUME ~mishaps'.unsynced PROVE Assured'
    <2>1. Assured
      BY <1>2, <1>3 DEF Kept
    <2>2. ASSUME NEW c \in Appliers, Proceeds(c) PROVE Assured'
      BY <2>1, <2>2, ImportAssured, UnrecordedAssured, RecordPlanAssured, CommitAssured,
         OthersAssured DEF Proceeds
    <2>3. ASSUME NEW c \in Appliers,
                 \/ Killed(c) \/ ApplyFails(c) \/ FailureIgnored(c)
                 \/ FetchUnresolved(c) \/ WriteUnsynced(c)
          PROVE  Assured'
      BY <1>3, <2>1, <2>3, MishapsAssured
    <2>4. ASSUME NEW r \in Repos, CollectGarbage(r) PROVE Assured'
      BY <2>1, <2>4, StillAssured DEF CollectGarbage, Record, Result
    <2>5. CASE UNCHANGED vars
      BY <2>1, <2>5, StillAssured DEF vars
    <2> QED
      BY <2>1, <2>2, <2>3, <2>4, <2>5, BeginAssured, RunWorksAssured, UserAssured DEF Next
  <1> QED
    BY <1>1, <1>3 DEF Kept

LEMMA InitKept == Init => Kept
  <1> SUFFICES ASSUME Init PROVE Kept
    OBVIOUS
  <1>1. Held
    BY Numbers DEF Init, Held, Reachable
  <1>2. Planned /\ \A c \in Appliers : Fetched(cmd[c])
    BY DEF Init, Idle, Planned, Fetched, Undoing
  <1> QED
    BY <1>1, <1>2 DEF Kept, Assured

\* A plan that is recorded can be finished whenever apply is run again: whatever
\* was killed and collected in between, no repository has lost what it lands.
THEOREM PlansStayReplayable ==
    ASSUME Solo
    PROVE  Spec => []PlanStaysReplayable
  <1>1. Lands /\ Kept => PlanStaysReplayable
    <2> SUFFICES ASSUME Lands, Kept, plan # Nil, ~mishaps.unsynced, NEW r \in Steps(plan)
                 PROVE  tree[plan][r] \in objects[r]
      BY DEF PlanStaysReplayable
    <2>1. plan \in Version /\ r \in Repos
      BY Numbers, StepsType DEF Lands, Typed, TypeOK
    <2>2. tree[plan][r] \in Version
      BY <2>1 DEF Lands, Typed, TypeOK
    <2>3. tree[plan][r] \in Reachable(r)
      BY DEF Kept, Assured, Planned, Anchored
    <2> QED
      BY <2>1, <2>2, <2>3 DEF Kept, Held
  <1>2. Lands /\ Kept /\ [Next]_vars => (Lands /\ Kept)'
    BY NextLands, NextKept
  <1> QED
    BY <1>1, <1>2, InitLands, InitKept, PTL DEF Spec
==============================================================================
