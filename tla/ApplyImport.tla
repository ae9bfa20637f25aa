----------------------------- MODULE ApplyImport -----------------------------
(***************************************************************************)
(* How an apply lands a run's history in the user's repositories:          *)
(* gitstage's ImportApply, CommitApply and RollbackApply, driven by        *)
(* runctl's Apply.  The repositories are the submodules, 1 to N-1 in       *)
(* staged order, and the superproject, N.  No transaction spans them: an   *)
(* apply fetches into temporary refs, records a plan in the run's record,  *)
(* moves one branch at a time, and can be killed anywhere and run again.   *)
(* The user and git gc work in the same repositories meanwhile.            *)
(*                                                                         *)
(* The run's result is a version: tree[v] is the commit each repository    *)
(* has in it.  Version 1 is what was staged.  A commit is the number of    *)
(* the version that made it, and Theirs is any commit of the user's.       *)
(***************************************************************************)
EXTENDS Integers

CONSTANTS
    N,              \* how many repositories
    MaxVersion,     \* bound: versions of the run's result
    Appliers,       \* processes that run pisafe apply
    Mishaps,        \* which mishaps this instance allows
    MaxMishaps      \* bound: how many of them happen

ASSUME RepositoriesAssumption == N \in Nat \ {0}
ASSUME VersionAssumption == MaxVersion \in Nat \ {0}
ASSUME ApplyMishapsAssumption ==
    Mishaps \subseteq {"fail", "unsynced", "kill"} /\ MaxMishaps \in Nat

VARIABLES
    branch,     \* refs/heads/pisafe/RUN in each repository
    temp,       \* refs/pisafe/incoming/RUN in each repository
    objects,    \* the commits each repository holds
    state,      \* the run's record: its state ...
    plan,       \* ... and its recorded apply, as the version it lands
    landed,     \* the version an import completed with
    tree,       \* what each version of the run's result is made of
    version,    \* the version the run's workspace holds
    unstaged,   \* versions in which the run added a submodule of its own
    cmd,        \* where each applier is
    mishaps     \* mishaps so far, and whether a write was one of them

vars == <<branch, temp, objects, state, plan, landed, tree, version, unstaged, cmd, mishaps>>

Nil == 0
Head == 1                       \* the commit a repository was staged at
Theirs == MaxVersion + 1
Repos == 1 .. N
Super == N
Version == 1 .. MaxVersion
VersionOrNil == 0 .. MaxVersion
Commit == 0 .. Theirs

\* A version moves the superproject whenever it moves a submodule: the final
\* commit records where each one ended.
Moves(v) == {r \in Repos : tree[v][r] # Head}

\* The steps of the journal of v: the submodules it moved, then the superproject.
Steps(v) == Moves(v) \cup {Super}

\* limit is the repository the journal in memory has not reached: its steps are
\* those before it.
PC == {"idle", "import", "check", "begin", "record", "commit", "drop", "complete",
       "import done", "discard", "undo"}
Place == 1 .. N + 1
Applier == [pc : PC, at : Place, version : VersionOrNil, limit : Place]

Idle == [pc |-> "idle", at |-> 1, version |-> Nil, limit |-> 1]

Init ==
    /\ branch = [r \in Repos |-> Nil]
    /\ temp = [r \in Repos |-> Nil]
    /\ objects = [r \in Repos |-> {Head}]
    /\ state = "stopped"
    /\ plan = Nil
    /\ landed = Nil
    /\ tree = [v \in Version |-> [r \in Repos |-> Head]]
    /\ version = 1
    /\ unstaged = {}
    /\ cmd = [c \in Appliers |-> Idle]
    /\ mishaps = [count |-> 0, unsynced |-> FALSE]

-----------------------------------------------------------------------------
At(c, pc) == cmd[c].pc = pc
Goto(c, pc) == cmd' = [cmd EXCEPT ![c].pc = pc]
Stops(c) == cmd' = [cmd EXCEPT ![c] = Idle]

\* The commit of the repository c has reached, in the version it lands.
Tip(c) == tree[cmd[c].version][cmd[c].at]

\* Every step of the journal in memory is undone, from the first.
RollsBack(c, limit) ==
    cmd' = [cmd EXCEPT ![c].pc = "discard", ![c].at = 1, ![c].limit = limit]

\* c has done all it does in the repository it has reached.
Advances(c, last, then) ==
    cmd' = [cmd EXCEPT ![c].at = IF cmd[c].at = last THEN 1 ELSE @ + 1,
                       ![c].pc = IF cmd[c].at = last THEN then ELSE @]

Record == <<state, plan, landed>>
Result == <<tree, version, unstaged>>

-----------------------------------------------------------------------------
(***************************************************************************)
(* Apply: a recorded plan is finished, otherwise the run's result is       *)
(* captured and imported.                                                  *)
(***************************************************************************)
BeginApply(c) ==
    /\ At(c, "idle")
    /\ state = "stopped"
    /\ cmd' = [cmd EXCEPT ![c] =
                 [Idle EXCEPT !.pc = IF plan # Nil THEN "commit" ELSE "import",
                              !.version = IF plan # Nil THEN plan ELSE version]]
    /\ UNCHANGED <<branch, temp, objects, Record, Result, mishaps>>

\* A repository the run did not move has nothing to import.
SkipImport(c) ==
    /\ At(c, "import")
    /\ cmd[c].at \notin Steps(cmd[c].version)
    /\ Advances(c, Super, "check")
    /\ UNCHANGED <<branch, temp, objects, Record, Result, mishaps>>

\* Mutant of FetchBundle: the refspec is not forced, so a leftover refuses it.
FetchUnforced(c) ==
    LET r == cmd[c].at IN
    /\ At(c, "import")
    /\ r \in Steps(cmd[c].version)
    /\ branch[r] = Nil
    /\ temp[r] \in {Nil, Tip(c)}
    /\ IF Tip(c) = Head
       THEN UNCHANGED <<temp, objects>>
       ELSE /\ temp' = [temp EXCEPT ![r] = Tip(c)]
            /\ objects' = [objects EXCEPT ![r] = @ \cup {Tip(c)}]
    /\ Advances(c, Super, "check")
    /\ UNCHANGED <<branch, Record, Result, mishaps>>

\* The branch must be free.  The bundle is fetched into the temporary ref over
\* whatever an earlier import left there; an unmoved superproject has none.
FetchBundle(c) ==
    LET r == cmd[c].at IN
    /\ At(c, "import")
    /\ r \in Steps(cmd[c].version)
    /\ branch[r] = Nil
    /\ IF Tip(c) = Head
       THEN UNCHANGED <<temp, objects>>
       ELSE /\ temp' = [temp EXCEPT ![r] = Tip(c)]
            /\ objects' = [objects EXCEPT ![r] = @ \cup {Tip(c)}]
    /\ Advances(c, Super, "check")
    /\ UNCHANGED <<branch, Record, Result, mishaps>>

BranchIsTaken(c) ==
    /\ At(c, "import")
    /\ cmd[c].at \in Steps(cmd[c].version)
    /\ branch[cmd[c].at] # Nil
    /\ RollsBack(c, cmd[c].at)
    /\ UNCHANGED <<branch, temp, objects, Record, Result, mishaps>>

\* Every submodule pointer the superproject changed must name a commit its
\* submodule has, and no submodule may be the run's own.
SubmodulesPresent(v) ==
    /\ v \notin unstaged
    /\ \A r \in Moves(v) \ {Super} : tree[v][r] \in objects[r]

\* The superproject's step joins the journal only once this check has passed.
CheckSubmodules(c) ==
    /\ At(c, "check")
    /\ IF SubmodulesPresent(cmd[c].version)
       THEN Goto(c, "begin")
       ELSE RollsBack(c, Super)
    /\ UNCHANGED <<branch, temp, objects, Record, Result, mishaps>>

\* BeginApply reads the record, and refuses one that has a plan or is imported.
ReadRecord(c) ==
    /\ At(c, "begin")
    /\ IF state = "stopped" /\ plan = Nil
       THEN Goto(c, "record")
       ELSE RollsBack(c, N + 1)
    /\ UNCHANGED <<branch, temp, objects, Record, Result, mishaps>>

\* The record is replaced by the one that was read, with the plan in it.
RecordPlan(c) ==
    /\ At(c, "record")
    /\ state' = "stopped"
    /\ plan' = cmd[c].version
    /\ Goto(c, "commit")
    /\ UNCHANGED <<branch, temp, objects, landed, Result, mishaps>>

-----------------------------------------------------------------------------
(***************************************************************************)
(* CommitApply moves one branch at a time, compare-and-swap, and drops     *)
(* each temporary ref once the branch holds what it held.                  *)
(***************************************************************************)
SkipCommit(c) ==
    /\ At(c, "commit")
    /\ cmd[c].at \notin Steps(cmd[c].version)
    /\ Advances(c, Super, "complete")
    /\ UNCHANGED <<branch, temp, objects, Record, Result, mishaps>>

\* Mutant of CreateRef: a branch that holds something else is stepped over.
CreateRefUnlessTaken(c) ==
    LET r == cmd[c].at IN
    /\ At(c, "commit")
    /\ r \in Steps(cmd[c].version)
    /\ Tip(c) \in objects[r]
    /\ branch' = [branch EXCEPT ![r] = IF @ = Nil THEN Tip(c) ELSE @]
    /\ Goto(c, "drop")
    /\ UNCHANGED <<temp, objects, Record, Result, mishaps>>

\* A branch that already holds the commit is complete.
CreateRef(c) ==
    LET r == cmd[c].at IN
    /\ At(c, "commit")
    /\ r \in Steps(cmd[c].version)
    /\ branch[r] \in {Nil, Tip(c)}
    /\ Tip(c) \in objects[r]
    /\ branch' = [branch EXCEPT ![r] = Tip(c)]
    /\ Goto(c, "drop")
    /\ UNCHANGED <<temp, objects, Record, Result, mishaps>>

\* The plan stays recorded: a later apply finishes it.
CommitIsRefused(c) ==
    LET r == cmd[c].at IN
    /\ At(c, "commit")
    /\ r \in Steps(cmd[c].version)
    /\ branch[r] \notin {Nil, Tip(c)} \/ Tip(c) \notin objects[r]
    /\ Stops(c)
    /\ UNCHANGED <<branch, temp, objects, Record, Result, mishaps>>

Dropped(c) ==
    LET r == cmd[c].at IN
    temp' = [temp EXCEPT ![r] = IF @ = Tip(c) THEN Nil ELSE @]

NextCommit(c) ==
    cmd' = [cmd EXCEPT ![c].at = IF @ = Super THEN 1 ELSE @ + 1,
                       ![c].pc = IF cmd[c].at = Super THEN "complete" ELSE "commit"]

\* Mutant of DropTemporaryRef: every temporary ref goes with the first.
DropEveryTemporaryRef(c) ==
    /\ At(c, "drop")
    /\ temp' = [r \in Repos |-> Nil]
    /\ NextCommit(c)
    /\ UNCHANGED <<branch, objects, Record, Result, mishaps>>

DropTemporaryRef(c) ==
    /\ At(c, "drop")
    /\ Dropped(c)
    /\ NextCommit(c)
    /\ UNCHANGED <<branch, objects, Record, Result, mishaps>>

\* CompleteApply reads the record, and refuses one without a plan.
ReadPlan(c) ==
    /\ At(c, "complete")
    /\ IF state = "stopped" /\ plan # Nil
       THEN cmd' = [cmd EXCEPT ![c].pc = "import done", ![c].version = plan]
       ELSE Stops(c)
    /\ UNCHANGED <<branch, temp, objects, Record, Result, mishaps>>

CompleteApply(c) ==
    /\ At(c, "import done")
    /\ state' = "imported"
    /\ plan' = Nil
    /\ landed' = cmd[c].version
    /\ Stops(c)
    /\ UNCHANGED <<branch, temp, objects, Result, mishaps>>

-----------------------------------------------------------------------------
(***************************************************************************)
(* RollbackApply, for an apply whose plan did not reach the record.        *)
(***************************************************************************)
RollsOn(c) == cmd[c].at < cmd[c].limit

RollBackTemporaryRef(c) ==
    /\ At(c, "discard")
    /\ RollsOn(c)
    /\ IF cmd[c].at \in Steps(cmd[c].version) THEN Dropped(c) ELSE UNCHANGED temp
    /\ Goto(c, "undo")
    /\ UNCHANGED <<branch, objects, Record, Result, mishaps>>

NextUndo(c) == cmd' = [cmd EXCEPT ![c].pc = "discard", ![c].at = @ + 1]

RollBackBranch(c) ==
    LET r == cmd[c].at IN
    /\ At(c, "undo")
    /\ branch' = [branch EXCEPT ![r] =
                    IF r \in Steps(cmd[c].version) /\ @ = Tip(c) THEN Nil ELSE @]
    /\ NextUndo(c)
    /\ UNCHANGED <<temp, objects, Record, Result, mishaps>>

RolledBack(c) ==
    /\ At(c, "discard")
    /\ ~RollsOn(c)
    /\ Stops(c)
    /\ UNCHANGED <<branch, temp, objects, Record, Result, mishaps>>

-----------------------------------------------------------------------------
Mishap(kind) ==
    /\ kind \in Mishaps
    /\ mishaps.count < MaxMishaps
    /\ mishaps' = [count |-> mishaps.count + 1,
                   unsynced |-> mishaps.unsynced \/ kind = "unsynced"]

\* Mutant of ApplyFails: a commit that fails rolls back what the plan names.
ApplyFailsUndoing(c) ==
    /\ Mishap("fail")
    /\ \/ /\ cmd[c].pc \in {"import", "check"}
          /\ RollsBack(c, IF At(c, "check") THEN Super ELSE cmd[c].at)
       \/ /\ cmd[c].pc \in {"begin", "record", "commit", "drop"}
          /\ RollsBack(c, N + 1)
       \/ /\ cmd[c].pc \in {"complete", "import done", "discard", "undo"}
          /\ Stops(c)
    /\ UNCHANGED <<branch, temp, objects, Record, Result>>

\* A call fails.  Before the plan is recorded the import is rolled back; after
\* it, the apply stops where it is and a later one finishes the plan.
ApplyFails(c) ==
    /\ Mishap("fail")
    /\ \/ /\ cmd[c].pc \in {"import", "check"}
          /\ RollsBack(c, IF At(c, "check") THEN Super ELSE cmd[c].at)
       \/ /\ cmd[c].pc \in {"begin", "record"}
          /\ RollsBack(c, N + 1)
       \/ /\ cmd[c].pc \in {"commit", "complete", "import done", "undo"}
          /\ Stops(c)
    /\ UNCHANGED <<branch, temp, objects, Record, Result>>

\* Failing to drop a temporary ref, or to look at a branch, is passed over.
FailureIgnored(c) ==
    /\ Mishap("fail")
    /\ \/ At(c, "drop") /\ NextCommit(c)
       \/ At(c, "discard") /\ RollsOn(c) /\ Goto(c, "undo")
       \/ At(c, "undo") /\ NextUndo(c)
    /\ UNCHANGED <<branch, temp, objects, Record, Result>>

\* The fetch lands, and the apply fails before it can name what it fetched.
FetchUnresolved(c) ==
    LET r == cmd[c].at IN
    /\ Mishap("fail")
    /\ At(c, "import")
    /\ r \in Steps(cmd[c].version) /\ Tip(c) # Head
    /\ branch[r] = Nil
    /\ temp' = [temp EXCEPT ![r] = Tip(c)]
    /\ objects' = [objects EXCEPT ![r] = @ \cup {Tip(c)}]
    /\ RollsBack(c, r)
    /\ UNCHANGED <<branch, Record, Result>>

\* A record is replaced, and the write reports an error all the same.
WriteUnsynced(c) ==
    /\ Mishap("unsynced")
    /\ \/ /\ At(c, "record")
          /\ state' = "stopped" /\ plan' = cmd[c].version
          /\ RollsBack(c, N + 1)
          /\ UNCHANGED landed
       \/ /\ At(c, "import done")
          /\ state' = "imported" /\ plan' = Nil /\ landed' = cmd[c].version
          /\ Stops(c)
    /\ UNCHANGED <<branch, temp, objects, Result>>

\* The process dies where it stands.
Killed(c) ==
    /\ ~At(c, "idle")
    /\ Mishap("kill")
    /\ Stops(c)
    /\ UNCHANGED <<branch, temp, objects, Record, Result>>

-----------------------------------------------------------------------------
\* The run was resumed, worked on, and stopped again.
RunWorks ==
    /\ state = "stopped" /\ plan = Nil
    /\ version < MaxVersion
    /\ version' = version + 1
    /\ \E moved \in SUBSET (Repos \ {Super}) :
         tree' = [tree EXCEPT ![version + 1] =
                    [r \in Repos |-> IF r \in moved \cup {Super} THEN version + 1
                                     ELSE tree[version][r]]]
    /\ \E adds \in BOOLEAN : unstaged' = IF adds THEN unstaged \cup {version + 1} ELSE unstaged
    /\ UNCHANGED <<branch, temp, objects, Record, cmd, mishaps>>

\* The user has a branch of that name, or gives it up.
UserTakesBranch(r) ==
    /\ branch[r] = Nil
    /\ branch' = [branch EXCEPT ![r] = Theirs]
    /\ UNCHANGED <<temp, objects, Record, Result, cmd, mishaps>>

UserGivesUpBranch(r) ==
    /\ branch[r] = Theirs
    /\ branch' = [branch EXCEPT ![r] = Nil]
    /\ UNCHANGED <<temp, objects, Record, Result, cmd, mishaps>>

\* git gc prunes what no ref reaches.
Reachable(r) == {Head, branch[r], temp[r]}

CollectGarbage(r) ==
    /\ objects' = [objects EXCEPT ![r] = @ \cap Reachable(r)]
    /\ UNCHANGED <<branch, temp, Record, Result, cmd, mishaps>>

-----------------------------------------------------------------------------
Proceeds(c) ==
    \/ SkipImport(c) \/ FetchBundle(c) \/ BranchIsTaken(c) \/ CheckSubmodules(c)
    \/ ReadRecord(c) \/ RecordPlan(c)
    \/ SkipCommit(c) \/ CreateRef(c) \/ CommitIsRefused(c) \/ DropTemporaryRef(c)
    \/ ReadPlan(c) \/ CompleteApply(c)
    \/ RollBackTemporaryRef(c) \/ RollBackBranch(c) \/ RolledBack(c)

Next ==
    \/ \E c \in Appliers : 
            \/ BeginApply(c) \/ Proceeds(c) \/ Killed(c)
            \/ ApplyFails(c) \/ FailureIgnored(c) \/ FetchUnresolved(c) \/ WriteUnsynced(c)
    \/ RunWorks
    \/ \E r \in Repos : UserTakesBranch(r) \/ UserGivesUpBranch(r) \/ CollectGarbage(r)

Spec == Init /\ [][Next]_vars

\* The user keeps asking for the apply, and a process under way goes on.
FairSpec ==
    /\ Spec
    /\ \A c \in Appliers : WF_vars(Proceeds(c)) /\ SF_vars(BeginApply(c))

-----------------------------------------------------------------------------
(***************************************************************************)
(* Properties.                                                             *)
(***************************************************************************)
TypeOK ==
    /\ branch \in [Repos -> Commit]
    /\ temp \in [Repos -> Commit]
    /\ objects \in [Repos -> SUBSET Commit]
    /\ state \in {"stopped", "imported"}
    /\ plan \in VersionOrNil
    /\ landed \in VersionOrNil
    /\ tree \in [Version -> [Repos -> Version]]
    /\ version \in Version
    /\ unstaged \subseteq Version
    /\ cmd \in [Appliers -> Applier]
    /\ mishaps \in [count : Nat, unsynced : BOOLEAN]

\* An interruption can leave commits behind but never a superproject branch
\* whose submodules are missing theirs: where the run's branch is in the
\* superproject, it is in every submodule that version moved.
BranchesComeSubmodulesFirst ==
    branch[Super] \in Version =>
        \A r \in Moves(branch[Super]) : branch[r] = tree[branch[Super]][r]

\* A recorded plan can be finished whenever apply is run again: no repository
\* has lost a commit the plan is to land, whatever was killed or collected.  A
\* write that reports an error though it recorded the plan is rolled back.
PlanStaysReplayable ==
    plan # Nil /\ ~mishaps.unsynced => \A r \in Steps(plan) : tree[plan][r] \in objects[r]

\* A run recorded imported has its branch in every repository the version that
\* landed moved.
ImportedIsWhole ==
    state = "imported" => \A r \in Steps(landed) : branch[r] = tree[landed][r]

\* One apply at a time, what lands is AtomicImport's: one result, moved whole.
Chosen == IF state = "imported" THEN landed ELSE plan

Touched == IF Chosen = Nil THEN {} ELSE Steps(Chosen)

Import == INSTANCE AtomicImport WITH
    touched <- Touched,
    moved <- {r \in Touched : branch[r] = tree[Chosen][r]},
    done <- state = "imported"

LandsAtomically == Import!Spec

\* An apply the user keeps asking for imports the run in the end, whatever an
\* earlier one left behind, unless the user has a branch of that name, the run
\* added a submodule of its own, or a plan that reached the record was rolled back.
ApplyConverges ==
    state = "stopped" ~>
        \/ state = "imported"
        \/ mishaps.unsynced
        \/ \E r \in Repos : branch[r] = Theirs
        \/ version \in unstaged
==============================================================================
