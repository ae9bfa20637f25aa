------------------------- MODULE ProjectStoresProofs -------------------------
(***************************************************************************)
(* Theorems about ProjectStores, for any projects, runs, cache keys and    *)
(* windows, when commands do not overlap, whatever fails, is killed or     *)
(* cannot be read.                                                         *)
(***************************************************************************)
EXTENDS ProjectStores, TLAPS

Solo == \A c, d \in Processes : c = d

(***************************************************************************)
(* What the stores and the records say of each other, whatever command is  *)
(* at work.                                                                *)
(***************************************************************************)
StoresSound ==
    \A p \in Projects :
        /\ store[p].exists => store[p].recorded
        /\ store[p].mounted => store[p].exists
        /\ store[p].cache # {} \/ store[p].newest # Nil => store[p].newest \in store[p].cache

RunsSound ==
    \A r \in Runs : Recorded(r) =>
        /\ run[r].project \in Projects
        /\ run[r].key \in Keys
        /\ store[run[r].project].exists

Live(r) == run[r].state \in {"active", "stopped"}
Unused(p) == \A r \in Runs : Recorded(r) => run[r].project # p
Holds(p, k) == k # Nil => k \in store[p].cache

(***************************************************************************)
(* What a command relies on, at each of its steps.                         *)
(***************************************************************************)
Making == {"register", "ensure"}
Stopping == {"takedown", "record", "list", "publish", "evict", "promote",
             "relaunch", "reactivate", "import"}

\* A command that makes a store knows its project, and has recorded it.
PlacedStore(s) ==
    /\ s.pc \in Making \cup {"select", "create", "adopt", "archive", "put"} => s.to \in Projects
    /\ s.pc = "ensure" => store[s.to].recorded
    /\ s.pc \in Making => s.op \in {"start", "rebind", "backup", "restore"}
    /\ s.pc \in {"select", "create"} => s.op = "start" /\ store[s.to].exists
    /\ s.pc = "create" => Holds(s.to, s.snapshot)

\* A command about a run has one, in the state the step is for.
PlacedRun(s) ==
    /\ s.op = "start" /\ s.pc # "idle" => s.run \in Runs /\ s.key \in Keys
    /\ s.pc \in {"launch", "activate"} =>
         /\ s.op = "start" /\ Recorded(s.run)
         /\ Holds(run[s.run].project, run[s.run].snapshot)
    /\ s.pc \in Stopping =>
         s.run \in Runs /\ Live(s.run) /\ s.op \in {"stop", "resume", "import", "discard"}

\* What an eviction will spare covers every generation a run holds.
Spares(s) ==
    \A r \in Runs : HoldsGeneration(r) /\ run[r].project = run[s.run].project
                    => run[r].snapshot \in s.held

PlacedEviction(s) ==
    /\ s.pc = "publish" => s.unreadable # {} \/ Spares(s)
    /\ s.pc = "evict" => Spares(s)

\* What a command is about to take is no run's.
PlacedRemoval(s) ==
    /\ s.pc = "empty" =>
         s.from \in Projects /\ \A r \in Runs : HoldsGeneration(r) => run[r].project # s.from
    /\ s.pc \in {"remove", "forgetStore"} \/ s.op = "rebind" =>
         s.from \in Projects /\ Unused(s.from)
    /\ s.pc = "adopt" => s.op = "rebind"
    /\ s.pc \in {"remove", "forgetStore"} => s.op \in {"drop", "rebind", "collect"}
    /\ s.pc = "forgetStore" => ~store[s.from].exists
    /\ s.op # "collect" => s.sweep = NoPlan
    /\ s.pc = "sweep" => s.op = "collect"
    /\ \A p \in s.sweep.stores : Unused(p)

\* A project a backup or a restore has behind it, for good.
Behind(s) == Projects \ (s.left \cup (IF s.pc = "each" THEN {} ELSE {s.to}))

PlacedCopy(s) ==
    /\ s.pc = "each" => s.op \in {"backup", "restore"}
    /\ s.pc = "archive" => s.op = "backup"
    /\ s.pc = "put" => s.op = "restore"
    /\ s.op = "backup" => \A p \in s.left : store[p].recorded
    /\ s.op = "backup" =>
         \A p \in Behind(s) : store[p].mounted =>
             /\ store[p].sessions \subseteq backup.files[p]
             /\ store[p].sessions # {} => p \in s.kept
    /\ s.op = "restore" =>
         \A p \in Behind(s) \cap backup.manifest : backup.files[p] \subseteq store[p].sessions

Placed(s) ==
    PlacedStore(s) /\ PlacedRun(s) /\ PlacedEviction(s) /\ PlacedRemoval(s) /\ PlacedCopy(s)

Sound ==
    /\ TypeOK /\ StoresSound /\ RunsSound /\ HeldGenerationsExist
    /\ \A c \in Processes : Placed(cmd[c])

-----------------------------------------------------------------------------
(***************************************************************************)
(* Commands.                                                               *)
(***************************************************************************)
LEMMA AgesAre == 0 \in Age /\ \A a \in Age : Older(a) \in Age
  BY RetentionAssumption DEF Age, Older

LEMMA IdleIs == Idle \in Process /\ Placed(Idle)
  BY DEF Idle, Nil, Process, Op, Step, NoPlan, Placed, PlacedStore, PlacedRun, PlacedEviction,
         PlacedRemoval, PlacedCopy, Making, Stopping

LEMMA OpsAre ==
    /\ "start" \in Op /\ "discard" \in Op /\ "reset" \in Op /\ "drop" \in Op /\ "rebind" \in Op
    /\ "collect" \in Op
    /\ "register" \in Step /\ "takedown" \in Step /\ "reclaim" \in Step /\ "empty" \in Step
    /\ "remove" \in Step /\ "sweep" \in Step /\ "each" \in Step
  BY DEF Op, Step

LEMMA GotoIs ==
    ASSUME NEW s \in Process, NEW pc \in Step
    PROVE  /\ Goto(s, pc) \in Process /\ Goto(s, pc).pc = pc
           /\ Goto(s, pc).op = s.op /\ Goto(s, pc).run = s.run /\ Goto(s, pc).from = s.from
           /\ Goto(s, pc).to = s.to /\ Goto(s, pc).key = s.key
           /\ Goto(s, pc).snapshot = s.snapshot /\ Goto(s, pc).held = s.held
           /\ Goto(s, pc).unreadable = s.unreadable /\ Goto(s, pc).left = s.left
           /\ Goto(s, pc).kept = s.kept /\ Goto(s, pc).sweep = s.sweep
  BY DEF Goto, Process

LEMMA FinishedType ==
    ASSUME NEW s \in Process
    PROVE  Finished(s) \in Process
  BY IdleIs, GotoIs DEF Finished, Step

LEMMA AfterStopType ==
    ASSUME NEW s \in Process
    PROVE  AfterStop(s) \in Process
  BY IdleIs, GotoIs DEF AfterStop, Step

LEMMA AfterFailureType ==
    ASSUME NEW s \in Process
    PROVE  AfterFailure(s) \in Process
  BY AfterStopType, FinishedType, GotoIs DEF AfterFailure, Step

LEMMA FinishedPlaced ==
    ASSUME NEW s \in Process, PlacedRemoval(s), s.pc \in Step
    PROVE  Placed(Finished(s))
  <1>1. CASE s.op # "collect"
    BY <1>1, IdleIs DEF Finished
  <1>2. CASE s.op = "collect"
    <2>1. /\ Finished(s).op = "collect" /\ Finished(s).pc = "sweep"
          /\ Finished(s).sweep = s.sweep
      BY <1>2 DEF Finished, Goto, Process
    <2> QED
      BY <2>1 DEF Placed, PlacedStore, PlacedRun, PlacedEviction, PlacedRemoval, PlacedCopy,
                  Making, Stopping
  <1> QED
    BY <1>1, <1>2

\* A step of a run's command that is none of another kind's.
LEMMA RunStepPlaced ==
    ASSUME NEW s \in Process, Placed(s), s.pc \in Stopping,
           NEW pc \in {"promote", "relaunch", "reactivate", "takeback", "import", "reclaim",
                       "record", "list"}
    PROVE  Placed(Goto(s, pc))
  <1>1. /\ Goto(s, pc).op = s.op /\ Goto(s, pc).pc = pc /\ Goto(s, pc).run = s.run
        /\ Goto(s, pc).sweep = s.sweep
    BY DEF Goto, Process
  <1> QED
    BY <1>1 DEF Placed, PlacedStore, PlacedRun, PlacedEviction, PlacedRemoval, PlacedCopy,
                Making, Stopping

LEMMA AfterStopPlaced ==
    ASSUME NEW s \in Process, Placed(s), s.pc \in Stopping
    PROVE  Placed(AfterStop(s))
  BY IdleIs, RunStepPlaced DEF AfterStop

LEMMA AfterFailurePlaced ==
    ASSUME NEW s \in Process, Placed(s), s.pc \in Step
    PROVE  Placed(AfterFailure(s))
  <1>1. CASE s.pc \in {"list", "publish", "evict", "promote", "relaunch", "reactivate"}
    BY <1>1, AfterStopPlaced, RunStepPlaced DEF AfterFailure, Stopping
  <1>2. CASE s.pc \in {"launch", "activate"}
    <2>1. /\ Goto(s, "unwind").op = "start" /\ Goto(s, "unwind").pc = "unwind"
          /\ Goto(s, "unwind").run = s.run /\ Goto(s, "unwind").key = s.key
          /\ Goto(s, "unwind").sweep = s.sweep
      BY <1>2 DEF Goto, Process, Placed, PlacedRun
    <2>2. AfterFailure(s) = Goto(s, "unwind")
      BY <1>2 DEF AfterFailure
    <2> QED
      BY <1>2, <2>1, <2>2 DEF Placed, PlacedStore, PlacedRun, PlacedEviction, PlacedRemoval,
                        PlacedCopy, Making, Stopping
  <1>3. CASE s.pc \notin {"list", "publish", "evict", "promote", "relaunch", "reactivate",
                          "launch", "activate"}
    <2>1. AfterFailure(s) = Finished(s)
      BY <1>3 DEF AfterFailure
    <2> QED
      BY <2>1, FinishedPlaced DEF Placed
  <1> QED
    BY <1>1, <1>2, <1>3

(***************************************************************************)
(* Steps that disturb nothing a command relies on.                         *)
(***************************************************************************)
RunsStay ==
    /\ run' \in [Runs -> Run]
    /\ \A r \in Runs :
         /\ run'[r].state = run[r].state /\ run'[r].project = run[r].project
         /\ run'[r].key = run[r].key /\ run'[r].snapshot = run[r].snapshot

StoresStay ==
    /\ store' \in [Projects -> Store]
    /\ \A p \in Projects :
         /\ store'[p].recorded = store[p].recorded /\ store'[p].exists = store[p].exists
         /\ store'[p].mounted => store[p].mounted
         /\ store'[p].cache = store[p].cache /\ store'[p].newest = store[p].newest
         /\ store'[p].sessions = store[p].sessions

\* What a command that goes on relies on, it may rely on after the step.
LEMMA UndisturbedPlaced ==
    ASSUME Sound, RunsStay, StoresStay, backup' = backup,
           NEW c \in Processes, cmd' \in [Processes -> Process], Placed(cmd'[c])
    PROVE  Placed(cmd[c])'
  <1> DEFINE s == cmd'[c]
  <1>1. PlacedStore(cmd[c])'
    BY DEF Placed, PlacedStore, Making, Holds, StoresStay
  <1>2. PlacedRun(cmd[c])'
    BY DEF Sound, Placed, PlacedRun, RunsSound, Holds, Live, Recorded, RunsStay, StoresStay
  <1>3. PlacedEviction(cmd[c])'
    <2>1. s.pc \in {"publish", "evict"} => s.run \in Runs
      BY DEF Placed, PlacedRun, Stopping
    <2> QED
      BY <2>1 DEF Placed, PlacedEviction, Spares, HoldsGeneration, RunsStay
  <1>4. PlacedRemoval(cmd[c])'
    BY DEF Placed, PlacedRemoval, Unused, HoldsGeneration, Recorded, RunsStay, StoresStay
  <1>5. PlacedCopy(cmd[c])'
    <2>1. s.left \subseteq Projects /\ cmd[c]' = s
      BY DEF Process
    <2> QED
      BY <2>1 DEF Placed, PlacedCopy, Behind, StoresStay
  <1> QED
    BY <1>1, <1>2, <1>3, <1>4, <1>5 DEF Placed

LEMMA UndisturbedSound ==
    ASSUME Sound, RunsStay, StoresStay
    PROVE  StoresSound' /\ RunsSound' /\ HeldGenerationsExist'
  <1>1. StoresSound'
    BY DEF Sound, StoresSound, StoresStay
  <1>2. RunsSound'
    BY DEF Sound, RunsSound, Recorded, RunsStay, StoresStay
  <1>3. HeldGenerationsExist'
    BY DEF Sound, RunsSound, HeldGenerationsExist, HoldsGeneration, Recorded, RunsStay,
           StoresStay
  <1> QED
    BY <1>1, <1>2, <1>3

\* A step of command c to a state it may rely on.
LEMMA QuietStep ==
    ASSUME Solo, Sound, NEW c \in Processes, NEW s \in Process, cmd' = [cmd EXCEPT ![c] = s],
           RunsStay, StoresStay, UNCHANGED <<damaged, absent, backup>>, up' \subseteq Runs,
           archives' \in Nat, mishaps' \in Nat, Placed(s)
    PROVE  Sound'
  <1>1. TypeOK'
    BY DEF Sound, TypeOK, RunsStay, StoresStay
  <1>2. cmd'[c] = s /\ backup' = backup /\ cmd' \in [Processes -> Process]
    BY DEF Sound, TypeOK
  <1>3. Placed(cmd[c])'
    BY <1>2, UndisturbedPlaced
  <1>4. \A d \in Processes : Placed(cmd[d])'
    BY <1>3 DEF Solo
  <1> QED
    BY <1>1, <1>4, UndisturbedSound DEF Sound

\* A step that is no command's.
LEMMA NoCommandStep ==
    ASSUME Sound, cmd' = cmd, RunsStay, StoresStay, backup' = backup
    PROVE  StoresSound' /\ RunsSound' /\ HeldGenerationsExist'
           /\ \A c \in Processes : Placed(cmd[c])'
  <1>1. \A c \in Processes : Placed(cmd[c])'
    BY UndisturbedPlaced DEF Sound, TypeOK
  <1> QED
    BY <1>1, UndisturbedSound

-----------------------------------------------------------------------------
(***************************************************************************)
(* Commands begin.                                                         *)
(***************************************************************************)
LEMMA AllStay ==
    ASSUME Sound, UNCHANGED <<run, store>>
    PROVE  RunsStay /\ StoresStay
  BY DEF Sound, TypeOK, RunsStay, StoresStay

LEMMA BeginsSound ==
    ASSUME Solo, Sound, NEW c \in Processes, NEW s \in Process, Begins(c, s), Placed(s)
    PROVE  Sound'
  BY AllStay, QuietStep DEF Begins, Becomes, copies, Sound, TypeOK

\* A sweep's plan has stores only where no run is recorded.
LEMMA PlanIs ==
    Sound => /\ Plan \in [runs : SUBSET Runs, stores : SUBSET Projects, stamps : SUBSET Projects]
             /\ \A p \in Plan.stores : Unused(p)
  <1> SUFFICES ASSUME Sound
               PROVE  /\ Plan \in [runs : SUBSET Runs, stores : SUBSET Projects,
                                   stamps : SUBSET Projects]
                      /\ \A p \in Plan.stores : Unused(p)
    OBVIOUS
  <1>1. Abandoned \subseteq Projects /\ Listed \subseteq Runs
    BY DEF Abandoned, Listed
  <1>2. \A p \in Abandoned : damaged = {} => Unused(p)
    BY DEF Abandoned, InUse, RunsOf, Listed, Unused
  <1> QED
    BY <1>1, <1>2 DEF Plan

LEMMA FreeIsUnused ==
    ASSUME NEW p \in Projects, Free(p)
    PROVE  Unused(p)
  BY DEF Free, InUse, RunsOf, Listed, Unused

LEMMA CommandsSound ==
    ASSUME Solo, Sound, NEW c \in Processes, Commands(c)
    PROVE  Sound'
  <1> USE DEF Placed, PlacedStore, PlacedRun, PlacedEviction, PlacedRemoval, PlacedCopy,
              Making, Stopping
  <1>0. /\ Idle \in Process /\ Idle.op = "nil" /\ Idle.sweep = NoPlan /\ NoPlan.stores = {}
        /\ Idle.snapshot = Nil
    BY IdleIs DEF Idle, Nil, NoPlan
  <1>1. CASE BeginStart(c)
    <2>1. PICK r \in Runs, p \in Projects, k \in Keys :
            Begins(c, [Idle EXCEPT !.op = "start", !.pc = "register",
                                   !.run = r, !.to = p, !.key = k])
      BY <1>1 DEF BeginStart
    <2> DEFINE s == [Idle EXCEPT !.op = "start", !.pc = "register",
                                 !.run = r, !.to = p, !.key = k]
    <2>2. /\ s \in Process /\ s.op = "start" /\ s.pc = "register" /\ s.run = r /\ s.to = p
          /\ s.key = k /\ s.sweep = NoPlan
      BY <1>0, OpsAre DEF Process, Idle
    <2>3. Placed(s)
      BY <1>0, <2>2
    <2> QED
      BY <2>1, <2>2, <2>3, BeginsSound
  <1>2. ASSUME NEW op \in {"stop", "resume", "import", "discard"}, BeginByStopping(c, op)
        PROVE  Sound'
    <2>1. PICK r \in Listed :
            /\ run[r].state = "active"
            /\ Begins(c, [Idle EXCEPT !.op = op, !.pc = "takedown", !.run = r])
      BY <1>2 DEF BeginByStopping
    <2> DEFINE s == [Idle EXCEPT !.op = op, !.pc = "takedown", !.run = r]
    <2>2. /\ s \in Process /\ s.op = op /\ s.pc = "takedown" /\ s.run = r /\ r \in Runs
          /\ s.sweep = NoPlan
      <3>1. r \in Runs /\ op \in Op
        BY DEF Listed, Op
      <3> QED
        BY <1>0, <3>1, OpsAre DEF Process, Idle
    <2>3. Placed(s)
      BY <1>0, <2>1, <2>2 DEF Live
    <2> QED
      BY <2>1, <2>2, <2>3, BeginsSound
  <1>3. ASSUME NEW op \in {"resume", "import"}, NEW pc \in {"relaunch", "import"},
               NEW r \in Listed, run[r].state = "stopped",
               Begins(c, [Idle EXCEPT !.op = op, !.pc = pc, !.run = r])
        PROVE  Sound'
    <2> DEFINE s == [Idle EXCEPT !.op = op, !.pc = pc, !.run = r]
    <2>1. r \in Runs /\ op \in Op /\ pc \in Step
      BY DEF Listed, Op, Step
    <2>2. /\ s \in Process /\ s.op = op /\ s.pc = pc /\ s.run = r /\ r \in Runs
          /\ s.sweep = NoPlan
      BY <1>0, <2>1 DEF Process, Idle
    <2>3. Placed(s)
      BY <1>0, <1>3, <2>2 DEF Live
    <2> QED
      BY <1>3, <2>2, <2>3, BeginsSound
  <1>4. CASE BeginDiscard(c)
    <2>1. PICK r \in Runs : Begins(c, [Idle EXCEPT !.op = "discard", !.pc = "reclaim", !.run = r])
      BY <1>4 DEF BeginDiscard
    <2> DEFINE s == [Idle EXCEPT !.op = "discard", !.pc = "reclaim", !.run = r]
    <2>2. s \in Process /\ s.op = "discard" /\ s.pc = "reclaim" /\ s.sweep = NoPlan
      BY <1>0, OpsAre DEF Process, Idle
    <2>3. Placed(s)
      BY <1>0, <2>2
    <2> QED
      BY <2>1, <2>2, <2>3, BeginsSound
  <1>5. CASE BeginReset(c)
    <2>1. PICK p \in Projects :
            /\ Holders(p) = {} /\ damaged = {}
            /\ Begins(c, [Idle EXCEPT !.op = "reset", !.pc = "empty", !.from = p])
      BY <1>5 DEF BeginReset
    <2> DEFINE s == [Idle EXCEPT !.op = "reset", !.pc = "empty", !.from = p]
    <2>2. s \in Process /\ s.op = "reset" /\ s.pc = "empty" /\ s.from = p /\ s.sweep = NoPlan
      BY <1>0, OpsAre DEF Process, Idle
    <2>3. \A r \in Runs : HoldsGeneration(r) => run[r].project # p
      BY <2>1 DEF Holders, RunsOf, Listed, Recorded, HoldsGeneration
    <2>4. Placed(s)
      BY <1>0, <2>2, <2>3
    <2> QED
      BY <2>1, <2>2, <2>4, BeginsSound
  <1>6. CASE BeginDrop(c)
    <2>1. PICK p \in Projects :
            /\ Free(p)
            /\ Begins(c, [Idle EXCEPT !.op = "drop", !.pc = "remove", !.from = p])
      BY <1>6 DEF BeginDrop
    <2> DEFINE s == [Idle EXCEPT !.op = "drop", !.pc = "remove", !.from = p]
    <2>2. s \in Process /\ s.op = "drop" /\ s.pc = "remove" /\ s.from = p /\ s.sweep = NoPlan
      BY <1>0, OpsAre DEF Process, Idle
    <2>3. Placed(s)
      BY <1>0, <2>1, <2>2, FreeIsUnused
    <2> QED
      BY <2>1, <2>2, <2>3, BeginsSound
  <1>7. CASE BeginRebind(c)
    <2>1. PICK p \in Projects, q \in Projects :
            /\ Free(p)
            /\ Begins(c, [Idle EXCEPT !.op = "rebind", !.pc = "register", !.from = p, !.to = q])
      BY <1>7 DEF BeginRebind
    <2> DEFINE s == [Idle EXCEPT !.op = "rebind", !.pc = "register", !.from = p, !.to = q]
    <2>2. /\ s \in Process /\ s.op = "rebind" /\ s.pc = "register" /\ s.from = p /\ s.to = q
          /\ s.sweep = NoPlan
      BY <1>0, OpsAre DEF Process, Idle
    <2>3. Placed(s)
      BY <1>0, <2>1, <2>2, FreeIsUnused
    <2> QED
      BY <2>1, <2>2, <2>3, BeginsSound
  <1>8. CASE BeginCollect(c)
    <2> DEFINE s == [Idle EXCEPT !.op = "collect", !.pc = "sweep", !.sweep = Plan]
    <2>1. s \in Process /\ s.op = "collect" /\ s.pc = "sweep" /\ s.sweep = Plan
      BY <1>0, PlanIs, OpsAre DEF Process, Idle
    <2>2. Placed(s)
      BY <1>0, <2>1, PlanIs
    <2> QED
      BY <1>8, <2>1, <2>2, BeginsSound DEF BeginCollect
  <1>9. ASSUME NEW op \in {"backup", "restore"}, NEW projects \in SUBSET Projects,
               BeginArchiving(c, op, projects),
               op = "backup" => projects = {p \in Projects : store[p].recorded},
               op = "restore" => projects = backup.manifest
        PROVE  Sound'
    <2> DEFINE s == [Idle EXCEPT !.op = op, !.pc = "each", !.left = projects]
    <2>1. s \in Process /\ s.op = op /\ s.pc = "each" /\ s.left = projects /\ s.sweep = NoPlan
      <3>1. op \in Op
        BY DEF Op
      <3> QED
        BY <1>0, <3>1, OpsAre DEF Process, Idle
    <2>2. Placed(s)
      <3>1. op = "backup" => \A p \in Projects \ projects : ~store[p].mounted
        BY <1>9 DEF Sound, StoresSound
      <3> QED
        BY <1>0, <1>9, <2>1, <3>1 DEF Behind
    <2>3. RunsStay /\ StoresStay /\ UNCHANGED <<damaged, absent, backup>> /\ up' \subseteq Runs
      BY <1>9, AllStay DEF BeginArchiving, Sound, TypeOK
    <2>4. cmd' = [cmd EXCEPT ![c] = s] /\ archives' \in Nat /\ mishaps' \in Nat
      BY <1>9 DEF BeginArchiving, Becomes, Sound, TypeOK
    <2> QED
      BY <2>1, <2>2, <2>3, <2>4, QuietStep
  <1>10. CASE BeginBackup(c)
    BY <1>9, <1>10 DEF BeginBackup, Sound, StoresSound
  <1>11. CASE BeginRestore(c)
    BY <1>9, <1>11 DEF BeginRestore, Sound, TypeOK, Backup
  <1> QED
    BY <1>1, <1>2, <1>3, <1>4, <1>5, <1>6, <1>7, <1>8, <1>10, <1>11
       DEF Commands, BeginResume, BeginImport

-----------------------------------------------------------------------------
(***************************************************************************)
(* Steps that leave the stores and the records as they are.                *)
(***************************************************************************)
LEMMA CmdIs ==
    ASSUME Sound, NEW c \in Processes
    PROVE  /\ cmd[c] \in Process /\ Placed(cmd[c])
           /\ PlacedStore(cmd[c]) /\ PlacedRun(cmd[c]) /\ PlacedEviction(cmd[c])
           /\ PlacedRemoval(cmd[c]) /\ PlacedCopy(cmd[c])
  BY DEF Sound, TypeOK, Placed

LEMMA GoesQuietly ==
    ASSUME Solo, Sound, NEW c \in Processes, NEW s \in Process, Goes(c, s),
           RunsStay, StoresStay, up' \subseteq Runs, Placed(s)
    PROVE  Sound'
  <1>1. /\ cmd' = [cmd EXCEPT ![c] = s] /\ UNCHANGED <<damaged, absent, backup>>
        /\ archives' \in Nat /\ mishaps' \in Nat
    BY DEF Goes, Becomes, copies, Sound, TypeOK
  <1> QED
    BY <1>1, QuietStep

LEMMA SelectSound ==
    ASSUME Solo, Sound, NEW c \in Processes, SelectSnapshot(c)
    PROVE  Sound'
  <1> DEFINE p == cmd[c].to
             k == Selected(store[p], cmd[c].key)
             s == [Goto(cmd[c], "create") EXCEPT !.snapshot = k]
  <1>1. cmd[c] \in Process /\ cmd[c].pc = "select" /\ p \in Projects /\ store[p] \in Store
    BY CmdIs DEF SelectSnapshot, At, PlacedStore, Sound, TypeOK
  <1>2. k \in Keys \cup {Nil} /\ Holds(p, k)
    BY <1>1 DEF Selected, Store, Holds, Sound, StoresSound
  <1>3. /\ s \in Process /\ s.op = cmd[c].op /\ s.pc = "create" /\ s.to = p /\ s.run = cmd[c].run
        /\ s.key = cmd[c].key /\ s.snapshot = k /\ s.sweep = cmd[c].sweep
    <2>1. "create" \in Step
      BY DEF Step
    <2> QED
      BY <1>1, <1>2, <2>1, GotoIs DEF Process
  <1>4. Placed(s)
    BY <1>1, <1>2, <1>3, CmdIs
       DEF Placed, PlacedStore, PlacedRun, PlacedEviction, PlacedRemoval, PlacedCopy,
           Making, Stopping
  <1> QED
    BY <1>3, <1>4, AllStay, GoesQuietly DEF SelectSnapshot, Sound, TypeOK

LEMMA LaunchSound ==
    ASSUME Solo, Sound, NEW c \in Processes, Launch(c)
    PROVE  Sound'
  <1> DEFINE pc == IF At(c, "launch") THEN "activate" ELSE "reactivate"
             s == Goto(cmd[c], pc)
  <1>1. cmd[c] \in Process /\ cmd[c].pc \in {"launch", "relaunch"} /\ cmd[c].run \in Runs
    BY CmdIs DEF Launch, At, PlacedRun, Stopping
  <1>2. /\ s \in Process /\ s.op = cmd[c].op /\ s.pc = pc /\ s.run = cmd[c].run
        /\ s.key = cmd[c].key /\ s.sweep = cmd[c].sweep
    BY <1>1, GotoIs DEF Step
  <1>3. CASE cmd[c].pc = "launch"
    <2>1. Placed(s)
      BY <1>2, <1>3, CmdIs
         DEF At, Placed, PlacedStore, PlacedRun, PlacedEviction, PlacedRemoval, PlacedCopy,
             Making, Stopping
    <2> QED
      BY <1>1, <1>2, <2>1, AllStay, GoesQuietly DEF Launch, Sound, TypeOK
  <1>4. CASE cmd[c].pc = "relaunch"
    <2>1. Placed(s)
      BY <1>1, <1>4, CmdIs, RunStepPlaced DEF At, Stopping
    <2> QED
      BY <1>1, <1>2, <2>1, AllStay, GoesQuietly DEF Launch, Sound, TypeOK
  <1> QED
    BY <1>1, <1>3, <1>4

\* What a run wrote is of no concern to the stores until it is handed over.
LEMMA WorkedStays ==
    ASSUME Sound, NEW r, NEW w \in BOOLEAN, run' = [run EXCEPT ![r].worked = w]
    PROVE  RunsStay
  <1>1. run \in [Runs -> Run]
    BY DEF Sound, TypeOK
  <1>2. \A u \in Run :
          LET v == [u EXCEPT !.worked = w] IN
          /\ v \in Run /\ v.state = u.state /\ v.project = u.project /\ v.key = u.key
          /\ v.snapshot = u.snapshot
    BY DEF Run
  <1>3. run' \in [Runs -> Run]
    BY <1>1, <1>2
  <1>4. \A q \in Runs : /\ run'[q].state = run[q].state /\ run'[q].project = run[q].project
                        /\ run'[q].key = run[q].key /\ run'[q].snapshot = run[q].snapshot
    BY <1>1, <1>2
  <1> QED
    BY <1>3, <1>4 DEF RunsStay

LEMMA TakeBackSound ==
    ASSUME Solo, Sound, NEW c \in Processes, TakeBack(c)
    PROVE  Sound'
  <1> DEFINE r == cmd[c].run
             w == At(c, "takeback") /\ run[r].worked
  <1>1. run' = [run EXCEPT ![r].worked = w] /\ w \in BOOLEAN
    <2>1. CASE r \in Runs
      BY <2>1 DEF TakeBack, At, Sound, TypeOK, Run
    <2>2. CASE r \notin Runs
      BY <2>2 DEF TakeBack, At, Sound, TypeOK
    <2> QED
      BY <2>1, <2>2
  <1> QED
    BY <1>1, WorkedStays, AllStay, IdleIs, GoesQuietly
       DEF TakeBack, Sound, TypeOK, StoresStay

LEMMA TakeDownSound ==
    ASSUME Solo, Sound, NEW c \in Processes, TakeDown(c)
    PROVE  Sound'
  <1>1. cmd[c] \in Process /\ cmd[c].pc = "takedown"
    BY CmdIs DEF TakeDown, At
  <1>2. Placed(Goto(cmd[c], "record")) /\ Goto(cmd[c], "record") \in Process
    BY <1>1, CmdIs, RunStepPlaced, GotoIs DEF Stopping, Step
  <1> QED
    BY <1>2, AllStay, GoesQuietly DEF TakeDown, Sound, TypeOK

LEMMA ListHeldSound ==
    ASSUME Solo, Sound, NEW c \in Processes, ListHeld(c)
    PROVE  Sound'
  <1> DEFINE p == run[cmd[c].run].project
             s == [Goto(cmd[c], "publish") EXCEPT !.held = HeldGenerations(p),
                                                  !.unreadable = damaged]
  <1>1. /\ cmd[c] \in Process /\ cmd[c].pc = "list" /\ cmd[c].run \in Runs
        /\ Live(cmd[c].run) /\ cmd[c].op \in {"stop", "resume", "import", "discard"}
    BY CmdIs DEF ListHeld, At, PlacedRun, Stopping
  <1>2. HeldGenerations(p) \in SUBSET Keys
    BY DEF HeldGenerations, Holders, HoldsGeneration, RunsOf, Listed, Sound, TypeOK, Run
  <1>3. /\ s \in Process /\ s.op = cmd[c].op /\ s.pc = "publish" /\ s.run = cmd[c].run
        /\ s.held = HeldGenerations(p) /\ s.unreadable = damaged
        /\ s.sweep = cmd[c].sweep
    BY <1>1, <1>2 DEF Goto, Process, Step, Sound, TypeOK
  <1>4. damaged = {} => Spares(s)
    BY <1>3 DEF Spares, HeldGenerations, Holders, HoldsGeneration, RunsOf, Listed, Recorded
  <1>5. Placed(s)
    BY <1>1, <1>3, <1>4, CmdIs
       DEF Placed, PlacedStore, PlacedRun, PlacedEviction, PlacedRemoval, PlacedCopy,
           Making, Stopping
  <1> QED
    BY <1>3, <1>5, AllStay, GoesQuietly DEF ListHeld, Sound, TypeOK

LEMMA ReclaimSound ==
    ASSUME Solo, Sound, NEW c \in Processes, Reclaim(c)
    PROVE  Sound'
  <1> DEFINE s == Goto(cmd[c], "forget")
  <1>1. cmd[c] \in Process /\ cmd[c].pc = "reclaim"
    BY CmdIs DEF Reclaim, At
  <1>2. /\ s \in Process /\ s.op = cmd[c].op /\ s.pc = "forget" /\ s.run = cmd[c].run
        /\ s.key = cmd[c].key /\ s.sweep = cmd[c].sweep /\ s.from = cmd[c].from
        /\ s.to = cmd[c].to /\ s.left = cmd[c].left /\ s.kept = cmd[c].kept
    BY <1>1, GotoIs DEF Step
  <1>3. Placed(s)
    BY <1>1, <1>2, CmdIs
       DEF Placed, PlacedStore, PlacedRun, PlacedEviction, PlacedRemoval, PlacedCopy, Behind,
           Making, Stopping
  <1>4. RunsStay
    BY WorkedStays DEF Reclaim
  <1> QED
    BY <1>2, <1>3, <1>4, AllStay, GoesQuietly DEF Reclaim, Sound, TypeOK, StoresStay

LEMMA SweepSound ==
    ASSUME Solo, Sound, NEW c \in Processes,
           SweepRun(c) \/ SweepStore(c) \/ Stamp(c) \/ Swept(c)
    PROVE  Sound'
  <1>1. /\ cmd[c] \in Process /\ cmd[c].pc = "sweep" /\ cmd[c].op = "collect"
        /\ cmd[c].sweep \in [runs : SUBSET Runs, stores : SUBSET Projects,
                             stamps : SUBSET Projects]
        /\ \A p \in cmd[c].sweep.stores : Unused(p)
    BY CmdIs DEF SweepRun, SweepStore, Stamp, Swept, At, PlacedRemoval, Process
  <1>2. ASSUME NEW s \in Process, s.op = "collect", s.pc \in {"reclaim", "sweep"},
               s.sweep.stores \subseteq cmd[c].sweep.stores
        PROVE  Placed(s)
    BY <1>1, <1>2
       DEF Placed, PlacedStore, PlacedRun, PlacedEviction, PlacedRemoval, PlacedCopy,
           Making, Stopping
  <1>3. CASE SweepRun(c)
    <2> DEFINE Next1(r) == [Goto(cmd[c], "reclaim") EXCEPT !.run = r, !.sweep.runs = @ \ {r}]
    <2>1. PICK r \in cmd[c].sweep.runs : Goes(c, Next1(r))
      BY <1>3 DEF SweepRun
    <2>2. /\ Next1(r) \in Process /\ Next1(r).op = "collect" /\ Next1(r).pc = "reclaim"
          /\ Next1(r).sweep.stores = cmd[c].sweep.stores
      <3> DEFINE g == Goto(cmd[c], "reclaim")
      <3>1. g \in Process /\ g.op = "collect" /\ g.pc = "reclaim" /\ g.sweep = cmd[c].sweep
        <4>1. cmd[c] \in Process /\ "reclaim" \in Step /\ cmd[c].op = "collect"
          BY <1>1, OpsAre
        <4> QED
          BY <4>1, GotoIs
      <3>2. r \in Runs
        BY <1>1 DEF Process
      <3> HIDE DEF g
      <3>3. /\ [g EXCEPT !.run = r, !.sweep.runs = @ \ {r}] \in Process
            /\ [g EXCEPT !.run = r, !.sweep.runs = @ \ {r}].op = g.op
            /\ [g EXCEPT !.run = r, !.sweep.runs = @ \ {r}].pc = g.pc
            /\ [g EXCEPT !.run = r, !.sweep.runs = @ \ {r}].sweep.stores = g.sweep.stores
        BY <3>1, <3>2 DEF Process
      <3> QED
        BY <3>1, <3>3 DEF g
    <2> QED
      BY <1>2, <1>3, <2>1, <2>2, AllStay, GoesQuietly DEF SweepRun, Sound, TypeOK
  <1>4. CASE SweepStore(c)
    <2> DEFINE Next1(p) == [Goto(cmd[c], "remove") EXCEPT !.from = p, !.sweep.stores = @ \ {p}]
    <2>1. PICK p \in cmd[c].sweep.stores : Goes(c, Next1(p))
      BY <1>4 DEF SweepStore
    <2>2. /\ Next1(p) \in Process /\ Next1(p).op = "collect" /\ Next1(p).pc = "remove"
          /\ Next1(p).from = p /\ p \in Projects
          /\ Next1(p).sweep.stores \subseteq cmd[c].sweep.stores
      <3> DEFINE g == Goto(cmd[c], "remove")
      <3>1. g \in Process /\ g.op = "collect" /\ g.pc = "remove" /\ g.sweep = cmd[c].sweep
        <4>1. cmd[c] \in Process /\ "remove" \in Step /\ cmd[c].op = "collect"
          BY <1>1, OpsAre
        <4> QED
          BY <4>1, GotoIs
      <3>2. p \in Projects
        BY <1>1 DEF Process
      <3> HIDE DEF g
      <3>3. /\ [g EXCEPT !.from = p, !.sweep.stores = @ \ {p}] \in Process
            /\ [g EXCEPT !.from = p, !.sweep.stores = @ \ {p}].op = g.op
            /\ [g EXCEPT !.from = p, !.sweep.stores = @ \ {p}].pc = g.pc
            /\ [g EXCEPT !.from = p, !.sweep.stores = @ \ {p}].from = p
            /\ [g EXCEPT !.from = p, !.sweep.stores = @ \ {p}].sweep.stores
                 = g.sweep.stores \ {p}
        BY <3>1, <3>2 DEF Process
      <3> QED
        BY <3>1, <3>2, <3>3 DEF g
    <2>3. Placed(Next1(p))
      BY <1>1, <2>1, <2>2
         DEF Placed, PlacedStore, PlacedRun, PlacedEviction, PlacedRemoval, PlacedCopy,
             Making, Stopping
    <2> QED
      BY <1>4, <2>1, <2>2, <2>3, AllStay, GoesQuietly DEF SweepStore, Sound, TypeOK
  <1>5. CASE Stamp(c)
    <2> DEFINE Next1(p) == [cmd[c] EXCEPT !.sweep.stamps = @ \ {p}]
    <2>1. PICK p \in cmd[c].sweep.stamps :
            /\ store' = IF store[p].recorded THEN [store EXCEPT ![p].missing = 0] ELSE store
            /\ Goes(c, Next1(p))
      BY <1>5 DEF Stamp
    <2>2. /\ Next1(p) \in Process /\ Next1(p).op = "collect" /\ Next1(p).pc = "sweep"
          /\ Next1(p).sweep.stores = cmd[c].sweep.stores
      BY <1>1 DEF Process
    <2>3. StoresStay
      <3>1. store \in [Projects -> Store] /\ p \in Projects
        BY <1>1 DEF Sound, TypeOK
      <3>2. CASE store[p].recorded
        BY <2>1, <3>1, <3>2, AgesAre DEF Store, StoresStay
      <3>3. CASE ~store[p].recorded
        BY <2>1, <3>1, <3>3 DEF StoresStay
      <3> QED
        BY <3>2, <3>3
    <2> QED
      BY <1>2, <1>5, <2>1, <2>2, <2>3, AllStay, GoesQuietly
         DEF Stamp, Sound, TypeOK, RunsStay
  <1>6. CASE Swept(c)
    BY <1>6, AllStay, IdleIs, GoesQuietly DEF Swept, Sound, TypeOK
  <1> QED
    BY <1>3, <1>4, <1>5, <1>6

LEMMA NextProjectSound ==
    ASSUME Solo, Sound, NEW c \in Processes, NextProject(c) \/ Restored(c)
    PROVE  Sound'
  <1>1. CASE NextProject(c)
    <2> DEFINE pc == IF cmd[c].op = "backup" THEN "ensure" ELSE "register"
               Next1(p) == [cmd[c] EXCEPT !.pc = pc, !.to = p, !.left = @ \ {p}]
    <2>1. PICK p \in cmd[c].left : Goes(c, Next1(p))
      BY <1>1 DEF NextProject
    <2>2. cmd[c] \in Process /\ cmd[c].pc = "each" /\ cmd[c].op \in {"backup", "restore"}
      BY <1>1, CmdIs DEF NextProject, At, PlacedCopy
    <2>3. /\ Next1(p) \in Process /\ Next1(p).op = cmd[c].op /\ Next1(p).pc = pc
          /\ Next1(p).to = p /\ p \in Projects /\ Next1(p).left = cmd[c].left \ {p}
          /\ Next1(p).kept = cmd[c].kept /\ Next1(p).sweep = cmd[c].sweep
      <3>1. pc \in Step /\ cmd[c].left \subseteq Projects
        BY <2>2 DEF Process, Step
      <3> HIDE DEF pc
      <3> QED
        BY <2>2, <3>1 DEF Process
    <2>4. Behind(Next1(p)) \subseteq Behind(cmd[c])
      BY <2>2, <2>3 DEF Behind
    <2>5. Placed(Next1(p))
      BY <2>2, <2>3, <2>4, CmdIs
         DEF Placed, PlacedStore, PlacedRun, PlacedEviction, PlacedRemoval, PlacedCopy,
             Making, Stopping
    <2> QED
      BY <1>1, <2>1, <2>3, <2>5, AllStay, GoesQuietly DEF NextProject, Sound, TypeOK
  <1>2. CASE Restored(c)
    BY <1>2, AllStay, IdleIs, GoesQuietly DEF Restored, Sound, TypeOK
  <1> QED
    BY <1>1, <1>2

-----------------------------------------------------------------------------
(***************************************************************************)
(* Steps that change what the stores hold or what the records say.         *)
(***************************************************************************)
\* Command c goes on as s, which is placed in the state it makes.
LEMMA DisturbingStep ==
    ASSUME Solo, Sound, NEW c \in Processes, NEW s \in Process, cmd' = [cmd EXCEPT ![c] = s],
           run' \in [Runs -> Run], store' \in [Projects -> Store], backup' \in Backup,
           up' \subseteq Runs, damaged' \subseteq Runs, UNCHANGED <<absent, archives, mishaps>>,
           StoresSound', RunsSound', HeldGenerationsExist', cmd[c]' = s => Placed(cmd[c])'
    PROVE  Sound'
  <1>1. TypeOK'
    BY DEF Sound, TypeOK
  <1>2. Placed(cmd[c])'
    BY DEF Sound, TypeOK
  <1>3. \A d \in Processes : Placed(cmd[d])'
    BY <1>2 DEF Solo
  <1> QED
    BY <1>1, <1>3 DEF Sound

LEMMA StoreChanges ==
    ASSUME Solo, Sound, NEW c \in Processes, NEW s \in Process, Goes(c, s),
           store' \in [Projects -> Store], UNCHANGED <<run, up>>,
           StoresSound', RunsSound', HeldGenerationsExist', cmd[c]' = s => Placed(cmd[c])'
    PROVE  Sound'
  <1>1. /\ cmd' = [cmd EXCEPT ![c] = s] /\ backup' \in Backup /\ damaged' \subseteq Runs
        /\ UNCHANGED <<absent, archives, mishaps>> /\ run' \in [Runs -> Run]
        /\ up' \subseteq Runs
    BY DEF Goes, Becomes, copies, Sound, TypeOK
  <1> QED
    BY <1>1, DisturbingStep

LEMMA RunChanges ==
    ASSUME Solo, Sound, NEW c \in Processes, NEW s \in Process, cmd' = [cmd EXCEPT ![c] = s],
           run' \in [Runs -> Run], damaged' \subseteq Runs,
           UNCHANGED <<store, up, absent, backup, archives, mishaps>>,
           RunsSound', HeldGenerationsExist', cmd[c]' = s => Placed(cmd[c])'
    PROVE  Sound'
  <1>1. StoresSound' /\ store' \in [Projects -> Store] /\ backup' \in Backup
        /\ up' \subseteq Runs
    BY DEF Sound, TypeOK, StoresSound
  <1> QED
    BY <1>1, DisturbingStep

\* A record that goes on about its project and its generation.
LEMMA RecordsStaySound ==
    ASSUME Sound, UNCHANGED store, NEW r \in Runs, run[r].state \notin {"unused", "gone"},
           NEW state \in {"active", "stopped", "imported"},
           state # "imported" => Holds(run[r].project, run[r].snapshot),
           run' \in [Runs -> Run],
           \A q \in Runs : /\ run'[q].project = run[q].project /\ run'[q].key = run[q].key
                           /\ run'[q].snapshot = run[q].snapshot
                           /\ run'[q].state = IF q = r THEN state ELSE run[q].state
    PROVE  RunsSound' /\ HeldGenerationsExist'
  <1>1. RunsSound'
    BY DEF Sound, RunsSound, Recorded
  <1>2. HeldGenerationsExist'
    BY DEF Sound, RunsSound, HeldGenerationsExist, HoldsGeneration, Recorded, Holds
  <1> QED
    BY <1>1, <1>2

LEMMA StateOnly ==
    ASSUME Sound, NEW r \in Runs, NEW state \in {"active", "stopped", "imported"},
           \/ run' = [run EXCEPT ![r].state = state]
           \/ run' = [run EXCEPT ![r].state = state, ![r].age = 0]
    PROVE  /\ run' \in [Runs -> Run]
           /\ \A q \in Runs : /\ run'[q].project = run[q].project /\ run'[q].key = run[q].key
                              /\ run'[q].snapshot = run[q].snapshot
                              /\ run'[q].state = IF q = r THEN state ELSE run[q].state
  <1>1. run \in [Runs -> Run] /\ run[r] \in Run
    BY DEF Sound, TypeOK
  <1>2. CASE run' = [run EXCEPT ![r].state = state]
    <2>1. [run[r] EXCEPT !.state = state] \in Run
      BY <1>1 DEF Run
    <2> QED
      BY <1>1, <1>2, <2>1 DEF Run
  <1>3. CASE run' = [run EXCEPT ![r].state = state, ![r].age = 0]
    <2>1. [run[r] EXCEPT !.state = state, !.age = 0] \in Run
      BY <1>1, AgesAre DEF Run
    <2> QED
      BY <1>1, <1>3, <2>1 DEF Run
  <1> QED
    BY <1>2, <1>3

LEMMA BackToIdle ==
    ASSUME NEW c, cmd[c]' = Idle
    PROVE  Placed(cmd[c])'
  BY DEF Idle, Nil, Process, Op, Step, NoPlan, Placed, PlacedStore, PlacedRun, PlacedEviction,
         PlacedRemoval, PlacedCopy, Making, Stopping

LEMMA ActivateSound ==
    ASSUME Solo, Sound, NEW c \in Processes, Activate(c)
    PROVE  Sound'
  <1> DEFINE r == cmd[c].run
  <1>1. /\ cmd[c].pc \in {"activate", "reactivate"} /\ run[r].state \notin {"unused", "gone"}
        /\ cmd[c].pc = "reactivate" => r \in Runs /\ Live(r)
        /\ cmd[c].pc = "activate" => r \in Runs /\ Holds(run[r].project, run[r].snapshot)
        /\ r \in Runs
    BY CmdIs DEF Activate, At, PlacedRun, Stopping, Recorded, Live
  <1>2. Holds(run[r].project, run[r].snapshot)
    BY <1>1 DEF Holds, Live, Sound, HeldGenerationsExist, HoldsGeneration
  <1>3. /\ run' \in [Runs -> Run]
        /\ \A q \in Runs : /\ run'[q].project = run[q].project /\ run'[q].key = run[q].key
                           /\ run'[q].snapshot = run[q].snapshot
                           /\ run'[q].state = IF q = r THEN "active" ELSE run[q].state
    BY <1>1, StateOnly DEF Activate
  <1>4. RunsSound' /\ HeldGenerationsExist'
    BY <1>1, <1>2, <1>3, RecordsStaySound DEF Activate
  <1>5. cmd[c]' = Idle => Placed(cmd[c])'
    BY BackToIdle
  <1> QED
    BY <1>3, <1>4, <1>5, IdleIs, RunChanges DEF Activate, Goes, Becomes, copies, Sound, TypeOK

LEMMA RecordStopSound ==
    ASSUME Solo, Sound, NEW c \in Processes, RecordStop(c)
    PROVE  Sound'
  <1> DEFINE r == cmd[c].run
             s == Goto(cmd[c], "list")
  <1>1. /\ cmd[c] \in Process /\ cmd[c].pc = "record" /\ r \in Runs /\ Live(r)
        /\ cmd[c].op \in {"stop", "resume", "import", "discard"}
    BY CmdIs DEF RecordStop, At, PlacedRun, Stopping
  <1>2. Holds(run[r].project, run[r].snapshot) /\ run[r].state \notin {"unused", "gone"}
    BY <1>1 DEF Holds, Live, Sound, HeldGenerationsExist, HoldsGeneration
  <1>3. /\ run' \in [Runs -> Run]
        /\ \A q \in Runs : /\ run'[q].project = run[q].project /\ run'[q].key = run[q].key
                           /\ run'[q].snapshot = run[q].snapshot
                           /\ run'[q].state = IF q = r THEN "stopped" ELSE run[q].state
    BY <1>1, StateOnly DEF RecordStop
  <1>4. RunsSound' /\ HeldGenerationsExist'
    BY <1>1, <1>2, <1>3, RecordsStaySound DEF RecordStop
  <1>5. /\ s \in Process /\ s.op = cmd[c].op /\ s.pc = "list" /\ s.run = r
        /\ s.sweep = cmd[c].sweep /\ s.sweep = NoPlan
    BY <1>1, CmdIs DEF Goto, Process, Step, PlacedRemoval
  <1>6. cmd[c]' = s => Placed(cmd[c])'
    BY <1>1, <1>3, <1>5
       DEF Placed, PlacedStore, PlacedRun, PlacedEviction, PlacedRemoval, PlacedCopy,
           Making, Stopping, Live, NoPlan
  <1> QED
    BY <1>3, <1>4, <1>5, <1>6, RunChanges DEF RecordStop, Goes, Becomes, copies, Sound, TypeOK

LEMMA RecordImportSound ==
    ASSUME Solo, Sound, NEW c \in Processes, RecordImport(c)
    PROVE  Sound'
  <1> DEFINE r == cmd[c].run
  <1>1. r \in Runs /\ Live(r)
    BY CmdIs DEF RecordImport, At, PlacedRun, Stopping
  <1>2. run[r].state \notin {"unused", "gone"}
    BY <1>1 DEF Live
  <1>3. /\ run' \in [Runs -> Run]
        /\ \A q \in Runs : /\ run'[q].project = run[q].project /\ run'[q].key = run[q].key
                           /\ run'[q].snapshot = run[q].snapshot
                           /\ run'[q].state = IF q = r THEN "imported" ELSE run[q].state
    BY <1>1, StateOnly DEF RecordImport
  <1>4. RunsSound' /\ HeldGenerationsExist'
    BY <1>1, <1>2, <1>3, RecordsStaySound DEF RecordImport
  <1>5. cmd[c]' = Idle => Placed(cmd[c])'
    BY BackToIdle
  <1> QED
    BY <1>3, <1>4, <1>5, IdleIs, RunChanges
       DEF RecordImport, Goes, Becomes, copies, Sound, TypeOK

LEMMA CreateSound ==
    ASSUME Solo, Sound, NEW c \in Processes, Create(c)
    PROVE  Sound'
  <1> DEFINE o == cmd[c]
             s == Goto(o, "launch")
             new == [state |-> "creating", project |-> o.to, key |-> o.key,
                     snapshot |-> o.snapshot, worked |-> FALSE, age |-> 0]
  <1>1. /\ o \in Process /\ o.pc = "create" /\ o.op = "start" /\ o.run \in Runs
        /\ o.to \in Projects /\ o.key \in Keys /\ store[o.to].exists
        /\ Holds(o.to, o.snapshot) /\ o.sweep = NoPlan
    BY CmdIs DEF Create, At, PlacedStore, PlacedRun, PlacedRemoval
  <1>2. run' = [run EXCEPT ![o.run] = new] /\ new \in Run
    BY <1>1, AgesAre DEF Create, Run, Process
  <1>3. /\ run' \in [Runs -> Run] /\ run'[o.run] = new
        /\ \A q \in Runs : q # o.run => run'[q] = run[q]
    BY <1>1, <1>2 DEF Sound, TypeOK
  <1>4. /\ s \in Process /\ s.op = "start" /\ s.pc = "launch" /\ s.run = o.run
        /\ s.key = o.key /\ s.sweep = NoPlan
    BY <1>1, GotoIs DEF Step
  <1>5. RunsSound' /\ HeldGenerationsExist'
    <2>1. RunsSound'
      BY <1>1, <1>3 DEF Create, Sound, RunsSound, Recorded
    <2>2. HeldGenerationsExist'
      BY <1>1, <1>3 DEF Create, Sound, HeldGenerationsExist, HoldsGeneration
    <2> QED
      BY <2>1, <2>2
  <1>6. cmd[c]' = s => Placed(cmd[c])'
    BY <1>1, <1>3, <1>4
       DEF Create, Placed, PlacedStore, PlacedRun, PlacedEviction, PlacedRemoval, PlacedCopy,
           Making, Stopping, Recorded, Holds, NoPlan
  <1> QED
    BY <1>3, <1>4, <1>5, <1>6, RunChanges DEF Create, Goes, Becomes, copies, Sound, TypeOK

\* A run that has lost its record takes nothing from another.
LEMMA ForgetSound ==
    ASSUME Solo, Sound, NEW c \in Processes, Forget(c)
    PROVE  Sound'
  <1> DEFINE r == cmd[c].run
             s == Finished(cmd[c])
             gone == [NoRun EXCEPT !.state = "gone"]
  <1>1. cmd[c] \in Process /\ cmd[c].pc = "forget"
    BY CmdIs DEF Forget, At
  <1>2. gone \in Run /\ gone.state = "gone"
    BY AgesAre DEF NoRun, Run
  <1>3. /\ run' \in [Runs -> Run]
        /\ \A q \in Runs : run'[q] = run[q] \/ run'[q].state = "gone"
    BY <1>2 DEF Forget, Sound, TypeOK
  <1>4. RunsSound' /\ HeldGenerationsExist'
    BY <1>3 DEF Forget, Sound, RunsSound, HeldGenerationsExist, HoldsGeneration, Recorded
  <1>5. s \in Process
    BY <1>1, FinishedType
  <1>6. cmd[c]' = s => Placed(cmd[c])'
    <2>1. CASE cmd[c].op # "collect"
      BY <2>1, BackToIdle DEF Finished
    <2>2. CASE cmd[c].op = "collect"
      <3>1. s.op = "collect" /\ s.pc = "sweep" /\ s.sweep = cmd[c].sweep
        BY <1>1, <2>2 DEF Finished, Goto, Process
      <3>2. \A p \in s.sweep.stores : Unused(p)'
        BY <1>3, <3>1, CmdIs DEF PlacedRemoval, Unused, Recorded
      <3> QED
        BY <3>1, <3>2
           DEF Placed, PlacedStore, PlacedRun, PlacedEviction, PlacedRemoval, PlacedCopy,
               Making, Stopping
    <2> QED
      BY <2>1, <2>2
  <1>7. damaged' \subseteq Runs
    BY DEF Forget, Sound, TypeOK
  <1> QED
    BY <1>3, <1>4, <1>5, <1>6, <1>7, RunChanges DEF Forget, Becomes, copies

\* One store changes, and takes from no run what it has there.
LEMMA OneStoreSound ==
    ASSUME Sound, UNCHANGED run, NEW p \in Projects, NEW t \in Store,
           store' = [store EXCEPT ![p] = t],
           t.exists => t.recorded,
           t.mounted => t.exists,
           t.cache # {} \/ t.newest # Nil => t.newest \in t.cache,
           t.exists \/ Unused(p),
           \A r \in Runs : HoldsGeneration(r) /\ run[r].project = p
                           /\ run[r].snapshot \in store[p].cache => run[r].snapshot \in t.cache
    PROVE  /\ store' \in [Projects -> Store] /\ store'[p] = t
           /\ \A q \in Projects : q # p => store'[q] = store[q]
           /\ StoresSound' /\ RunsSound' /\ HeldGenerationsExist'
  <1>1. /\ store' \in [Projects -> Store] /\ store'[p] = t
        /\ \A q \in Projects : q # p => store'[q] = store[q]
    BY DEF Sound, TypeOK
  <1>2. StoresSound'
    BY <1>1 DEF Sound, StoresSound
  <1>3. RunsSound'
    BY <1>1 DEF Sound, RunsSound, Recorded, Unused
  <1>4. HeldGenerationsExist'
    BY <1>1 DEF Sound, RunsSound, HeldGenerationsExist, HoldsGeneration, Recorded
  <1> QED
    BY <1>1, <1>2, <1>3, <1>4

LEMMA RegisterSound ==
    ASSUME Solo, Sound, NEW c \in Processes, Register(c)
    PROVE  Sound'
  <1> DEFINE o == cmd[c]
             p == o.to
             s == Goto(o, "ensure")
             t == [store[p] EXCEPT !.recorded = TRUE, !.missing = Never]
  <1>1. /\ o \in Process /\ o.pc = "register" /\ p \in Projects
        /\ o.op \in {"start", "rebind", "backup", "restore"} /\ store[p] \in Store
    BY CmdIs DEF Register, At, PlacedStore, Making, Sound, TypeOK
  <1>2. /\ t \in Store /\ t.recorded /\ t.exists = store[p].exists
        /\ t.mounted = store[p].mounted /\ t.cache = store[p].cache
        /\ t.newest = store[p].newest /\ t.sessions = store[p].sessions
    BY <1>1 DEF Store
  <1>3. store' = [store EXCEPT ![p] = t] /\ UNCHANGED run
    BY <1>1 DEF Register, Sound, TypeOK
  <1>4. p \in Projects => t.exists \/ Unused(p)
    BY <1>2 DEF Sound, RunsSound, Unused
  <1>5. /\ store' \in [Projects -> Store] /\ store'[p] = t
        /\ \A q \in Projects : q # p => store'[q] = store[q]
        /\ StoresSound' /\ RunsSound' /\ HeldGenerationsExist'
    <2>1. /\ t.exists => t.recorded
          /\ t.mounted => t.exists
          /\ t.cache # {} \/ t.newest # Nil => t.newest \in t.cache
      BY <1>1, <1>2 DEF Sound, StoresSound
    <2> HIDE DEF t
    <2> QED
      BY <1>1, <1>2, <1>3, <1>4, <2>1, OneStoreSound
  <1>6. /\ s \in Process /\ s.op = o.op /\ s.pc = "ensure" /\ s.run = o.run /\ s.from = o.from
        /\ s.to = p /\ s.key = o.key /\ s.left = o.left /\ s.kept = o.kept
        /\ s.sweep = o.sweep /\ o.left \subseteq Projects
    BY <1>1 DEF Goto, Process, Step
  <1>7. cmd[c]' = s => Placed(cmd[c])'
    <2> HIDE DEF s, t
    <2> SUFFICES ASSUME cmd[c]' = s PROVE Placed(cmd[c])'
      OBVIOUS
    <2>1. PlacedStore(cmd[c])'
      BY <1>1, <1>2, <1>3, <1>5, <1>6 DEF PlacedStore, Making
    <2>2. PlacedRun(cmd[c])' /\ PlacedEviction(cmd[c])'
      BY <1>1, <1>2, <1>3, <1>5, <1>6, CmdIs DEF PlacedRun, PlacedEviction, Stopping
    <2>3. PlacedRemoval(cmd[c])'
      BY <1>1, <1>2, <1>3, <1>5, <1>6, CmdIs DEF PlacedRemoval, Unused, Recorded
    <2>4. PlacedCopy(cmd[c])'
      <3>1. Behind(cmd[c])' = Behind(o) /\ p \notin Behind(o) /\ Behind(o) \subseteq Projects
        BY <1>1, <1>2, <1>3, <1>5, <1>6 DEF Behind
      <3>2. backup' = backup
        BY DEF Register, Goes, copies
      <3> QED
        BY <1>1, <1>2, <1>3, <1>5, <1>6, <3>1, <3>2, CmdIs DEF PlacedCopy
    <2> QED
      BY <2>1, <2>2, <2>3, <2>4 DEF Placed
  <1> QED
    BY <1>5, <1>6, <1>7, StoreChanges DEF Register

LEMMA EnsureSound ==
    ASSUME Solo, Sound, NEW c \in Processes, Ensure(c)
    PROVE  Sound'
  <1> DEFINE o == cmd[c]
             p == o.to
             s == Goto(o, AfterEnsure(o.op))
             t == [store[p] EXCEPT !.exists = TRUE, !.mounted = TRUE]
  <1>1. /\ o \in Process /\ o.pc = "ensure" /\ p \in Projects /\ store[p].recorded
        /\ o.op \in {"start", "rebind", "backup", "restore"} /\ store[p] \in Store
    BY CmdIs DEF Ensure, At, PlacedStore, Making, Sound, TypeOK
  <1>2. /\ t \in Store /\ t.recorded = store[p].recorded /\ t.exists /\ t.mounted
        /\ t.cache = store[p].cache
        /\ t.newest = store[p].newest /\ t.sessions = store[p].sessions
    BY <1>1 DEF Store
  <1>3. store' = [store EXCEPT ![p] = t] /\ UNCHANGED run
    BY <1>1 DEF Ensure, Sound, TypeOK
  <1>4. /\ store' \in [Projects -> Store] /\ store'[p] = t
        /\ \A q \in Projects : q # p => store'[q] = store[q]
        /\ StoresSound' /\ RunsSound' /\ HeldGenerationsExist'
    <2>1. /\ t.exists => t.recorded
          /\ t.mounted => t.exists
          /\ t.cache # {} \/ t.newest # Nil => t.newest \in t.cache
      BY <1>1, <1>2 DEF Sound, StoresSound
    <2> HIDE DEF t
    <2> QED
      BY <1>1, <1>2, <1>3, <2>1, OneStoreSound
  <1>5. /\ s \in Process /\ s.op = o.op /\ s.run = o.run /\ s.from = o.from
        /\ s.to = p /\ s.key = o.key /\ s.left = o.left /\ s.kept = o.kept
        /\ s.sweep = o.sweep /\ o.left \subseteq Projects
        /\ s.pc \in {"adopt", "archive", "put", "select"}
        /\ s.pc = "adopt" => s.op = "rebind"
        /\ s.pc = "archive" => s.op = "backup"
        /\ s.pc = "put" => s.op = "restore"
        /\ s.pc = "select" => s.op = "start"
    BY <1>1 DEF AfterEnsure, Goto, Process, Step
  <1>6. cmd[c]' = s => Placed(cmd[c])'
    <2> HIDE DEF s, t
    <2> SUFFICES ASSUME cmd[c]' = s PROVE Placed(cmd[c])'
      OBVIOUS
    <2>1. PlacedStore(cmd[c])'
      BY <1>1, <1>2, <1>3, <1>4, <1>5 DEF PlacedStore, Making
    <2>2. PlacedRun(cmd[c])' /\ PlacedEviction(cmd[c])'
      BY <1>1, <1>2, <1>3, <1>4, <1>5, CmdIs DEF PlacedRun, PlacedEviction, Stopping
    <2>3. PlacedRemoval(cmd[c])'
      BY <1>1, <1>2, <1>3, <1>4, <1>5, CmdIs DEF PlacedRemoval, Unused, Recorded
    <2>4. PlacedCopy(cmd[c])'
      <3>1. Behind(cmd[c])' = Behind(o) /\ p \notin Behind(o) /\ Behind(o) \subseteq Projects
        BY <1>1, <1>2, <1>3, <1>4, <1>5 DEF Behind
      <3>2. backup' = backup
        BY DEF Ensure, Goes, copies
      <3> QED
        BY <1>1, <1>2, <1>3, <1>4, <1>5, <3>1, <3>2, CmdIs DEF PlacedCopy
    <2> QED
      BY <2>1, <2>2, <2>3, <2>4 DEF Placed
  <1> QED
    BY <1>4, <1>5, <1>6, StoreChanges DEF Ensure

\* A command about a run goes on, whatever it did to a store.
LEMMA RunStepAfter ==
    ASSUME Sound, UNCHANGED run, NEW c \in Processes, cmd[c].pc \in Stopping,
           NEW pc \in {"promote", "relaunch", "import", "reclaim", "evict"},
           cmd[c]' = Goto(cmd[c], pc), pc = "evict" => Spares(cmd[c])
    PROVE  Placed(cmd[c])'
  <1> DEFINE o == cmd[c]
             s == Goto(o, pc)
  <1>1. /\ o \in Process /\ o.run \in Runs /\ Live(o.run) /\ o.sweep = NoPlan
        /\ o.op \in {"stop", "resume", "import", "discard"}
    BY CmdIs DEF PlacedRun, PlacedRemoval, Stopping
  <1>2. /\ s.op = o.op /\ s.pc = pc /\ s.run = o.run /\ s.sweep = NoPlan /\ s.held = o.held
    BY <1>1, GotoIs DEF Step
  <1> HIDE DEF s
  <1>3. cmd[c]' = s
    BY DEF s
  <1>4. pc = "evict" => Spares(cmd[c])'
    BY <1>2, <1>3 DEF Spares, HoldsGeneration
  <1> QED
    BY <1>1, <1>2, <1>3, <1>4
       DEF Placed, PlacedStore, PlacedRun, PlacedEviction, PlacedRemoval, PlacedCopy,
           Making, Stopping, Live, NoPlan

LEMMA PublishSound ==
    ASSUME Solo, Sound, NEW c \in Processes, Publish(c)
    PROVE  Sound'
  <1> DEFINE o == cmd[c]
             r == o.run
             p == run[r].project
             s == Goto(o, IF o.unreadable = {} THEN "evict" ELSE "promote")
             t == [store[p] EXCEPT !.cache = @ \cup {run[r].key}, !.newest = run[r].key]
  <1>1. /\ o \in Process /\ o.pc = "publish" /\ r \in Runs /\ Live(r)
        /\ o.unreadable # {} \/ Spares(o)
        /\ UNCHANGED run
    BY CmdIs DEF Publish, At, PlacedRun, PlacedEviction, Stopping
  <1>2. p \in Projects /\ run[r].key \in Keys /\ store[p] \in Store /\ store[p].exists
    BY <1>1 DEF Live, Sound, TypeOK, RunsSound, Recorded
  <1>3. /\ store' \in [Projects -> Store]
        /\ StoresSound' /\ RunsSound' /\ HeldGenerationsExist'
    <2>1. CASE ~Publishes(r)
      <3>1. store' = store
        BY <2>1 DEF Publish
      <3> QED
        BY <1>1, <3>1, AllStay, UndisturbedSound DEF StoresStay
    <2>2. CASE Publishes(r)
      <3>1. store' = [store EXCEPT ![p] = t]
        BY <1>2, <2>2 DEF Publish, Sound, TypeOK
      <3>2. /\ t \in Store /\ t.exists = store[p].exists /\ t.recorded = store[p].recorded
            /\ t.mounted = store[p].mounted /\ t.cache = store[p].cache \cup {run[r].key}
            /\ t.newest = run[r].key
        BY <1>2 DEF Store
      <3>3. /\ t.exists => t.recorded
            /\ t.mounted => t.exists
        BY <1>2, <3>2 DEF Sound, StoresSound
      <3> HIDE DEF t
      <3> QED
        BY <1>1, <1>2, <3>1, <3>2, <3>3, OneStoreSound
    <2> QED
      BY <2>1, <2>2
  <1>4. s \in Process
    BY <1>1, GotoIs DEF Step
  <1>5. cmd[c]' = s => Placed(cmd[c])'
    BY <1>1, RunStepAfter DEF Stopping
  <1> QED
    BY <1>1, <1>3, <1>4, <1>5, StoreChanges DEF Publish

LEMMA EvictSound ==
    ASSUME Solo, Sound, NEW c \in Processes, Evict(c)
    PROVE  Sound'
  <1> DEFINE o == cmd[c]
             p == run[o.run].project
             s == Goto(o, "promote")
             t == [store[p] EXCEPT !.cache = Kept(store[p], o.held)]
  <1>1. /\ o \in Process /\ o.pc = "evict" /\ o.run \in Runs /\ Live(o.run) /\ Spares(o)
        /\ UNCHANGED run
    BY CmdIs DEF Evict, At, PlacedRun, PlacedEviction, Stopping
  <1>2. p \in Projects /\ store[p] \in Store /\ store[p].exists
    BY <1>1 DEF Live, Sound, TypeOK, RunsSound, Recorded
  <1>3. /\ store' \in [Projects -> Store]
        /\ StoresSound' /\ RunsSound' /\ HeldGenerationsExist'
    <2>1. CASE ~store[p].mounted
      <3>1. store' = store
        BY <2>1 DEF Evict
      <3> QED
        BY <1>1, <3>1, AllStay, UndisturbedSound DEF StoresStay
    <2>2. CASE store[p].mounted
      <3>1. store' = [store EXCEPT ![p] = t]
        BY <1>2, <2>2 DEF Evict, Sound, TypeOK
      <3>2. /\ t \in Store /\ t.exists = store[p].exists /\ t.recorded = store[p].recorded
            /\ t.mounted = store[p].mounted /\ t.newest = store[p].newest
            /\ t.cache = store[p].cache \cap (o.held \cup {store[p].newest})
        BY <1>2 DEF Store, Kept
      <3>3. /\ t.exists => t.recorded
            /\ t.mounted => t.exists
            /\ t.cache # {} \/ t.newest # Nil => t.newest \in t.cache
        BY <1>2, <3>2 DEF Sound, StoresSound
      <3>4. \A q \in Runs : HoldsGeneration(q) /\ run[q].project = p
                            /\ run[q].snapshot \in store[p].cache => run[q].snapshot \in t.cache
        BY <1>1, <3>2 DEF Spares
      <3> HIDE DEF t
      <3> QED
        BY <1>1, <1>2, <3>1, <3>2, <3>3, <3>4, OneStoreSound
    <2> QED
      BY <2>1, <2>2
  <1>4. s \in Process
    BY <1>1, GotoIs DEF Step
  <1>5. cmd[c]' = s => Placed(cmd[c])'
    BY <1>1, RunStepAfter DEF Stopping
  <1> QED
    BY <1>1, <1>3, <1>4, <1>5, StoreChanges DEF Evict

\* Transcripts are added to a store.
LEMMA SessionsGrow ==
    ASSUME Sound, UNCHANGED run, NEW p \in Projects, NEW more \in SUBSET Runs,
           store' = [store EXCEPT ![p].sessions = more]
    PROVE  /\ store' \in [Projects -> Store]
           /\ \A q \in Projects :
                /\ store'[q].recorded = store[q].recorded /\ store'[q].exists = store[q].exists
                /\ store'[q].mounted = store[q].mounted
                /\ store'[q].sessions = IF q = p THEN more ELSE store[q].sessions
           /\ StoresSound' /\ RunsSound' /\ HeldGenerationsExist'
  <1> DEFINE t == [store[p] EXCEPT !.sessions = more]
  <1>1. store[p] \in Store /\ store' = [store EXCEPT ![p] = t]
    BY DEF Sound, TypeOK
  <1>2. /\ t \in Store /\ t.exists = store[p].exists /\ t.recorded = store[p].recorded
        /\ t.mounted = store[p].mounted /\ t.newest = store[p].newest
        /\ t.cache = store[p].cache /\ t.sessions = more
    BY <1>1 DEF Store
  <1>3. /\ t.exists => t.recorded
        /\ t.mounted => t.exists
        /\ t.cache # {} \/ t.newest # Nil => t.newest \in t.cache
        /\ t.exists \/ Unused(p)
    BY <1>2 DEF Sound, StoresSound, RunsSound, Unused
  <1> HIDE DEF t
  <1>4. /\ store' \in [Projects -> Store] /\ store'[p] = t
        /\ \A q \in Projects : q # p => store'[q] = store[q]
        /\ StoresSound' /\ RunsSound' /\ HeldGenerationsExist'
    BY <1>1, <1>2, <1>3, OneStoreSound
  <1> QED
    BY <1>2, <1>4

LEMMA PromoteSound ==
    ASSUME Solo, Sound, NEW c \in Processes, Promote(c)
    PROVE  Sound'
  <1> DEFINE o == cmd[c]
             r == o.run
             p == run[r].project
             s == AfterStop(o)
             more == IF run[r].worked THEN store[p].sessions \cup {r} ELSE store[p].sessions
  <1>1. /\ o \in Process /\ o.pc = "promote" /\ r \in Runs /\ Live(r) /\ UNCHANGED run
        /\ o.op \in {"stop", "resume", "import", "discard"}
    BY CmdIs DEF Promote, At, PlacedRun, Stopping
  <1>2. p \in Projects /\ store[p] \in Store
    BY <1>1 DEF Live, Sound, TypeOK, RunsSound, Recorded
  <1>3. store' = [store EXCEPT ![p].sessions = more] /\ more \in SUBSET Runs
    BY <1>1, <1>2 DEF Promote, Sound, TypeOK, Store
  <1>4. /\ store' \in [Projects -> Store]
        /\ StoresSound' /\ RunsSound' /\ HeldGenerationsExist'
    BY <1>1, <1>2, <1>3, SessionsGrow
  <1>5. s \in Process
    BY <1>1, AfterStopType
  <1>6. cmd[c]' = s => Placed(cmd[c])'
    BY <1>1, RunStepAfter, BackToIdle DEF AfterStop, Stopping
  <1> QED
    BY <1>1, <1>4, <1>5, <1>6, StoreChanges DEF Promote

LEMMA EmptySound ==
    ASSUME Solo, Sound, NEW c \in Processes, Empty(c)
    PROVE  Sound'
  <1> DEFINE p == cmd[c].from
             t == [store[p] EXCEPT !.cache = {}, !.newest = Nil]
  <1>1. /\ p \in Projects /\ \A r \in Runs : HoldsGeneration(r) => run[r].project # p
        /\ store[p] \in Store /\ UNCHANGED run
    BY CmdIs DEF Empty, At, PlacedRemoval, Sound, TypeOK
  <1>2. /\ store' \in [Projects -> Store]
        /\ StoresSound' /\ RunsSound' /\ HeldGenerationsExist'
    <2>1. CASE ~store[p].mounted
      <3>1. store' = store
        BY <2>1 DEF Empty
      <3> QED
        BY <1>1, <3>1, AllStay, UndisturbedSound DEF StoresStay
    <2>2. CASE store[p].mounted
      <3>1. store' = [store EXCEPT ![p] = t]
        BY <1>1, <2>2 DEF Empty, Sound, TypeOK
      <3>2. /\ t \in Store /\ t.exists = store[p].exists /\ t.recorded = store[p].recorded
            /\ t.mounted = store[p].mounted /\ t.newest = Nil /\ t.cache = {}
        BY <1>1 DEF Store
      <3> HIDE DEF t
      <3>3. /\ t.exists => t.recorded
            /\ t.mounted => t.exists
            /\ t.cache # {} \/ t.newest # Nil => t.newest \in t.cache
            /\ t.exists \/ Unused(p)
        <4>1. store[p].exists => store[p].recorded
          BY <1>1 DEF Sound, StoresSound
        <4>2. store[p].mounted => store[p].exists
          BY <1>1 DEF Sound, StoresSound
        <4>3. store[p].exists \/ Unused(p)
          BY DEF Sound, RunsSound, Unused
        <4> QED
          BY <3>2, <4>1, <4>2, <4>3
      <3>4. \A r \in Runs : HoldsGeneration(r) /\ run[r].project = p
                            /\ run[r].snapshot \in store[p].cache => run[r].snapshot \in t.cache
        BY <1>1
      <3>5. t \in Store
        BY <3>2
      <3> QED
        BY <1>1, <3>1, <3>3, <3>4, <3>5, OneStoreSound
    <2> QED
      BY <2>1, <2>2
  <1>3. cmd[c]' = Idle => Placed(cmd[c])'
    BY BackToIdle
  <1> QED
    BY <1>1, <1>2, <1>3, IdleIs, StoreChanges DEF Empty

LEMMA AdoptSound ==
    ASSUME Solo, Sound, NEW c \in Processes, Adopt(c)
    PROVE  Sound'
  <1> DEFINE o == cmd[c]
             p == o.from
             q == o.to
             s == Goto(o, "remove")
             more == IF store[p].mounted THEN store[q].sessions \cup store[p].sessions
                     ELSE store[q].sessions
  <1>1. /\ o \in Process /\ o.pc = "adopt" /\ o.op = "rebind" /\ p \in Projects
        /\ q \in Projects /\ Unused(p) /\ UNCHANGED run /\ o.sweep = NoPlan
    BY CmdIs DEF Adopt, At, PlacedStore, PlacedRemoval
  <1>2. store' = [store EXCEPT ![q].sessions = more] /\ more \in SUBSET Runs
    BY <1>1 DEF Adopt, Sound, TypeOK, Store
  <1>3. /\ store' \in [Projects -> Store]
        /\ StoresSound' /\ RunsSound' /\ HeldGenerationsExist'
    BY <1>1, <1>2, SessionsGrow
  <1>4. /\ s \in Process /\ s.op = "rebind" /\ s.pc = "remove" /\ s.from = p /\ s.to = q
        /\ s.sweep = NoPlan
    BY <1>1, GotoIs DEF Step
  <1>5. cmd[c]' = s => Placed(cmd[c])'
    BY <1>1, <1>4
       DEF Placed, PlacedStore, PlacedRun, PlacedEviction, PlacedRemoval, PlacedCopy,
           Making, Stopping, Unused, Recorded, NoPlan
  <1> QED
    BY <1>1, <1>3, <1>4, <1>5, StoreChanges DEF Adopt

LEMMA RemoveStoreSound ==
    ASSUME Solo, Sound, NEW c \in Processes, RemoveStore(c)
    PROVE  Sound'
  <1> DEFINE o == cmd[c]
             p == o.from
             s == Goto(o, "forgetStore")
             t == [store[p] EXCEPT !.exists = FALSE, !.mounted = FALSE, !.cache = {},
                                   !.newest = Nil, !.sessions = {}]
  <1>1. /\ o \in Process /\ o.pc = "remove" /\ p \in Projects /\ Unused(p) /\ store[p] \in Store
        /\ UNCHANGED run
    BY CmdIs DEF RemoveStore, At, PlacedRemoval, Sound, TypeOK
  <1>2. store' = [store EXCEPT ![p] = t]
    BY <1>1 DEF RemoveStore, Sound, TypeOK
  <1>3. /\ t \in Store /\ ~t.exists /\ ~t.mounted /\ t.cache = {} /\ t.newest = Nil
    BY <1>1 DEF Store
  <1>4. \A r \in Runs : HoldsGeneration(r) /\ run[r].project = p
                        /\ run[r].snapshot \in store[p].cache => run[r].snapshot \in t.cache
    BY <1>1 DEF Unused, HoldsGeneration, Recorded
  <1>5. /\ store' \in [Projects -> Store] /\ store'[p] = t
        /\ \A q \in Projects : q # p => store'[q] = store[q]
        /\ StoresSound' /\ RunsSound' /\ HeldGenerationsExist'
    <2>1. /\ t.exists => t.recorded
          /\ t.mounted => t.exists
          /\ t.cache # {} \/ t.newest # Nil => t.newest \in t.cache
          /\ t.exists \/ Unused(p)
      BY <1>1, <1>3
    <2>2. t \in Store /\ p \in Projects /\ UNCHANGED run
      BY <1>1, <1>3
    <2> HIDE DEF t, p
    <2> QED
      BY <1>2, <1>4, <2>1, <2>2, OneStoreSound
  <1>6. /\ s \in Process /\ s.op = o.op /\ s.pc = "forgetStore" /\ s.from = p /\ s.to = o.to
        /\ s.sweep = o.sweep /\ s.run = o.run /\ s.key = o.key /\ s.left = o.left
        /\ s.kept = o.kept
    BY <1>1 DEF Goto, Process, Step
  <1>7. cmd[c]' = s => Placed(cmd[c])'
    <2> HIDE DEF s, t
    <2> SUFFICES ASSUME cmd[c]' = s PROVE Placed(cmd[c])'
      OBVIOUS
    <2>1. o.op # "start" /\ o.op \in {"drop", "rebind", "collect"}
      BY <1>1, CmdIs DEF PlacedRemoval
    <2>2. PlacedStore(cmd[c])' /\ PlacedRun(cmd[c])' /\ PlacedEviction(cmd[c])'
      BY <1>6, <2>1 DEF PlacedStore, PlacedRun, PlacedEviction, Making, Stopping
    <2>3. PlacedRemoval(cmd[c])'
      BY <1>1, <1>3, <1>5, <1>6, <2>1, CmdIs DEF PlacedRemoval, Unused, Recorded
    <2>4. PlacedCopy(cmd[c])'
      BY <1>6, <2>1 DEF PlacedCopy
    <2> QED
      BY <2>2, <2>3, <2>4 DEF Placed
  <1> QED
    BY <1>1, <1>5, <1>6, <1>7, StoreChanges DEF RemoveStore

LEMMA ForgetStoreSound ==
    ASSUME Solo, Sound, NEW c \in Processes, ForgetStore(c)
    PROVE  Sound'
  <1> DEFINE o == cmd[c]
             p == o.from
             s == Finished(o)
             t == [store[p] EXCEPT !.recorded = FALSE, !.missing = Never]
  <1>1. /\ o \in Process /\ o.pc = "forgetStore" /\ p \in Projects /\ ~store[p].exists
        /\ Unused(p) /\ store[p] \in Store /\ UNCHANGED run
    BY CmdIs DEF ForgetStore, At, PlacedRemoval, Sound, TypeOK
  <1>2. store' = [store EXCEPT ![p] = t]
    BY <1>1 DEF ForgetStore, Sound, TypeOK
  <1>3. /\ t \in Store /\ t.exists = store[p].exists /\ t.mounted = store[p].mounted
        /\ t.cache = store[p].cache /\ t.newest = store[p].newest
    BY <1>1 DEF Store
  <1>4. /\ ~t.exists
        /\ t.mounted => t.exists
        /\ t.cache # {} \/ t.newest # Nil => t.newest \in t.cache
    BY <1>1, <1>3 DEF Sound, StoresSound
  <1>5. /\ store' \in [Projects -> Store]
        /\ StoresSound' /\ RunsSound' /\ HeldGenerationsExist'
    <2> HIDE DEF t
    <2> QED
      BY <1>1, <1>2, <1>3, <1>4, OneStoreSound
  <1>6. s \in Process
    BY <1>1, FinishedType
  <1>7. cmd[c]' = s => Placed(cmd[c])'
    <2>1. CASE o.op # "collect"
      BY <2>1, BackToIdle DEF Finished
    <2>2. CASE o.op = "collect"
      <3>1. s.op = "collect" /\ s.pc = "sweep" /\ s.sweep = o.sweep
        BY <1>1, <2>2 DEF Finished, Goto, Process
      <3>2. \A q \in o.sweep.stores : Unused(q)'
        BY <1>1, CmdIs DEF PlacedRemoval, Unused, Recorded
      <3> QED
        BY <3>1, <3>2
           DEF Placed, PlacedStore, PlacedRun, PlacedEviction, PlacedRemoval, PlacedCopy,
               Making, Stopping
    <2> QED
      BY <2>1, <2>2
  <1> QED
    BY <1>1, <1>5, <1>6, <1>7, StoreChanges DEF ForgetStore

(***************************************************************************)
(* Steps of a backup and of a restore.                                     *)
(***************************************************************************)
LEMMA ArchiveSound ==
    ASSUME Solo, Sound, NEW c \in Processes, Archive(c)
    PROVE  Sound'
  <1> DEFINE o == cmd[c]
             p == o.to
             sent == IF store[p].mounted THEN store[p].sessions ELSE {}
             files == backup.files[p] \cup sent
             kept == IF Archived(p, sent) THEN o.kept \cup {p} ELSE o.kept
             s == [Goto(o, "each") EXCEPT !.kept = IF Archived(p, sent) THEN @ \cup {p} ELSE @]
  <1>1. /\ o \in Process /\ o.pc = "archive" /\ o.op = "backup" /\ p \in Projects
        /\ store[p] \in Store /\ backup \in Backup /\ o.sweep = NoPlan
        /\ o.left \subseteq Projects /\ o.kept \subseteq Projects
    BY CmdIs DEF Archive, At, PlacedStore, PlacedCopy, PlacedRemoval, Sound, TypeOK, Process
  <1>2. /\ sent \subseteq Runs /\ kept \subseteq Projects /\ o.kept \subseteq kept
        /\ files # {} => p \in kept
        /\ store[p].mounted => store[p].sessions \subseteq files
    BY <1>1 DEF Archived, Store, Backup
  <1>3. backup' = [backup EXCEPT !.files[p] = files]
    BY DEF Archive
  <1>4. /\ backup' \in Backup /\ backup'.files[p] = files
        /\ \A q \in Projects : q # p => backup'.files[q] = backup.files[q]
    BY <1>1, <1>2, <1>3 DEF Backup
  <1>5. /\ s \in Process /\ s.op = "backup" /\ s.pc = "each" /\ s.left = o.left /\ s.kept = kept
        /\ s.sweep = NoPlan
    <2> DEFINE g == Goto(o, "each")
    <2>1. /\ g \in Process /\ g.op = "backup" /\ g.pc = "each" /\ g.left = o.left
          /\ g.kept = o.kept /\ g.sweep = NoPlan
      BY <1>1 DEF Goto, Process, Step
    <2>2. s = [g EXCEPT !.kept = kept]
      BY <2>1
    <2> HIDE DEF s, kept, g
    <2> QED
      BY <1>2, <2>1, <2>2 DEF Process
  <1>6. UNCHANGED <<run, up, damaged, store, absent, archives, mishaps>>
        /\ cmd' = [cmd EXCEPT ![c] = s]
    BY DEF Archive, Becomes
  <1>7. ASSUME cmd[c]' = s PROVE Placed(cmd[c])'
    <2> HIDE DEF s, kept, files, sent
    <2>1. Behind(cmd[c])' = Behind(o) \cup (IF p \in o.left THEN {} ELSE {p})
      BY <1>1, <1>5, <1>7 DEF Behind
    <2>2. \A q \in o.left : store[q].recorded
      BY <1>1, CmdIs DEF PlacedCopy
    <2>3. \A q \in Behind(cmd[c])' : store[q].mounted =>
            /\ store[q].sessions \subseteq backup'.files[q]
            /\ store[q].sessions # {} => q \in kept
      <3>1. ASSUME NEW q \in Behind(o), q # p, store[q].mounted
            PROVE  /\ store[q].sessions \subseteq backup'.files[q]
                   /\ store[q].sessions # {} => q \in kept
        BY <1>1, <1>2, <1>4, <3>1, CmdIs DEF PlacedCopy, Behind
      <3>2. ASSUME store[p].mounted
            PROVE  /\ store[p].sessions \subseteq backup'.files[p]
                   /\ store[p].sessions # {} => p \in kept
        BY <1>2, <1>4, <3>2
      <3> QED
        BY <2>1, <3>1, <3>2
    <2> QED
      BY <1>5, <1>6, <1>7, <2>2, <2>3
         DEF Placed, PlacedStore, PlacedRun, PlacedEviction, PlacedRemoval, PlacedCopy,
             Making, Stopping, NoPlan
  <1>8. /\ run' \in [Runs -> Run] /\ store' \in [Projects -> Store] /\ up' \subseteq Runs
        /\ damaged' \subseteq Runs /\ StoresSound' /\ RunsSound' /\ HeldGenerationsExist'
    BY <1>6, AllStay, UndisturbedSound DEF Sound, TypeOK
  <1> QED
    BY <1>4, <1>5, <1>6, <1>7, <1>8, DisturbingStep

LEMMA WriteManifestSound ==
    ASSUME Solo, Sound, NEW c \in Processes, WriteManifest(c)
    PROVE  Sound'
  <1>1. UNCHANGED <<run, up, damaged, store, absent, archives, mishaps>>
        /\ cmd' = [cmd EXCEPT ![c] = Idle]
    BY DEF WriteManifest, Becomes
  <1>2. /\ run' \in [Runs -> Run] /\ store' \in [Projects -> Store] /\ up' \subseteq Runs
        /\ damaged' \subseteq Runs /\ StoresSound' /\ RunsSound' /\ HeldGenerationsExist'
    BY <1>1, AllStay, UndisturbedSound DEF Sound, TypeOK
  <1>3. cmd[c].kept \in SUBSET Projects /\ backup \in Backup
    BY CmdIs DEF Process, Sound, TypeOK
  <1>4. backup' \in Backup
    BY <1>3 DEF WriteManifest, Backup
  <1>5. cmd[c]' = Idle => Placed(cmd[c])'
    BY BackToIdle
  <1> QED
    BY <1>1, <1>2, <1>4, <1>5, IdleIs, DisturbingStep

LEMMA PutSound ==
    ASSUME Solo, Sound, NEW c \in Processes, Put(c)
    PROVE  Sound'
  <1> DEFINE o == cmd[c]
             p == o.to
             s == Goto(o, "each")
             more == store[p].sessions \cup backup.files[p]
  <1>1. /\ o \in Process /\ o.pc = "put" /\ o.op = "restore" /\ p \in Projects
        /\ run' = run /\ backup' = backup /\ o.sweep = NoPlan /\ o.left \subseteq Projects
    BY CmdIs
       DEF Put, At, Goes, copies, PlacedStore, PlacedCopy, PlacedRemoval, Process
  <1>2. store' = [store EXCEPT ![p].sessions = more] /\ more \in SUBSET Runs
    BY <1>1 DEF Put, Sound, TypeOK, Store, Backup
  <1>3. /\ store' \in [Projects -> Store]
        /\ \A q \in Projects :
             /\ store'[q].recorded = store[q].recorded /\ store'[q].exists = store[q].exists
             /\ store'[q].mounted = store[q].mounted
             /\ store'[q].sessions = IF q = p THEN more ELSE store[q].sessions
        /\ StoresSound' /\ RunsSound' /\ HeldGenerationsExist'
    <2> HIDE DEF more, p
    <2> QED
      BY <1>1, <1>2, SessionsGrow
  <1>4. /\ s \in Process /\ s.op = "restore" /\ s.pc = "each" /\ s.left = o.left
        /\ s.sweep = NoPlan
    BY <1>1, GotoIs DEF Step
  <1>5. ASSUME cmd[c]' = s PROVE Placed(cmd[c])'
    <2> HIDE DEF s
    <2>1. Behind(cmd[c])' = Behind(o) \cup (IF p \in o.left THEN {} ELSE {p})
      BY <1>1, <1>4, <1>5 DEF Behind
    <2>2. \A q \in Behind(cmd[c])' \cap backup.manifest : backup.files[q] \subseteq store'[q].sessions
      BY <1>1, <1>3, <2>1, CmdIs DEF PlacedCopy, Behind
    <2> QED
      BY <1>1, <1>4, <1>5, <2>2
         DEF Placed, PlacedStore, PlacedRun, PlacedEviction, PlacedRemoval, PlacedCopy,
             Making, Stopping, NoPlan
  <1> QED
    BY <1>1, <1>3, <1>4, <1>5, StoreChanges DEF Put

-----------------------------------------------------------------------------
(***************************************************************************)
(* Mishaps, and what happens by itself.                                    *)
(***************************************************************************)
LEMMA FailureSound ==
    ASSUME Solo, Sound, NEW c \in Processes, StepIsRefused(c) \/ StepFails(c) \/ Killed(c)
    PROVE  Sound'
  <1> DEFINE s == AfterFailure(cmd[c])
  <1>1. cmd[c] \in Process /\ Placed(cmd[c])
    BY CmdIs
  <1>2. cmd[c].pc \in Step => s \in Process /\ Placed(s)
    BY <1>1, AfterFailureType, AfterFailurePlaced
  <1>3. RunsStay /\ StoresStay /\ UNCHANGED <<damaged, absent, backup>> /\ up' \subseteq Runs
    BY AllStay DEF StepIsRefused, StepFails, Killed, Goes, copies, Sound, TypeOK
  <1>4. archives' \in Nat /\ mishaps' \in Nat
    BY DEF StepIsRefused, StepFails, Killed, Goes, copies, Mishap, Sound, TypeOK
  <1>5. CASE StepIsRefused(c)
    <2>1. cmd[c].pc \in Step
      BY <1>5 DEF StepIsRefused, Impossible, At, Step
    <2> QED
      BY <1>2, <1>3, <1>4, <1>5, <2>1, QuietStep DEF StepIsRefused, Goes, Becomes
  <1>6. CASE StepFails(c)
    <2>1. cmd[c].pc \in Step
      BY <1>1, <1>6 DEF StepFails, Process
    <2> QED
      BY <1>2, <1>3, <1>4, <1>6, <2>1, QuietStep DEF StepFails, Becomes
  <1>7. CASE Killed(c)
    BY <1>3, <1>4, <1>7, IdleIs, QuietStep DEF Killed, Becomes
  <1> QED
    BY <1>5, <1>6, <1>7

LEMMA RebootSound ==
    ASSUME Sound, Reboot
    PROVE  Sound'
  <1>1. StoresStay
    <2>1. \A p \in Projects : [store[p] EXCEPT !.mounted = FALSE] \in Store
      BY DEF Sound, TypeOK, Store
    <2>2. store' \in [Projects -> Store]
      BY <2>1 DEF Reboot
    <2>3. ASSUME NEW p \in Projects
          PROVE  /\ store'[p].recorded = store[p].recorded /\ store'[p].exists = store[p].exists
                 /\ ~store'[p].mounted
                 /\ store'[p].cache = store[p].cache /\ store'[p].newest = store[p].newest
                 /\ store'[p].sessions = store[p].sessions
      BY <2>1 DEF Reboot, Sound, TypeOK, Store
    <2> QED
      BY <2>2, <2>3 DEF StoresStay
  <1>2. RunsStay
    BY DEF Reboot, RunsStay, Sound, TypeOK
  <1>3. TypeOK'
    BY <1>1 DEF Reboot, Mishap, copies, StoresStay, Sound, TypeOK
  <1> QED
    BY <1>1, <1>2, <1>3, NoCommandStep DEF Reboot, copies, Sound

LEMMA DaySound ==
    ASSUME Sound, Day
    PROVE  Sound'
  <1>1. run' \in [Runs -> Run] /\ RunsStay
    <2>1. ASSUME NEW r \in Runs
          PROVE  LET aged == [run[r] EXCEPT !.age = Older(run[r].age)]
                 IN  /\ aged \in Run /\ aged.state = run[r].state
                     /\ aged.project = run[r].project /\ aged.key = run[r].key
                     /\ aged.snapshot = run[r].snapshot
      BY AgesAre DEF Sound, TypeOK, Run
    <2> QED
      BY <2>1 DEF Day, RunsStay, Sound, TypeOK
  <1>2. store' \in [Projects -> Store] /\ StoresStay
    <2>1. ASSUME NEW p \in Projects, store[p].missing \in Age
          PROVE  LET aged == [store[p] EXCEPT !.missing = Older(store[p].missing)]
                 IN  /\ aged \in Store /\ aged.recorded = store[p].recorded
                     /\ aged.exists = store[p].exists /\ aged.mounted = store[p].mounted
                     /\ aged.cache = store[p].cache /\ aged.newest = store[p].newest
                     /\ aged.sessions = store[p].sessions
      BY <2>1, AgesAre DEF Sound, TypeOK, Store
    <2> QED
      BY <2>1 DEF Day, StoresStay, Sound, TypeOK
  <1>3. absent' \in [Projects -> Age \cup {Never}]
    BY AgesAre DEF Day, Sound, TypeOK
  <1>4. TypeOK'
    BY <1>1, <1>2, <1>3 DEF Day, copies, Sound, TypeOK
  <1> QED
    BY <1>1, <1>2, <1>4, NoCommandStep DEF Day, copies, Sound

LEMMA SurroundingsSound ==
    ASSUME Sound,
           \/ \E r \in Runs : AgentWorks(r) \/ ContainerEnds(r) \/ Damage(r)
           \/ \E p \in Projects : CheckoutGoes(p) \/ CheckoutReturns(p)
    PROVE  Sound'
  <1>1. ASSUME NEW r \in Runs, AgentWorks(r) PROVE Sound'
    <2>1. RunsStay
      BY <1>1, WorkedStays DEF AgentWorks
    <2>2. StoresStay /\ UNCHANGED <<up, damaged, absent, backup, archives, cmd, mishaps>>
      BY <1>1, AllStay DEF AgentWorks, copies, StoresStay, Sound, TypeOK
    <2>3. TypeOK'
      BY <2>1, <2>2 DEF RunsStay, StoresStay, Sound, TypeOK
    <2> QED
      BY <2>1, <2>2, <2>3, NoCommandStep DEF Sound
  <1>2. ASSUME UNCHANGED <<run, store, backup, archives, cmd>>, up' \subseteq Runs,
               damaged' \subseteq Runs, absent' \in [Projects -> Age \cup {Never}],
               mishaps' \in Nat
        PROVE  Sound'
    <2>1. TypeOK'
      BY <1>2 DEF Sound, TypeOK
    <2> QED
      BY <1>2, <2>1, AllStay, NoCommandStep DEF Sound
  <1>3. ASSUME NEW r \in Runs, ContainerEnds(r) \/ Damage(r) PROVE Sound'
    BY <1>2, <1>3 DEF ContainerEnds, Damage, Mishap, copies, Sound, TypeOK
  <1>4. ASSUME NEW p \in Projects, CheckoutGoes(p) \/ CheckoutReturns(p) PROVE Sound'
    BY <1>2, <1>4, AgesAre DEF CheckoutGoes, CheckoutReturns, Mishap, copies, Sound, TypeOK
  <1> QED
    BY <1>1, <1>3, <1>4

-----------------------------------------------------------------------------
(***************************************************************************)
(* The theorems.                                                           *)
(***************************************************************************)
LEMMA InitSound == Init => Sound
  <1> SUFFICES ASSUME Init PROVE Sound
    OBVIOUS
  <1>1. NoRun \in Run /\ NoStore \in Store
    BY AgesAre DEF NoRun, NoStore, Run, Store
  <1>2. TypeOK
    BY <1>1, IdleIs DEF Init, TypeOK, Backup
  <1>3. StoresSound /\ RunsSound /\ HeldGenerationsExist
    BY DEF Init, StoresSound, RunsSound, HeldGenerationsExist, HoldsGeneration, Recorded, NoRun,
           NoStore
  <1>4. \A c \in Processes : Placed(cmd[c])
    BY IdleIs DEF Init
  <1> QED
    BY <1>2, <1>3, <1>4 DEF Sound

LEMMA NextSound ==
    ASSUME Solo, Sound, [Next]_vars
    PROVE  Sound'
  <1>1. CASE UNCHANGED vars
    <2>1. TypeOK' /\ UNCHANGED <<run, store, backup, cmd>>
      BY <1>1 DEF vars, copies, Sound, TypeOK
    <2> QED
      BY <2>1, AllStay, NoCommandStep DEF Sound
  <1>2. ASSUME NEW c \in Processes, Proceeds(c) PROVE Sound'
    BY <1>2, RegisterSound, EnsureSound, SelectSound, CreateSound, LaunchSound, ActivateSound,
       TakeBackSound, TakeDownSound, RecordStopSound, ListHeldSound, PublishSound, EvictSound,
       PromoteSound, RecordImportSound, ReclaimSound, ForgetSound, EmptySound, AdoptSound,
       RemoveStoreSound, ForgetStoreSound, SweepSound, NextProjectSound, ArchiveSound,
       WriteManifestSound, PutSound, FailureSound
       DEF Proceeds
  <1> QED
    BY <1>1, <1>2, CommandsSound, FailureSound, RebootSound, DaySound, SurroundingsSound DEF Next

LEMMA AlwaysSound ==
    ASSUME Solo
    PROVE  Spec => []Sound
  <1>1. Sound /\ [Next]_vars => Sound'
    BY NextSound
  <1> QED
    BY <1>1, InitSound, PTL DEF Spec

\* Every variable keeps its type.
THEOREM TypeCorrect ==
    ASSUME Solo
    PROVE  Spec => []TypeOK
  <1>1. Sound => TypeOK
    BY DEF Sound
  <1> QED
    BY <1>1, AlwaysSound, PTL

\* No command, wherever it stops, leaves a filesystem without the record that names
\* its checkout.
THEOREM NoStoreIsLost ==
    ASSUME Solo
    PROVE  Spec => []StoresAreNamed
  <1>1. Sound => StoresAreNamed
    BY DEF Sound, StoresSound, StoresAreNamed
  <1> QED
    BY <1>1, AlwaysSound, PTL

\* No command takes its project's store from a run that has a record, readable or not.
THEOREM NoRunLosesItsStore ==
    ASSUME Solo
    PROVE  Spec => []RunsHaveStores
  <1>1. Sound => RunsHaveStores
    BY DEF Sound, RunsSound, RunsHaveStores
  <1> QED
    BY <1>1, AlwaysSound, PTL

\* No command takes a generation of the cache from a run that mounts it, or will.
THEOREM NoRunLosesItsGeneration ==
    ASSUME Solo
    PROVE  Spec => []HeldGenerationsExist
  <1>1. Sound => HeldGenerationsExist
    BY DEF Sound
  <1> QED
    BY <1>1, AlwaysSound, PTL

\* A finished backup has every transcript of the stores it could read, and names
\* each; a finished restore leaves in the stores what the backup has for them.
THEOREM BackupsComeBack ==
    ASSUME Solo
    PROVE  Spec => []BackupBringsBack
  <1>1. Sound => BackupBringsBack
    <2> SUFFICES ASSUME Sound, NEW c \in Processes, At(c, "each"), cmd[c].left = {}
                 PROVE  /\ cmd[c].op = "backup" =>
                             \A p \in Projects : store[p].mounted =>
                                 /\ store[p].sessions \subseteq backup.files[p]
                                 /\ store[p].sessions # {} => p \in cmd[c].kept
                        /\ cmd[c].op = "restore" =>
                             \A p \in backup.manifest :
                                 backup.files[p] \subseteq store[p].sessions
      BY DEF BackupBringsBack
    <2>1. Behind(cmd[c]) = Projects /\ backup.manifest \subseteq Projects
      BY DEF At, Behind, Sound, TypeOK, Backup
    <2> QED
      BY <2>1, CmdIs DEF PlacedCopy
  <1> QED
    BY <1>1, AlwaysSound, PTL

\* The newest generation of a cache outlives every eviction: a cache that has one to
\* start from is emptied only on purpose.
THEOREM CachesStayUsable ==
    ASSUME Solo
    PROVE  Spec => CacheStaysUsable
  <1> DEFINE Step1 ==
        \A p \in Projects :
          store[p].cache # {} /\ store'[p].cache = {}
          => \E c \in Processes : cmd[c].from = p /\ (At(c, "empty") \/ At(c, "remove"))
  <1>1. Sound /\ [Next]_vars => [Step1]_vars
    <2> SUFFICES ASSUME Sound, Next, NEW p \in Projects,
                        store[p].cache # {}, store'[p].cache = {}
                 PROVE  \E c \in Processes :
                          cmd[c].from = p /\ (At(c, "empty") \/ At(c, "remove"))
      OBVIOUS
    <2>1. store[p].newest \in store[p].cache /\ store \in [Projects -> Store]
      BY DEF Sound, StoresSound, TypeOK
    <2>2. store' # store
      OBVIOUS
    <2>3. ~Reboot /\ ~Day
      BY <2>1 DEF Reboot, Day, Store
    <2>4. PICK c \in Processes :
            \/ Register(c) \/ Ensure(c) \/ Publish(c) \/ Evict(c) \/ Promote(c) \/ Empty(c)
            \/ Adopt(c) \/ RemoveStore(c) \/ ForgetStore(c) \/ Stamp(c) \/ Put(c)
      <3>1. ASSUME NEW c \in Processes, Commands(c) PROVE FALSE
        BY <2>2, <3>1
           DEF Commands, BeginStart, BeginByStopping, BeginResume, BeginImport, BeginDiscard,
               BeginReset, BeginDrop, BeginRebind, BeginCollect, BeginBackup, BeginRestore,
               BeginArchiving, Begins
      <3>2. ASSUME NEW c \in Processes,
                   \/ SelectSnapshot(c) \/ Create(c) \/ Launch(c) \/ Activate(c) \/ TakeBack(c)
                   \/ TakeDown(c) \/ RecordStop(c) \/ ListHeld(c) \/ RecordImport(c)
                   \/ Reclaim(c) \/ Forget(c) \/ SweepRun(c) \/ SweepStore(c) \/ Swept(c)
                   \/ StepIsRefused(c) \/ NextProject(c) \/ Archive(c) \/ WriteManifest(c)
                   \/ Restored(c) \/ StepFails(c) \/ Killed(c)
            PROVE  FALSE
        BY <2>2, <3>2
           DEF SelectSnapshot, Create, Launch, Activate, TakeBack, TakeDown, RecordStop,
               ListHeld, RecordImport, Reclaim, Forget, SweepRun, SweepStore, Swept,
               StepIsRefused, NextProject, Archive, WriteManifest, Restored, StepFails, Killed
      <3>3. ASSUME \/ \E r \in Runs : AgentWorks(r) \/ ContainerEnds(r) \/ Damage(r)
                   \/ \E q \in Projects : CheckoutGoes(q) \/ CheckoutReturns(q)
            PROVE  FALSE
        BY <2>2, <3>3 DEF AgentWorks, ContainerEnds, Damage, CheckoutGoes, CheckoutReturns
      <3> QED
        BY <2>3, <3>1, <3>2, <3>3 DEF Next, Proceeds
    <2>5. ASSUME NEW q, NEW x, NEW y,
                 \/ store' = [store EXCEPT ![q].recorded = x, ![q].missing = y]
                 \/ store' = [store EXCEPT ![q].exists = x, ![q].mounted = y]
                 \/ store' = [store EXCEPT ![q].missing = x]
                 \/ store' = [store EXCEPT ![q].sessions = x]
          PROVE  FALSE
      <3>1. \A s \in Store : [s EXCEPT !.recorded = x, !.missing = y].cache = s.cache
        BY DEF Store
      <3>2. \A s \in Store : [s EXCEPT !.exists = x, !.mounted = y].cache = s.cache
        BY DEF Store
      <3>3. \A s \in Store : /\ [s EXCEPT !.missing = x].cache = s.cache
                             /\ [s EXCEPT !.sessions = x].cache = s.cache
        BY DEF Store
      <3>4. store[p] \in Store
        BY <2>1
      <3>5. CASE store' = [store EXCEPT ![q].recorded = x, ![q].missing = y]
        BY <2>1, <3>1, <3>4, <3>5
      <3>6. CASE store' = [store EXCEPT ![q].exists = x, ![q].mounted = y]
        BY <2>1, <3>2, <3>4, <3>6
      <3>7. CASE store' = [store EXCEPT ![q].missing = x]
        BY <2>1, <3>3, <3>4, <3>7
      <3>8. CASE store' = [store EXCEPT ![q].sessions = x]
        BY <2>1, <3>3, <3>4, <3>8
      <3> QED
        BY <2>5, <3>5, <3>6, <3>7, <3>8
    <2>6. ~Register(c) /\ ~Ensure(c) /\ ~ForgetStore(c) /\ ~Put(c)
      BY <2>5 DEF Register, Ensure, ForgetStore, Put
    <2>7. ~Promote(c) /\ ~Adopt(c)
      <3>1. ~Promote(c)
        BY <2>5 DEF Promote
      <3>2. ~Adopt(c)
        BY <2>5 DEF Adopt
      <3> QED
        BY <3>1, <3>2
    <2>8. ~Stamp(c)
      <3> SUFFICES ASSUME Stamp(c)
                   PROVE  FALSE
        OBVIOUS
      <3>1. PICK q : store' = IF store[q].recorded THEN [store EXCEPT ![q].missing = 0]
                                                   ELSE store
        BY DEF Stamp
      <3>2. store' = [store EXCEPT ![q].missing = 0]
        BY <2>2, <3>1
      <3> QED
        BY <2>5, <3>2
    <2>9. ~Publish(c)
      <3> DEFINE q == run[cmd[c].run].project
                 k == run[cmd[c].run].key
      <3> SUFFICES ASSUME Publish(c)
                   PROVE  FALSE
        OBVIOUS
      <3>1. store' = [store EXCEPT ![q].cache = @ \cup {k}, ![q].newest = k]
        BY <2>2 DEF Publish
      <3>2. \A s \in Store :
              [s EXCEPT !.cache = @ \cup {k}, !.newest = k].cache = s.cache \cup {k}
        BY DEF Store
      <3> HIDE DEF q, k
      <3>3. store'[p].cache = store[p].cache \/ store'[p].cache = store[p].cache \cup {k}
        BY <2>1, <3>1, <3>2
      <3> QED
        BY <3>3
    <2>10. ~Evict(c)
      <3> DEFINE q == run[cmd[c].run].project
      <3> SUFFICES ASSUME Evict(c)
                   PROVE  FALSE
        OBVIOUS
      <3>1. store' = [store EXCEPT ![q].cache = Kept(store[q], cmd[c].held)]
        BY <2>2 DEF Evict
      <3>2. \A x : \A s \in Store : [s EXCEPT !.cache = x].cache = x
        BY DEF Store
      <3> HIDE DEF q
      <3>3. store'[p].cache = store[p].cache \/ store'[p].cache = Kept(store[p], cmd[c].held)
        BY <2>1, <3>1, <3>2
      <3>4. store[p].newest \in Kept(store[p], cmd[c].held)
        BY <2>1 DEF Kept
      <3> QED
        BY <3>3, <3>4
    <2>11. Empty(c) => cmd[c].from = p
      BY <2>1 DEF Empty, Store
    <2>12. RemoveStore(c) => cmd[c].from = p
      BY <2>1 DEF RemoveStore, Store
    <2> QED
      BY <2>4, <2>6, <2>7, <2>8, <2>9, <2>10, <2>11, <2>12 DEF Empty, RemoveStore
  <1> QED
    BY <1>1, AlwaysSound, PTL DEF Spec, CacheStaysUsable
=============================================================================
