------------------------- MODULE RunLifecycleProofs --------------------------
(***************************************************************************)
(* Theorems about RunLifecycle, for any number of runs and commands, and   *)
(* any number of mishaps.  The first three hold however commands           *)
(* interleave.  The others are about runs that have one command at a time, *)
(* followed by any number of others: the run's record names all it owns,   *)
(* its work is captured at rest, and it keeps the promise of RunPromise.   *)
(***************************************************************************)
EXTENDS RunLifecycle, TLAPS

-----------------------------------------------------------------------------
(***************************************************************************)
(* What the helpers of a command return is a command.                      *)
(***************************************************************************)
LEMMA NoRunType == NoRun \in Manifest
  BY DEF NoRun, Manifest, State, Nil

LEMMA IdleType == Idle \in Command
  BY NoRunType DEF Idle, Command, Nil

LEMMA NamesOfSteps ==
    /\ "create" \in Phase /\ "stop" \in Phase /\ "cleanup" \in Phase /\ "apply" \in Phase
    /\ "ssh" \in Step /\ "down" \in Step /\ "persist" \in Step /\ "capture" \in Step
    /\ "commit" \in Step /\ "reclaim" \in Step
  BY DEF Phase, Step

LEMMA StopBegunIs ==
    ASSUME NEW op \in Op
    PROVE  /\ [Idle EXCEPT !.op = op, !.phase = "stop", !.pc = "down"] \in Command
           /\ [Idle EXCEPT !.op = op, !.phase = "stop", !.pc = "down"].phase = "stop"
           /\ [Idle EXCEPT !.op = op, !.phase = "stop", !.pc = "down"].pc = "down"
  BY NoRunType, NamesOfSteps DEF Idle, Command, Nil

LEMMA StartedIs ==
    LET t == [Idle EXCEPT !.op = "start", !.phase = "create", !.pc = "ssh", !.left = Lifetime]
    IN  t \in Command /\ t.phase = "create" /\ t.pc = "ssh"
  <1>1. "start" \in Op /\ Lifetime \in Nat
    BY LifetimeAssumption DEF Op
  <1> QED
    BY <1>1, NoRunType, NamesOfSteps DEF Idle, Command, Nil

LEMMA RemainingType ==
    ASSUME NEW m \in Manifest, NEW now \in Nat
    PROVE  Remaining(m, now) \in Nat
  BY LifetimeAssumption DEF Remaining, Manifest, Nil

LEMMA GotoType ==
    ASSUME NEW s \in Command, NEW pc \in Step
    PROVE  Goto(s, pc) \in Command
  BY DEF Goto, Command

LEMMA WritingType ==
    ASSUME NEW s \in Command, NEW operation \in Operation
    PROVE  Writing(s, operation) \in Command
  BY DEF Writing, Command, Step

LEMMA FailingType ==
    ASSUME NEW s \in Command
    PROVE  Failing(s) \in Command
  BY WritingType DEF Failing, Operation

LEMMA EnteringType ==
    ASSUME NEW s \in Command, NEW phase \in Phase, NEW pc \in Step
    PROVE  Entering(s, phase, pc) \in Command
  BY DEF Entering, Command

LEMMA ResumingType ==
    ASSUME NEW s \in Command, NEW m \in Manifest, clock \in Nat
    PROVE  Resuming(s, m) \in Command
  BY RemainingType DEF Resuming, Entering, Command, Phase, Step

LEMMA ApplyingType ==
    ASSUME NEW s \in Command, NEW m \in Manifest
    PROVE  Applying(s, m) \in Command
  <1>1. /\ Entering(s, "apply", "commit") \in Command
        /\ Entering(s, "apply", "capture") \in Command
    BY EnteringType, NamesOfSteps
  <1>2. m.apply \in Nat
    BY DEF Manifest
  <1>3. [Entering(s, "apply", "commit") EXCEPT !.tip = m.apply] \in Command
    BY <1>1, <1>2 DEF Command
  <1> QED
    BY <1>1, <1>3 DEF Applying

LEMMA ReleasingType ==
    ASSUME NEW s \in Command
    PROVE  Releasing(s) \in Command
  BY DEF Releasing, Entering, Command, Phase, Step

LEMMA AfterStopType ==
    ASSUME NEW s \in Command, NEW m \in Manifest, clock \in Nat
    PROVE  AfterStop(s, m) \in Command
  BY IdleType, ReleasingType, ApplyingType, ResumingType DEF AfterStop

LEMMA AfterRemovalType ==
    ASSUME NEW s \in Command
    PROVE  AfterRemoval(s) \in Command
  BY GotoType, FailingType DEF AfterRemoval, Step

LEMMA AfterRefusalType ==
    ASSUME NEW s \in Command
    PROVE  AfterRefusal(s) \in Command
  BY EnteringType, GotoType, IdleType, FailingType DEF AfterRefusal, Phase, Step

LEMMA AfterWriteType ==
    ASSUME NEW s \in Command, NEW m \in Manifest, clock \in Nat
    PROVE  AfterWrite(s, m) \in Command
  <1>1. [s EXCEPT !.seen = m] \in Command
    BY DEF Command
  <1> QED
    BY <1>1, EnteringType, GotoType, AfterStopType, IdleType DEF AfterWrite, Phase, Step

LEMMA AfterDropType ==
    ASSUME NEW s \in Command
    PROVE  AfterDrop(s) \in Command
  BY GotoType, FailingType DEF AfterDrop, AfterReclaim, Step

LEMMA AfterFailureType ==
    ASSUME NEW s \in Command
    PROVE  AfterFailure(s) \in Command
  <1>1. [s EXCEPT !.failed = TRUE] \in Command
    BY DEF Command
  <1>2. [s EXCEPT !.phase = "persist"] \in Command
    BY DEF Command, Phase
  <1> QED
    BY <1>1, <1>2, AfterRefusalType, AfterDropType, GotoType, EnteringType, FailingType
    DEF AfterFailure, Phase, Step

LEMMA WrittenType ==
    ASSUME NEW s \in Command, clock \in Nat
    PROVE  Written(s) \in Manifest
  BY DEF Written, Activated, Stopped, Resumed, ApplyBegun, ApplyCompleted, ReturnedCleared,
         Command, Manifest, State, Nil

-----------------------------------------------------------------------------
(***************************************************************************)
(* The type invariant.                                                     *)
(***************************************************************************)
LEMMA BecomesType ==
    ASSUME TypeOK, NEW c \in Commands, NEW s \in Command, Becomes(c, s)
    PROVE  cmd' \in [Commands -> Command]
  BY DEF Becomes, TypeOK

LEMMA MishapType ==
    ASSUME TypeOK, NEW kind, Mishap(kind)
    PROVE  mishaps' \in Suffered
  BY DEF TypeOK, Mishap, Suffered

LEMMA EndsType ==
    ASSUME TypeOK, NEW c \in Commands, NEW s \in Command, Ends(c, s)
    PROVE  cmd' \in [Commands -> Command] /\ mishaps' \in Suffered
  <1>1. cmd[c] \in Command /\ mishaps \in Suffered
    BY DEF TypeOK
  <1>2. CASE Becomes(c, s) /\ UNCHANGED mishaps
    BY <1>1, <1>2, BecomesType
  <1>3. CASE Fails(c)
    BY <1>1, <1>3, MishapType, BecomesType, AfterFailureType DEF Fails
  <1> QED
    BY <1>2, <1>3 DEF Ends

LEMMA InitType == Init => TypeOK
  BY NoRunType, IdleType DEF Init, TypeOK, VM, Mac, Container, Storage, Suffered, Nil

LEMMA BeginsType ==
    ASSUME TypeOK, NEW c \in Commands, Begins(c)
    PROVE  TypeOK'
  <1>1. RunOf[c] \in Runs /\ record[RunOf[c]] \in Manifest
    BY CommandsAssumption DEF TypeOK
  <1>2. CASE BeginStart(c)
    <2>1. Created(clock) \in Manifest
      BY DEF Created, NoRun, Manifest, State, Nil, TypeOK
    <2>2. [Idle EXCEPT !.op = "start", !.phase = "create", !.pc = "ssh", !.left = Lifetime]
            \in Command
      BY StartedIs
    <2> QED
      BY <1>1, <1>2, <2>1, <2>2, BecomesType DEF BeginStart, TypeOK
  <1>3. ASSUME NEW op \in {"stop", "resume", "apply", "discard"}, BeginByStopping(c, op)
        PROVE  TypeOK'
    <2>1. op \in Op
      BY DEF Op
    <2>2. [Idle EXCEPT !.op = op, !.phase = "stop", !.pc = "down"] \in Command
      BY <2>1, StopBegunIs
    <2> QED
      BY <1>3, <2>2, BecomesType DEF BeginByStopping, TypeOK
  <1>4. \A op \in Op : [Idle EXCEPT !.op = op] \in Command
    BY IdleType DEF Command
  <1>5. CASE BeginResume(c)
    BY <1>1, <1>4, <1>5, ResumingType, BecomesType DEF BeginResume, TypeOK, Op
  <1>6. CASE BeginApply(c)
    <2>1. [Idle EXCEPT !.op = "apply"] \in Command
      BY <1>4 DEF Op
    <2>2. Entering([Idle EXCEPT !.op = "apply"], "apply", "copyBack") \in Command
      BY <2>1, EnteringType DEF Phase, Step
    <2>3. [Entering([Idle EXCEPT !.op = "apply"], "apply", "copyBack")
             EXCEPT !.seen = record[RunOf[c]]] \in Command
      BY <1>1, <2>2 DEF Command
    <2>4. Applying([Idle EXCEPT !.op = "apply"], record[RunOf[c]]) \in Command
      BY <1>1, <2>1, ApplyingType
    <2> QED
      BY <1>6, <2>3, <2>4, BecomesType DEF BeginApply, TypeOK
  <1>7. CASE BeginDiscard(c)
    BY <1>4, <1>7, ReleasingType, BecomesType DEF BeginDiscard, TypeOK, Op
  <1> QED
    BY <1>2, <1>3, <1>5, <1>6, <1>7 DEF Begins

LEMMA ProceedsType ==
    ASSUME TypeOK, NEW c \in Commands, Proceeds(c)
    PROVE  TypeOK'
  <1> DEFINE r == RunOf[c]
  <1>1. /\ r \in Runs
        /\ record[r] \in Manifest
        /\ vm[r] \in VM
        /\ mac[r] \in Mac
        /\ cmd[c] \in Command
        /\ clock \in Nat
        /\ issued \in Nat
    BY CommandsAssumption DEF TypeOK
  <1>2. \A pc \in Step : Goto(cmd[c], pc) \in Command
    BY <1>1, GotoType
  <1>3. CASE PrepareSsh(c)
    BY <1>1, <1>2, <1>3, BecomesType DEF PrepareSsh, TypeOK, Mac, Step
  <1>4. CASE CreateStage(c)
    BY <1>1, <1>2, <1>4, EndsType DEF CreateStage, TypeOK, VM, Step
  <1>5. CASE CreateRunStorage(c)
    BY <1>1, <1>2, <1>5, EndsType DEF CreateRunStorage, TypeOK, VM, Storage, Step
  <1>6. CASE RunContainer(c)
    <2>1. clock + cmd[c].left \in Nat
      BY <1>1 DEF Command
    <2> QED
      BY <1>1, <1>2, <1>6, <2>1, EndsType DEF RunContainer, TypeOK, VM, Container, Step
  <1>7. CASE Materialize(c)
    BY <1>1, <1>2, <1>7, EndsType DEF Materialize, TypeOK, VM, Step
  <1>8. CASE Configure(c)
    <2>1. [cmd[c] EXCEPT !.capability = issued + 1] \in Command
      BY <1>1 DEF Command
    <2>2. \A operation \in Operation :
            Writing([cmd[c] EXCEPT !.capability = issued + 1], operation) \in Command
      BY <2>1, WritingType
    <2>3. PICK offered \in BOOLEAN :
            vm' = [vm EXCEPT ![r].told = IF offered THEN issued + 1 ELSE @,
                             ![r].offered = offered]
      BY <1>8 DEF Configure
    <2>4. vm' \in [Runs -> VM]
      BY <1>1, <2>3 DEF TypeOK, VM
    <2> QED
      BY <1>1, <1>8, <2>2, <2>4, EndsType DEF Configure, TypeOK, Operation
  <1>9. CASE StopContainer(c)
    BY <1>1, <1>2, <1>9, AfterRemovalType, BecomesType, EndsType
    DEF StopContainer, TypeOK, VM, Container, Step
  <1>10. CASE RemoveContainer(c)
    BY <1>1, <1>10, AfterRemovalType, EndsType DEF RemoveContainer, TypeOK, VM, Container
  <1>11. CASE VerifyRunStorage(c)
    BY <1>1, <1>11, WritingType, EndsType
    DEF VerifyRunStorage, Mounted, TypeOK, VM, Storage, Operation
  <1>12. CASE Persist(c)
    BY <1>1, <1>12, AfterStopType, BecomesType DEF Persist, TypeOK, Command
  <1>13. CASE CheckResume(c)
    BY <1>1, <1>2, <1>13, EndsType DEF CheckResume, Mounted, TypeOK, VM, Storage, Step
  <1>14. CASE CaptureResult(c)
    <2>1. ASSUME NEW outputs \in BOOLEAN
          PROVE  [Goto(cmd[c], "import") EXCEPT !.tip = vm[r].work, !.outputs = outputs]
                   \in Command
      BY <1>1 DEF Goto, Command, VM, Step
    <2> QED
      BY <1>1, <1>14, <2>1, BecomesType DEF CaptureResult, Mounted, TypeOK, VM, Storage
  <1>15. CASE ImportResult(c)
    <2>1. (mac[r].archive \/ cmd[c].outputs) \in BOOLEAN
      BY <1>1 DEF Mac, Command
    <2>2. mac' \in [Runs -> Mac]
      BY <1>1, <1>15, <2>1 DEF ImportResult, TypeOK, Mac
    <2>3. cmd' \in [Commands -> Command]
      BY <1>1, <1>2, <1>15, WritingType, BecomesType DEF ImportResult, Operation, Step
    <2>4. mishaps' \in Suffered
      BY <1>15, MishapType DEF ImportResult, TypeOK
    <2> QED
      BY <1>15, <2>2, <2>3, <2>4 DEF ImportResult, TypeOK
  <1>16. CASE CommitResult(c)
    BY <1>1, <1>16, WritingType, EndsType DEF CommitResult, TypeOK, Mac, Command, Operation
  <1>17. CASE RollbackResult(c)
    BY <1>1, <1>17, FailingType, BecomesType DEF RollbackResult, TypeOK, Mac, Nil
  <1>18. CASE CopyBack(c)
    BY <1>1, <1>18, WritingType, BecomesType DEF CopyBack, TypeOK, Mac, Operation
  <1>19. CASE DeclineApply(c)
    BY <1>19, IdleType, BecomesType DEF DeclineApply, TypeOK
  <1>20. CASE ReclaimContainer(c)
    BY <1>1, <1>2, <1>20, EndsType DEF ReclaimContainer, TypeOK, VM, Container, Step
  <1>21. CASE DropStorage(c)
    BY <1>1, <1>21, AfterDropType, EndsType DEF DropStorage, TypeOK, VM, Storage, Nil
  <1>22. CASE DropStage(c)
    BY <1>1, <1>22, AfterDropType, EndsType DEF DropStage, TypeOK, VM
  <1>23. CASE DropSsh(c)
    BY <1>1, <1>23, AfterDropType, EndsType DEF DropSsh, TypeOK, Mac
  <1>24. CASE DropArchive(c)
    BY <1>1, <1>2, <1>24, EndsType DEF DropArchive, TypeOK, Mac, Step
  <1>25. Capabilities(record[r]) \in SUBSET Nat
    BY <1>1 DEF Capabilities, Manifest
  <1>26. CASE Forget(c)
    BY <1>1, <1>25, <1>26, NoRunType, IdleType, EndsType DEF Forget, TypeOK
  <1>27. CASE ReadRecord(c)
    <2>1. \A pc \in Step : [cmd[c] EXCEPT !.seen = record[r], !.pc = pc] \in Command
      BY <1>1 DEF Command
    <2> QED
      BY <1>1, <1>27, <2>1, AfterRefusalType, BecomesType DEF ReadRecord, TypeOK, Step
  <1>28. CASE ReplaceRecord(c)
    <2>1. Written(cmd[c]) \in Manifest
      BY <1>1, WrittenType
    <2> QED
      BY <1>1, <1>25, <1>28, <2>1, AfterWriteType, BecomesType DEF ReplaceRecord, TypeOK
  <1>29. CASE StepIsRefused(c)
    BY <1>1, <1>29, AfterFailureType, BecomesType DEF StepIsRefused, TypeOK
  <1> QED
    BY <1>3, <1>4, <1>5, <1>6, <1>7, <1>8, <1>9, <1>10, <1>11, <1>12, <1>13, <1>14,
       <1>15, <1>16, <1>17, <1>18, <1>19, <1>20, <1>21, <1>22, <1>23, <1>24, <1>26,
       <1>27, <1>28, <1>29, Proceeds(c) DEF Proceeds

LEMMA MishapsType ==
    ASSUME TypeOK, NEW c \in Commands,
           StepFails(c) \/ WriteUnsynced(c) \/ Killed(c)
    PROVE  TypeOK'
  <1> DEFINE r == RunOf[c]
  <1>1. /\ r \in Runs
        /\ record[r] \in Manifest
        /\ vm[r] \in VM
        /\ cmd[c] \in Command
        /\ clock \in Nat
        /\ mishaps \in Suffered
    BY CommandsAssumption DEF TypeOK
  <1>2. CASE StepFails(c)
    BY <1>1, <1>2, MishapType, AfterFailureType, BecomesType DEF StepFails, Fails, TypeOK
  <1>4. CASE WriteUnsynced(c)
    <2>1. Written(cmd[c]) \in Manifest
      BY <1>1, WrittenType
    <2>2. Capabilities(record[r]) \in SUBSET Nat
      BY <1>1 DEF Capabilities, Manifest
    <2>3. record' \in [Runs -> Manifest] /\ revoked' \in SUBSET Nat
      BY <1>1, <1>4, <2>1, <2>2 DEF WriteUnsynced, TypeOK
    <2>4. cmd' \in [Commands -> Command]
      BY <1>1, <1>4, AfterRefusalType, BecomesType DEF WriteUnsynced
    <2> QED
      BY <1>1, <1>4, <2>3, <2>4, MishapType DEF WriteUnsynced, TypeOK
  <1>3. CASE Killed(c)
    BY <1>1, <1>3, MishapType, IdleType, BecomesType DEF Killed, TypeOK
  <1> QED
    BY <1>2, <1>3, <1>4

LEMMA SurroundingsType ==
    ASSUME TypeOK, VmGoesDown \/ Tick \/ \E r \in Runs : AgentWorks(r) \/ ContainerExits(r)
    PROVE  TypeOK'
  <1>1. CASE VmGoesDown
    <2>1. PICK recreated \in BOOLEAN :
            vm' = [r \in Runs |->
                     [vm[r] EXCEPT
                        !.container = IF recreated \/ @ = "none" THEN "none" ELSE "exited",
                        !.storage = IF @ = "none" THEN "none" ELSE "unmounted"]]
      BY <1>1 DEF VmGoesDown
    <2>2. ASSUME NEW v \in VM, NEW container \in Container, NEW storage \in Storage
          PROVE  [v EXCEPT !.container = container, !.storage = storage] \in VM
      BY DEF VM
    <2>3. ASSUME NEW v \in VM
          PROVE  [v EXCEPT
                    !.container = IF recreated \/ @ = "none" THEN "none" ELSE "exited",
                    !.storage = IF @ = "none" THEN "none" ELSE "unmounted"] \in VM
      <3>1. (IF recreated \/ v.container = "none" THEN "none" ELSE "exited") \in Container
        BY DEF Container
      <3>2. (IF v.storage = "none" THEN "none" ELSE "unmounted") \in Storage
        BY DEF Storage
      <3> QED
        BY <2>2, <3>1, <3>2
    <2>4. vm' \in [Runs -> VM]
      BY <2>1, <2>3 DEF TypeOK
    <2>5. mishaps' \in Suffered /\ UNCHANGED <<record, mac, cmd, clock, issued, revoked>>
      BY <1>1, MishapType DEF VmGoesDown
    <2> QED
      BY <2>4, <2>5 DEF TypeOK
  <1>2. CASE Tick
    BY <1>2 DEF Tick, TypeOK, VM, Container
  <1>3. ASSUME NEW r \in Runs, AgentWorks(r)
        PROVE  TypeOK'
    BY <1>3 DEF AgentWorks, TypeOK, VM
  <1>4. ASSUME NEW r \in Runs, ContainerExits(r)
        PROVE  TypeOK'
    BY <1>4 DEF ContainerExits, TypeOK, VM, Container
  <1> QED
    BY <1>1, <1>2, <1>3, <1>4

LEMMA NextType == TypeOK /\ [Next]_vars => TypeOK'
  <1> SUFFICES ASSUME TypeOK, [Next]_vars
               PROVE  TypeOK'
    OBVIOUS
  <1>1. CASE Next
    BY <1>1, BeginsType, ProceedsType, MishapsType, SurroundingsType DEF Next
  <1>2. CASE UNCHANGED vars
    BY <1>2 DEF vars, TypeOK
  <1> QED
    BY <1>1, <1>2

\* Every variable keeps its type: whatever a command reads back from the store or
\* holds in memory when its step fails is a record and a command.
THEOREM TypeCorrect == Spec => []TypeOK
  <1> QED
    BY InitType, NextType, PTL DEF Spec

-----------------------------------------------------------------------------
(***************************************************************************)
(* A running container has its storage under it.  The property is          *)
(* inductive by itself: only three kinds of step touch what it names.      *)
(***************************************************************************)
LEMMA ProceedsKeepsStorage ==
    ASSUME TypeOK, RunningHasStorage, NEW c \in Commands, Proceeds(c)
    PROVE  RunningHasStorage'
  <1> USE DEF RunningHasStorage
  <1>1. RunOf[c] \in Runs /\ \A r \in Runs : vm[r] \in VM
    BY CommandsAssumption DEF TypeOK
  <1>2. vm \in [Runs -> VM]
    BY DEF TypeOK
  <1>3. CASE UNCHANGED vm
    BY <1>3
  <1>4. CASE CreateStage(c) \/ Materialize(c) \/ DropStage(c)
    BY <1>1, <1>2, <1>4 DEF CreateStage, Materialize, DropStage, VM
  <1>5. CASE CreateRunStorage(c) \/ VerifyRunStorage(c) \/ CheckResume(c) \/ CaptureResult(c)
    BY <1>1, <1>2, <1>5
    DEF CreateRunStorage, VerifyRunStorage, CheckResume, CaptureResult, Mounted, VM
  <1>6. CASE RunContainer(c)
    BY <1>1, <1>2, <1>6 DEF RunContainer, VM
  <1>7. CASE StopContainer(c) \/ RemoveContainer(c) \/ ReclaimContainer(c)
    BY <1>1, <1>2, <1>7 DEF StopContainer, RemoveContainer, ReclaimContainer, VM
  <1>8. CASE DropStorage(c)
    BY <1>1, <1>2, <1>8 DEF DropStorage, VM
  <1>9. CASE PrepareSsh(c) \/ Persist(c) \/ ImportResult(c) \/ CommitResult(c)
             \/ RollbackResult(c) \/ CopyBack(c) \/ DeclineApply(c) \/ DropSsh(c)
             \/ DropArchive(c) \/ Forget(c) \/ ReadRecord(c) \/ ReplaceRecord(c)
             \/ StepIsRefused(c)
    <2>1. UNCHANGED vm
      BY <1>9 DEF PrepareSsh, Persist, ImportResult, CommitResult, RollbackResult, CopyBack,
                  DeclineApply, DropSsh, DropArchive, Forget, ReadRecord, ReplaceRecord,
                  StepIsRefused
    <2> QED
      BY <1>3, <2>1
  <1>10. CASE Configure(c)
    <2>1. PICK offered \in BOOLEAN :
            vm' = [vm EXCEPT ![RunOf[c]].told = IF offered THEN issued + 1 ELSE @,
                             ![RunOf[c]].offered = offered]
      BY <1>10 DEF Configure
    <2> QED
      BY <1>1, <1>2, <2>1 DEF VM
  <1> QED
    BY <1>4, <1>5, <1>6, <1>7, <1>8, <1>9, <1>10 DEF Proceeds

LEMMA NextKeepsStorage == TypeOK /\ RunningHasStorage /\ [Next]_vars => RunningHasStorage'
  <1> SUFFICES ASSUME TypeOK, RunningHasStorage, [Next]_vars
               PROVE  RunningHasStorage'
    OBVIOUS
  <1> USE DEF RunningHasStorage
  <1>1. vm \in [Runs -> VM]
    BY DEF TypeOK
  <1>2. CASE UNCHANGED vm
    BY <1>2
  <1>3. ASSUME NEW c \in Commands, Begins(c)
        PROVE  UNCHANGED vm
    BY <1>3 DEF Begins, BeginStart, BeginByStopping, BeginResume, BeginApply, BeginDiscard
  <1>4. ASSUME NEW c \in Commands, StepFails(c) \/ WriteUnsynced(c) \/ Killed(c)
        PROVE  UNCHANGED vm
    BY <1>4 DEF StepFails, WriteUnsynced, Killed
  <1>6. CASE VmGoesDown
    <2>1. PICK recreated \in BOOLEAN :
            vm' = [r \in Runs |->
                     [vm[r] EXCEPT
                        !.container = IF recreated \/ @ = "none" THEN "none" ELSE "exited",
                        !.storage = IF @ = "none" THEN "none" ELSE "unmounted"]]
      BY <1>6 DEF VmGoesDown
    <2>2. \A r \in Runs : vm'[r].container \in {"none", "exited"}
      BY <1>1, <2>1 DEF VM
    <2> QED
      BY <2>2
  <1>7. CASE Tick
    BY <1>1, <1>7 DEF Tick, VM
  <1>8. ASSUME NEW r \in Runs, AgentWorks(r) \/ ContainerExits(r)
        PROVE  RunningHasStorage'
    BY <1>1, <1>8 DEF AgentWorks, ContainerExits, VM
  <1> QED
    BY <1>2, <1>3, <1>4, <1>6, <1>7, <1>8, ProceedsKeepsStorage DEF Next, vars

\* No interleaving of commands takes the filesystem from under a running
\* container, or starts one on a filesystem that is not mounted.
THEOREM StorageUnderContainer == Spec => []RunningHasStorage
  <1>1. Init => RunningHasStorage
    BY DEF Init, RunningHasStorage
  <1> QED
    BY <1>1, TypeCorrect, NextKeepsStorage, PTL DEF Spec

-----------------------------------------------------------------------------
(***************************************************************************)
(* A record becomes unreadable in one way only.  The property is about     *)
(* records, and a record is written from what a command holds in memory,   *)
(* so the invariant is about that: a command about to write read a record  *)
(* the store accepted, and the operation was allowed on it.                *)
(***************************************************************************)
Removals == {"reclaim", "dropStorage", "dropStage", "dropSsh"}

Sound(s) ==
    /\ s.pc \in Removals => s.phase \in {"create", "release"}
    /\ s.pc = "dropArchive" /\ s.phase # "release" =>
         s.write = "ClearReturned" /\ Readable(s.seen)
    /\ s.pc = "put" =>
         /\ Readable(s.seen)
         /\ s.write \in {"Activate", "Stop", "Resume", "BeginApply", "CompleteApply"} =>
              \E now \in Nat : Allowed(s.write, s.seen, now)
    /\ s.pc \in {"get", "put"} /\ s.write \in {"Activate", "Resume"} => s.capability # Nil

CommandsSound ==
    /\ clock # Nil
    /\ \A c \in Commands : Sound(cmd[c])

LEMMA OrdinaryStepSound ==
    ASSUME NEW s,
           s.pc \notin Removals \cup {"dropArchive", "put", "get"}
    PROVE  Sound(s)
  BY DEF Sound, Removals

LEMMA WritingSound ==
    ASSUME NEW s \in Command, NEW operation \in Operation,
           operation \in {"Activate", "Resume"} => s.capability # Nil
    PROVE  Sound(Writing(s, operation))
  BY DEF Sound, Writing, Command, Removals

LEMMA FailingSound == ASSUME NEW s \in Command PROVE Sound(Failing(s))
  BY WritingSound DEF Failing, Operation

LEMMA IdleSound == Sound(Idle)
  BY OrdinaryStepSound DEF Idle, Removals

LEMMA GotoSound ==
    ASSUME NEW s \in Command, NEW pc \in Step \ (Removals \cup {"dropArchive", "put", "get"})
    PROVE  Sound(Goto(s, pc))
  BY OrdinaryStepSound DEF Goto, Command

LEMMA EnteringSound ==
    ASSUME NEW s \in Command, NEW phase \in Phase,
           NEW pc \in Step \ {"dropArchive", "put", "get"},
           pc \in Removals => phase \in {"create", "release"}
    PROVE  Sound(Entering(s, phase, pc))
  BY DEF Entering, Command, Sound, Removals

LEMMA ReleasingSound == ASSUME NEW s \in Command PROVE Sound(Releasing(s))
  BY DEF Releasing, Entering, Command, Sound, Removals

LEMMA ResumingSound ==
    ASSUME NEW s \in Command, NEW m \in Manifest PROVE Sound(Resuming(s, m))
  BY OrdinaryStepSound DEF Resuming, Entering, Command, Removals

LEMMA ApplyingSound ==
    ASSUME NEW s \in Command, NEW m \in Manifest PROVE Sound(Applying(s, m))
  BY OrdinaryStepSound DEF Applying, Entering, Command, Removals

LEMMA AfterStopSound ==
    ASSUME NEW s \in Command, NEW m \in Manifest PROVE Sound(AfterStop(s, m))
  BY IdleSound, ReleasingSound, ApplyingSound, ResumingSound DEF AfterStop

LEMMA AfterRemovalSound == ASSUME NEW s \in Command PROVE Sound(AfterRemoval(s))
  BY GotoSound, FailingSound DEF AfterRemoval, Step, Removals

LEMMA AfterRefusalSound == ASSUME NEW s \in Command PROVE Sound(AfterRefusal(s))
  BY EnteringSound, GotoSound, IdleSound, FailingSound DEF AfterRefusal, Phase, Step, Removals

LEMMA AfterWriteSound ==
    ASSUME NEW s \in Command, NEW m \in Manifest
    PROVE  Sound(AfterWrite(s, m))
  <1>1. [s EXCEPT !.seen = m] \in Command
    BY DEF Command
  <1> QED
    BY <1>1, EnteringSound, GotoSound, AfterStopSound, IdleSound
    DEF AfterWrite, Phase, Step, Removals

LEMMA AfterDropSound ==
    ASSUME NEW s \in Command, Sound(s), s.pc \in {"dropStorage", "dropStage", "dropSsh"}
    PROVE  Sound(AfterDrop(s))
  <1>1. s.phase \in {"create", "release"}
    BY DEF Sound, Removals
  <1>2. ASSUME NEW pc \in {"dropStage", "dropSsh"}
        PROVE  Sound(Goto(s, pc))
    BY <1>1 DEF Sound, Goto, Command, Removals
  <1>3. ASSUME s.phase = "release"
        PROVE  Sound(Goto(s, "dropArchive"))
    BY <1>3 DEF Sound, Goto, Command, Removals
  <1> QED
    BY <1>1, <1>2, <1>3, FailingSound DEF AfterDrop, AfterReclaim

LEMMA AfterFailureSound ==
    ASSUME NEW s \in Command, Sound(s)
    PROVE  Sound(AfterFailure(s))
  <1>1. ASSUME s.pc \in {"dropStorage", "dropStage", "dropSsh"}
        PROVE  Sound(AfterDrop([s EXCEPT !.failed = TRUE]))
    <2>1. [s EXCEPT !.failed = TRUE] \in Command
      BY DEF Command
    <2>2. Sound([s EXCEPT !.failed = TRUE])
      BY DEF Command, Sound
    <2> QED
      BY <1>1, <2>1, <2>2, AfterDropSound DEF Command
  <1>2. [s EXCEPT !.phase = "persist"] \in Command
    BY DEF Command, Phase
  <1>3. ASSUME s.phase = "create"
        PROVE  Sound(Goto(s, "reclaim"))
    BY <1>3 DEF Sound, Goto, Command, Removals
  <1> QED
    BY <1>1, <1>2, <1>3, AfterRefusalSound, EnteringSound, FailingSound
    DEF AfterFailure, Phase, Step, Removals

\* What a sound command writes is readable, or is the record of a resumed plan.
LEMMA WrittenSound ==
    ASSUME NEW s \in Command, Sound(s), s.pc = "put", clock # Nil
    PROVE  LET m == Written(s) IN
           m.state # "none" /\ ~Readable(m) => m.state = "active" /\ m.apply # Nil
  <1> DEFINE m == s.seen
  <1>1. m \in Manifest /\ Readable(m)
    BY DEF Command, Sound
  <1>2. CASE s.write = "Activate"
    <2>1. m.state = "creating" /\ s.capability # Nil
      BY <1>2 DEF Sound, Allowed
    <2> QED
      BY <1>1, <1>2, <2>1 DEF Written, Activated, Readable, Manifest, State
  <1>3. CASE s.write = "Stop"
    <2>1. m.state = "active"
      BY <1>3 DEF Sound, Allowed
    <2> QED
      BY <1>1, <1>3, <2>1 DEF Written, Stopped, Readable, Manifest, State
  <1>4. CASE s.write = "Resume"
    <2>1. m.state = "stopped" /\ s.capability # Nil
      BY <1>4 DEF Sound, Allowed
    <2> QED
      BY <1>1, <1>4, <2>1 DEF Written, Resumed, Readable, Manifest, State
  <1>5. CASE s.write = "BeginApply"
    <2>1. m.state = "stopped"
      BY <1>5 DEF Sound, Allowed
    <2> QED
      BY <1>1, <1>5, <2>1 DEF Written, ApplyBegun, Readable, Manifest, State
  <1>6. CASE s.write = "CompleteApply"
    <2>1. m.state = "stopped"
      BY <1>6 DEF Sound, Allowed
    <2> QED
      BY <1>1, <1>6, <2>1 DEF Written, ApplyCompleted, Readable, Manifest, State
  <1>7. CASE s.write \notin {"Activate", "Stop", "Resume", "BeginApply", "CompleteApply"}
    BY <1>1, <1>7 DEF Written, ReturnedCleared, Readable, Manifest, State
  <1> QED
    BY <1>2, <1>3, <1>4, <1>5, <1>6, <1>7

LEMMA BecomesSound ==
    ASSUME TypeOK, CommandsSound, NEW c \in Commands, NEW s, Sound(s), Becomes(c, s),
           UNCHANGED clock
    PROVE  CommandsSound'
  <1>1. clock' # Nil
    BY DEF CommandsSound
  <1>2. cmd' = [cmd EXCEPT ![c] = s] /\ cmd \in [Commands -> Command]
    BY DEF Becomes, TypeOK
  <1>3. ASSUME NEW d \in Commands
        PROVE  Sound(cmd'[d])
    <2>1. cmd'[d] = s \/ cmd'[d] = cmd[d]
      BY <1>2
    <2> QED
      BY <2>1 DEF CommandsSound
  <1> QED
    BY <1>1, <1>3 DEF CommandsSound

LEMMA EndsSound ==
    ASSUME TypeOK, CommandsSound, NEW c \in Commands, NEW s, Sound(s), Ends(c, s),
           UNCHANGED clock
    PROVE  CommandsSound'
  <1>1. Sound(AfterFailure(cmd[c]))
    BY AfterFailureSound DEF TypeOK, CommandsSound
  <1> QED
    BY <1>1, BecomesSound DEF Ends, Fails

LEMMA BeginsSound ==
    ASSUME TypeOK, CommandsSound, NEW c \in Commands, Begins(c)
    PROVE  CommandsSound'
  <1>1. RunOf[c] \in Runs /\ record[RunOf[c]] \in Manifest
    BY CommandsAssumption DEF TypeOK
  <1>2. \A op \in Op : [Idle EXCEPT !.op = op] \in Command
    BY IdleType DEF Command
  <1>3. CASE BeginStart(c)
    <2>1. Sound([Idle EXCEPT !.op = "start", !.phase = "create", !.pc = "ssh",
                             !.left = Lifetime])
      BY OrdinaryStepSound DEF Idle, Removals
    <2> QED
      BY <1>3, <2>1, BecomesSound DEF BeginStart
  <1>4. ASSUME NEW op \in {"stop", "resume", "apply", "discard"}, BeginByStopping(c, op)
        PROVE  CommandsSound'
    <2>1. Sound([Idle EXCEPT !.op = op, !.phase = "stop", !.pc = "down"])
      BY OrdinaryStepSound DEF Idle, Removals
    <2> QED
      BY <1>4, <2>1, BecomesSound DEF BeginByStopping
  <1>5. CASE BeginResume(c)
    BY <1>1, <1>2, <1>5, ResumingSound, BecomesSound DEF BeginResume, Op
  <1>6. CASE BeginApply(c)
    <2>1. [Idle EXCEPT !.op = "apply"] \in Command
      BY <1>2 DEF Op
    <2>2. Sound([Entering([Idle EXCEPT !.op = "apply"], "apply", "copyBack")
                   EXCEPT !.seen = record[RunOf[c]]])
      BY OrdinaryStepSound DEF Entering, Idle, Removals
    <2>3. Sound(Applying([Idle EXCEPT !.op = "apply"], record[RunOf[c]]))
      BY <1>1, <2>1, ApplyingSound
    <2> QED
      BY <1>6, <2>2, <2>3, BecomesSound DEF BeginApply
  <1>7. CASE BeginDiscard(c)
    BY <1>2, <1>7, ReleasingSound, BecomesSound DEF BeginDiscard, Op
  <1> QED
    BY <1>3, <1>4, <1>5, <1>6, <1>7 DEF Begins

LEMMA ProceedsSound ==
    ASSUME TypeOK, CommandsSound, NEW c \in Commands, Proceeds(c)
    PROVE  CommandsSound'
  <1> DEFINE r == RunOf[c]
  <1>1. /\ r \in Runs
        /\ record[r] \in Manifest
        /\ vm[r] \in VM
        /\ cmd[c] \in Command
        /\ clock \in Nat
        /\ issued \in Nat
    BY CommandsAssumption DEF TypeOK
  <1>2. Sound(cmd[c])
    BY DEF CommandsSound
  <1>3. \A pc \in Step \ (Removals \cup {"dropArchive", "put", "get"}) : Sound(Goto(cmd[c], pc))
    BY <1>1, GotoSound
  <1>4. CASE PrepareSsh(c) \/ CreateStage(c) \/ CreateRunStorage(c) \/ RunContainer(c)
             \/ Materialize(c) \/ CheckResume(c)
    <2>1. PICK pc \in {"stage", "storage", "run", "materialize", "configure", "down"} :
            Becomes(c, Goto(cmd[c], pc)) \/ Ends(c, Goto(cmd[c], pc))
      BY <1>4 DEF PrepareSsh, CreateStage, CreateRunStorage, RunContainer, Materialize,
                  CheckResume
    <2>2. Sound(Goto(cmd[c], pc))
      BY <1>3 DEF Step, Removals
    <2>3. UNCHANGED clock
      BY <1>4 DEF PrepareSsh, CreateStage, CreateRunStorage, RunContainer, Materialize,
                  CheckResume
    <2> QED
      BY <2>1, <2>2, <2>3, BecomesSound, EndsSound
  <1>5. CASE Configure(c)
    <2> DEFINE s == [cmd[c] EXCEPT !.capability = issued + 1]
    <2>1. s \in Command /\ s.capability # Nil
      BY <1>1 DEF Command, Nil
    <2>2. Sound(Writing(s, "Activate")) /\ Sound(Writing(s, "Resume"))
      BY <2>1, WritingSound DEF Operation
    <2>3. Ends(c, Writing(s, "Activate")) \/ Ends(c, Writing(s, "Resume"))
      BY <1>5 DEF Configure
    <2>4. UNCHANGED clock
      BY <1>5 DEF Configure
    <2> HIDE DEF s
    <2> QED
      BY <2>2, <2>3, <2>4, EndsSound
  <1>6. CASE StopContainer(c)
    <2>1. Sound(Goto(cmd[c], "remove")) /\ Sound(AfterRemoval(cmd[c]))
      BY <1>1, <1>3, AfterRemovalSound DEF Step, Removals
    <2> QED
      BY <1>6, <2>1, BecomesSound, EndsSound DEF StopContainer
  <1>7. CASE RemoveContainer(c)
    BY <1>1, <1>7, AfterRemovalSound, EndsSound DEF RemoveContainer
  <1>8. \A operation \in Operation \ {"Activate", "Resume"} : Sound(Writing(cmd[c], operation))
    BY <1>1, WritingSound
  <1>9. CASE VerifyRunStorage(c)
    BY <1>8, <1>9, EndsSound DEF VerifyRunStorage, Operation
  <1>10. CASE Persist(c)
    BY <1>1, <1>10, AfterStopSound, BecomesSound DEF Persist, Command
  <1>11. CASE CaptureResult(c)
    <2>1. ASSUME NEW outputs \in BOOLEAN
          PROVE  Sound([Goto(cmd[c], "import") EXCEPT !.tip = vm[r].work, !.outputs = outputs])
      BY <1>1, OrdinaryStepSound DEF Goto, Command, Removals
    <2> QED
      BY <1>11, <2>1, BecomesSound DEF CaptureResult
  <1>12. CASE ImportResult(c)
    <2>1. Sound(Goto(cmd[c], "rollback"))
      BY <1>3 DEF Step, Removals
    <2> QED
      BY <1>8, <1>12, <2>1, BecomesSound DEF ImportResult, Operation
  <1>13. CASE CommitResult(c)
    BY <1>8, <1>13, EndsSound DEF CommitResult, Operation
  <1>14. CASE RollbackResult(c)
    BY <1>1, <1>14, FailingSound, BecomesSound DEF RollbackResult
  <1>15. CASE CopyBack(c)
    BY <1>8, <1>15, BecomesSound DEF CopyBack, Operation
  <1>16. CASE DeclineApply(c)
    BY <1>16, IdleSound, BecomesSound DEF DeclineApply
  <1>17. CASE ReclaimContainer(c)
    <2>1. Sound(Goto(cmd[c], "dropStorage"))
      BY <1>1, <1>2, <1>17 DEF ReclaimContainer, At, Sound, Goto, Command, Removals
    <2> QED
      BY <1>17, <2>1, EndsSound DEF ReclaimContainer
  <1>18. CASE DropStorage(c) \/ DropStage(c) \/ DropSsh(c)
    <2>1. Sound(AfterDrop(cmd[c]))
      BY <1>1, <1>2, <1>18, AfterDropSound DEF DropStorage, DropStage, DropSsh, At
    <2> QED
      BY <1>18, <2>1, EndsSound DEF DropStorage, DropStage, DropSsh
  <1>19. CASE DropArchive(c)
    <2>1. Sound(Goto(cmd[c], "forget"))
      BY <1>3 DEF Step, Removals
    <2>2. ASSUME cmd[c].phase # "release"
          PROVE  Sound(Goto(cmd[c], "put"))
      BY <1>1, <1>2, <1>19, <2>2 DEF DropArchive, At, Sound, Goto, Command, Removals
    <2> QED
      BY <1>19, <2>1, <2>2, EndsSound DEF DropArchive
  <1>20. CASE Forget(c)
    BY <1>20, IdleSound, EndsSound DEF Forget
  <1>21. CASE ReadRecord(c)
    <2> DEFINE s == [cmd[c] EXCEPT !.seen = record[r],
                                   !.pc = IF cmd[c].write = "ClearReturned"
                                          THEN "dropArchive" ELSE "put"]
    <2>1. ASSUME Readable(record[r]), Allowed(cmd[c].write, record[r], clock)
          PROVE  Sound(s)
      BY <1>1, <1>2, <1>21, <2>1 DEF ReadRecord, At, Sound, Command, Removals
    <2>2. Sound(AfterRefusal(cmd[c]))
      BY <1>1, AfterRefusalSound
    <2> QED
      BY <1>21, <2>1, <2>2, BecomesSound DEF ReadRecord
  <1>22. CASE ReplaceRecord(c)
    <2>1. Sound(AfterWrite(cmd[c], Written(cmd[c])))
      BY <1>1, WrittenType, AfterWriteSound
    <2> QED
      BY <1>22, <2>1, BecomesSound DEF ReplaceRecord
  <1>23. CASE StepIsRefused(c)
    BY <1>1, <1>2, <1>23, AfterFailureSound, BecomesSound DEF StepIsRefused
  <1> QED
    BY <1>4, <1>5, <1>6, <1>7, <1>9, <1>10, <1>11, <1>12, <1>13, <1>14, <1>15, <1>16,
       <1>17, <1>18, <1>19, <1>20, <1>21, <1>22, <1>23, Proceeds(c) DEF Proceeds

LEMMA NextSound == TypeOK /\ CommandsSound /\ [Next]_vars => CommandsSound'
  <1> SUFFICES ASSUME TypeOK, CommandsSound, [Next]_vars
               PROVE  CommandsSound'
    OBVIOUS
  <1>1. ASSUME NEW c \in Commands, StepFails(c)
        PROVE  CommandsSound'
    <2>1. Sound(AfterFailure(cmd[c]))
      BY AfterFailureSound DEF TypeOK, CommandsSound
    <2> QED
      BY <1>1, <2>1, BecomesSound DEF StepFails, Fails
  <1>2. ASSUME NEW c \in Commands, WriteUnsynced(c)
        PROVE  CommandsSound'
    <2>1. cmd[c] \in Command
      BY DEF TypeOK
    <2> QED
      BY <1>2, <2>1, AfterRefusalSound, BecomesSound DEF WriteUnsynced
  <1>3. ASSUME NEW c \in Commands, Killed(c)
        PROVE  CommandsSound'
    BY <1>3, IdleSound, BecomesSound DEF Killed
  <1>4. CASE VmGoesDown \/ Tick \/ \E r \in Runs : AgentWorks(r) \/ ContainerExits(r)
    <2>1. UNCHANGED cmd
      BY <1>4 DEF VmGoesDown, Tick, AgentWorks, ContainerExits
    <2>2. clock' = clock \/ clock' = clock + 1
      BY <1>4 DEF VmGoesDown, Tick, AgentWorks, ContainerExits
    <2>3. clock' # Nil
      BY <2>2 DEF CommandsSound, TypeOK, Nil
    <2> QED
      BY <2>1, <2>3 DEF CommandsSound
  <1>5. CASE UNCHANGED vars
    BY <1>5 DEF vars, CommandsSound
  <1> QED
    BY <1>1, <1>2, <1>3, <1>4, <1>5, BeginsSound, ProceedsSound DEF Next

LEMMA NextKeepsRecords ==
    TypeOK /\ CommandsSound /\ OnlyResumedPlanIsUnreadable /\ [Next]_vars
      => OnlyResumedPlanIsUnreadable'
  <1> SUFFICES ASSUME TypeOK, CommandsSound, OnlyResumedPlanIsUnreadable, [Next]_vars
               PROVE  OnlyResumedPlanIsUnreadable'
    OBVIOUS
  <1> USE DEF OnlyResumedPlanIsUnreadable
  <1>1. record \in [Runs -> Manifest]
    BY DEF TypeOK
  <1>2. CASE UNCHANGED record
    BY <1>2
  <1>3. ASSUME NEW c \in Commands, BeginStart(c)
        PROVE  OnlyResumedPlanIsUnreadable'
    <2>1. Readable(Created(clock))
      BY DEF CommandsSound, Readable, Created, NoRun, State
    <2> QED
      BY <1>1, <1>3, <2>1 DEF BeginStart
  <1>4. ASSUME NEW c \in Commands, Forget(c)
        PROVE  OnlyResumedPlanIsUnreadable'
    BY <1>1, <1>4 DEF Forget, NoRun
  <1>5. ASSUME NEW c \in Commands, ReplaceRecord(c) \/ WriteUnsynced(c)
        PROVE  OnlyResumedPlanIsUnreadable'
    <2>1. LET m == Written(cmd[c]) IN
          m.state # "none" /\ ~Readable(m) => m.state = "active" /\ m.apply # Nil
      BY <1>5, WrittenSound DEF ReplaceRecord, WriteUnsynced, At, CommandsSound, TypeOK
    <2>2. record' = [record EXCEPT ![RunOf[c]] = Written(cmd[c])]
      BY <1>5 DEF ReplaceRecord, WriteUnsynced
    <2> QED
      BY <1>1, <2>1, <2>2
  <1>6. ASSUME NEW c \in Commands,
               Begins(c) \/ Proceeds(c) \/ StepFails(c) \/ Killed(c),
               ~BeginStart(c), ~Forget(c), ~ReplaceRecord(c)
        PROVE  UNCHANGED record
    BY <1>6 DEF Begins, BeginByStopping, BeginResume, BeginApply, BeginDiscard,
                Proceeds, PrepareSsh, CreateStage, CreateRunStorage, RunContainer, Materialize,
                Configure, StopContainer, RemoveContainer, VerifyRunStorage, Persist,
                CheckResume, CaptureResult, ImportResult, CommitResult, RollbackResult,
                CopyBack, DeclineApply, ReclaimContainer, DropStorage, DropStage, DropSsh,
                DropArchive, ReadRecord, StepIsRefused, StepFails, Killed
  <1>7. CASE VmGoesDown \/ Tick \/ \E r \in Runs : AgentWorks(r) \/ ContainerExits(r)
    BY <1>2, <1>7 DEF VmGoesDown, Tick, AgentWorks, ContainerExits
  <1>8. CASE UNCHANGED vars
    BY <1>2, <1>8 DEF vars
  <1> QED
    BY <1>2, <1>3, <1>4, <1>5, <1>6, <1>7, <1>8 DEF Next

\* However commands interleave, overwrite one another's records and fail, the
\* only record the store cannot read back is that of a run resumed with an apply
\* still recorded.
THEOREM UnreadableOnlyByResumedPlan == Spec => []OnlyResumedPlanIsUnreadable
  <1>1. Init => CommandsSound /\ OnlyResumedPlanIsUnreadable
    BY IdleSound DEF Init, CommandsSound, OnlyResumedPlanIsUnreadable, NoRun, Nil
  <1> QED
    BY <1>1, TypeCorrect, NextSound, NextKeepsRecords, PTL DEF Spec

-----------------------------------------------------------------------------
(***************************************************************************)
(* One command at a time.  When every command has a run of its own, what a *)
(* command read and did is still true at its next step, and the stages it  *)
(* goes through say what its run's record and objects are.                 *)
(***************************************************************************)
Alone == \A c, d \in Commands : RunOf[c] = RunOf[d] => c = d

Doing(s, operation) == s.pc \in {"get", "put"} /\ s.write = operation

\* The stages of a command, by the phase and the step it is at.
Creating(s) ==
    /\ s.phase = "create"
    /\ \/ s.pc \in {"ssh", "stage", "storage", "run", "materialize", "configure"}
       \/ Doing(s, "Activate")

Stopping(s) ==
    /\ s.phase = "stop"
    /\ s.pc \in {"down", "remove", "verify"} \/ Doing(s, "Stop")

Persisting(s) ==
    \/ s.phase = "stop" /\ s.pc = "persist"
    \/ s.phase = "persist" /\ Doing(s, "RecordError")

Restarting(s) ==
    /\ s.phase = "resume"
    /\ s.pc \in {"check", "down", "remove", "run", "configure"} \/ Doing(s, "Resume")

TakingBack(s) == s.phase = "cleanup" /\ s.pc \in {"down", "remove"}

Capturing(s) ==
    /\ s.phase = "apply"
    /\ s.pc \in {"capture", "import"} \/ Doing(s, "BeginApply")

Landing(s) ==
    /\ s.phase = "apply"
    /\ s.pc \in {"commit", "rollback"} \/ Doing(s, "CompleteApply")

Returning(s) ==
    /\ s.phase = "apply"
    /\ \/ s.pc = "copyBack"
       \/ s.pc = "dropArchive" /\ s.write = "ClearReturned"
       \/ Doing(s, "ClearReturned")

Reclaiming(s) == s.phase \in {"create", "release"} /\ s.pc \in Removals

Leaving(s) == s.phase = "release" /\ s.pc \in {"dropArchive", "forget"}

Staged(s) ==
    \/ s.pc = "idle" \/ Creating(s) \/ Stopping(s) \/ Persisting(s) \/ Restarting(s)
    \/ TakingBack(s) \/ Capturing(s) \/ Landing(s) \/ Returning(s) \/ Reclaiming(s)
    \/ Leaving(s) \/ Doing(s, "RecordError")

\* A container was started, or may have been, and no record says so yet.
Launching(s) ==
    \/ s.phase = "create" /\ (s.pc \in {"materialize", "configure", "reclaim"} \/ Doing(s, "Activate"))
    \/ s.phase = "resume" /\ (s.pc = "configure" \/ Doing(s, "Resume"))
    \/ TakingBack(s)

Pending(s) == Doing(s, "Activate") \/ Doing(s, "Resume")

\* What is true of the record, of the objects in the VM and of those on the Mac
\* at a command's stage.  calm says that no process died and no cleanup failed.
Recorded(s, m) ==
    /\ s.pc # "idle" /\ ~(s.pc = "get" /\ s.write = "RecordError") => m.state # "none"
    /\ s.pc = "put" \/ (s.pc = "dropArchive" /\ s.phase = "apply") => s.seen = m
    /\ Creating(s) => m.state = "creating"
    /\ Stopping(s) => m.state = "active"
    /\ Persisting(s) => m.state = "stopped" /\ m.apply = Nil
    /\ s.pc = "persist" => s.seen = m
    /\ Restarting(s) \/ Capturing(s) => m.state = "stopped"

Held(s, v, a, calm) ==
    /\ Stopping(s) /\ s.pc \notin {"down", "remove"} => v.container = "none"
    /\ Persisting(s) => v.container = "none"
    /\ Pending(s) /\ v.offered => v.told = s.capability
    /\ Capturing(s) /\ calm =>
         /\ v.container # "running"
         /\ s.pc # "capture" => s.tip = v.work
    /\ Doing(s, "BeginApply") /\ s.outputs => a.archive
    /\ s.phase = "apply" /\ s.pc = "commit" /\ ~v.reopened /\ calm =>
         v.container # "running" /\ s.tip = v.work
    /\ Returning(s) /\ s.pc # "copyBack" => a.copied
    /\ Reclaiming(s) /\ s.pc # "reclaim" => v.container = "none"
    /\ s.phase = "release" /\ ~s.failed =>
         /\ s.pc \in {"dropStage", "dropSsh"} => v.storage = "none"
         /\ s.pc = "dropSsh" => ~v.stage
    /\ Leaving(s) => v.container = "none" /\ v.storage = "none" /\ ~v.stage /\ ~a.ssh
    /\ s.pc = "forget" => ~a.archive

\* What is true of a run whatever is at work on it.
Kept(m, v, a) ==
    /\ m.state = "none" =>
         /\ m = NoRun
         /\ v.container = "none" /\ v.storage = "none" /\ ~v.stage
         /\ ~a.ssh /\ ~a.archive
    /\ m.state = "creating" => m.apply = Nil /\ ~m.returned
    /\ m.state # "active" => m.capability = Nil
    /\ m.state = "active" /\ v.container = "running" /\ v.offered => v.told = m.capability
    /\ m.returned /\ v.storage # "none" => a.archive \/ a.copied

\* Its container runs and its record does not say so.
Unclaimed(m, v, calm) == calm /\ v.container = "running" /\ m.state # "active"

Launched(r) ==
    Unclaimed(record[r], vm[r], mishaps.orderly)
      => \E c \in Commands : RunOf[c] = r /\ Launching(cmd[c])

\* A capability about to be written is the only one of its number.
Unused(c) ==
    Pending(cmd[c]) =>
      /\ cmd[c].capability \in 1 .. issued
      /\ cmd[c].capability \notin revoked
      /\ \A r \in Runs : record[r].capability # cmd[c].capability
      /\ \A d \in Commands :
           d # c /\ Pending(cmd[d]) => cmd[d].capability # cmd[c].capability

CapabilitiesFresh ==
    /\ \A r \in Runs : record[r].capability <= issued
    /\ \A k \in revoked : k <= issued
    /\ \A c \in Commands : Unused(c)

OneAtATime ==
    /\ \A c \in Commands :
         /\ Staged(cmd[c])
         /\ Recorded(cmd[c], record[RunOf[c]])
         /\ Held(cmd[c], vm[RunOf[c]], mac[RunOf[c]], mishaps.orderly)
    /\ \A r \in Runs : Kept(record[r], vm[r], mac[r]) /\ Launched(r)

\* A recorded plan is all of its run's work, unless the run was reopened over it.
PlansAreCurrent ==
    \A r \in Runs :
        (mishaps.orderly /\ record[r].apply # Nil /\ ~vm[r].reopened)
        => vm[r].container # "running" /\ record[r].apply = vm[r].work

-----------------------------------------------------------------------------
(***************************************************************************)
(* What the helpers of a command make of its fields.                       *)
(***************************************************************************)
LEMMA GotoIs ==
    ASSUME NEW s \in Command, NEW pc \in Step \cup {"idle"}
    PROVE  LET t == Goto(s, pc) IN
           /\ t \in Command
           /\ t.op = s.op /\ t.phase = s.phase /\ t.pc = pc /\ t.write = s.write
           /\ t.seen = s.seen /\ t.capability = s.capability /\ t.left = s.left
           /\ t.tip = s.tip /\ t.outputs = s.outputs /\ t.failed = s.failed
  BY DEF Goto, Command

LEMMA EnteringIs ==
    ASSUME NEW s \in Command, NEW phase \in Phase, NEW pc \in Step
    PROVE  LET t == Entering(s, phase, pc) IN
           /\ t \in Command
           /\ t.op = s.op /\ t.phase = phase /\ t.pc = pc /\ t.write = s.write
           /\ t.seen = s.seen /\ t.capability = s.capability /\ t.left = s.left
           /\ t.tip = s.tip /\ t.outputs = s.outputs /\ t.failed = s.failed
  BY DEF Entering, Command

LEMMA WritingIs ==
    ASSUME NEW s \in Command, NEW operation \in Operation
    PROVE  LET t == Writing(s, operation) IN
           /\ t \in Command
           /\ t.op = s.op /\ t.phase = s.phase /\ t.pc = "get" /\ t.write = operation
           /\ t.seen = s.seen /\ t.capability = s.capability /\ t.left = s.left
           /\ t.tip = s.tip /\ t.outputs = s.outputs /\ t.failed = s.failed
  BY DEF Writing, Command, Step

LEMMA FailingIs ==
    ASSUME NEW s \in Command
    PROVE  LET t == Failing(s) IN
           /\ t \in Command
           /\ t.phase = s.phase /\ t.pc = "get" /\ t.write = "RecordError"
  BY WritingIs DEF Failing, Operation

LEMMA IdleIs ==
    /\ Idle \in Command
    /\ Idle.phase = "none" /\ Idle.pc = "idle" /\ Idle.write = "none"
  BY IdleType DEF Idle

-----------------------------------------------------------------------------
(***************************************************************************)
(* The stages that say nothing of the run: an idle command, one about to   *)
(* record an error, and one that takes back what it made.                  *)
(***************************************************************************)
LEMMA IdleStage ==
    ASSUME NEW m, NEW v, NEW a, NEW calm
    PROVE  Staged(Idle) /\ Recorded(Idle, m) /\ Held(Idle, v, a, calm)
  BY IdleIs
  DEF Staged, Recorded, Held, Creating, Stopping, Persisting, Restarting, Capturing, Landing,
      Returning, Reclaiming, Leaving, Doing, Pending, Removals

LEMMA FailingStage ==
    ASSUME NEW s \in Command, s.phase # "persist", NEW m, NEW v, NEW a, NEW calm
    PROVE  LET t == Failing(s) IN
           Staged(t) /\ Recorded(t, m) /\ Held(t, v, a, calm)
  BY FailingIs
  DEF Staged, Recorded, Held, Creating, Stopping, Persisting, Restarting, Capturing, Landing,
      Returning, Reclaiming, Leaving, Doing, Pending, Removals

LEMMA PersistFailingStage ==
    ASSUME NEW s \in Command, s.phase = "persist",
           NEW m, m.state = "stopped" /\ m.apply = Nil,
           NEW v, v.container = "none", NEW a, NEW calm
    PROVE  LET t == Failing(s) IN
           Staged(t) /\ Recorded(t, m) /\ Held(t, v, a, calm)
  BY FailingIs
  DEF Staged, Recorded, Held, Creating, Stopping, Persisting, Restarting, Capturing, Landing,
      Returning, Reclaiming, Leaving, Doing, Pending, Removals

\* reclaim removes the container by force and needs to know nothing of it.
LEMMA ReclaimStage ==
    ASSUME NEW s \in Command, s.pc = "reclaim", s.phase \in {"create", "release"},
           NEW m, m.state # "none", NEW v, NEW a, NEW calm
    PROVE  Staged(s) /\ Recorded(s, m) /\ Held(s, v, a, calm)
  BY DEF Staged, Recorded, Held, Creating, Stopping, Persisting, Restarting, Capturing,
         Landing, Returning, Reclaiming, Leaving, Doing, Pending, Removals

LEMMA TakingBackStage ==
    ASSUME NEW s \in Command, TakingBack(s),
           NEW m, m.state # "none", NEW v, NEW a, NEW calm
    PROVE  Staged(s) /\ Recorded(s, m) /\ Held(s, v, a, calm)
  BY DEF Staged, Recorded, Held, TakingBack, Creating, Stopping, Persisting, Restarting,
         Capturing, Landing, Returning, Reclaiming, Leaving, Doing, Pending, Removals

LEMMA RollbackStage ==
    ASSUME NEW s \in Command, s.pc = "rollback", s.phase = "apply",
           NEW m, m.state # "none", NEW v, NEW a, NEW calm
    PROVE  Staged(s) /\ Recorded(s, m) /\ Held(s, v, a, calm)
  BY DEF Staged, Recorded, Held, Creating, Stopping, Persisting, Restarting, Capturing,
         Landing, Returning, Reclaiming, Leaving, Doing, Pending, Removals

-----------------------------------------------------------------------------
(***************************************************************************)
(* A refusal or a failure leads to a stage that fits the run as it is.     *)
(***************************************************************************)
LEMMA AfterRefusalStage ==
    ASSUME NEW s \in Command, Staged(s),
           s.pc \in {"get", "put"},
           NEW m, s.write # "RecordError" => m.state # "none", NEW v, NEW a, NEW calm
    PROVE  LET t == AfterRefusal(s) IN
           Staged(t) /\ Recorded(t, m) /\ Held(t, v, a, calm)
  <1>1. CASE s.write = "Activate"
    <2> DEFINE t == Entering(s, "create", "reclaim")
    <2>1. t \in Command /\ t.pc = "reclaim" /\ t.phase = "create"
      BY EnteringIs, NamesOfSteps
    <2> HIDE DEF t
    <2>2. Staged(t) /\ Recorded(t, m) /\ Held(t, v, a, calm)
      BY <1>1, <2>1, ReclaimStage
    <2> QED
      BY <1>1, <2>2 DEF AfterRefusal, t
  <1>2. CASE s.write = "Resume"
    <2> DEFINE t == Entering(s, "cleanup", "down")
    <2>1. t \in Command /\ t.pc = "down" /\ t.phase = "cleanup"
      BY EnteringIs, NamesOfSteps
    <2> HIDE DEF t
    <2>2. Staged(t) /\ Recorded(t, m) /\ Held(t, v, a, calm)
      BY <1>2, <2>1, TakingBackStage DEF TakingBack
    <2> QED
      BY <1>2, <2>2 DEF AfterRefusal, t
  <1>3. CASE s.write = "BeginApply"
    <2> DEFINE t == Goto(s, "rollback")
    <2>1. s.phase = "apply"
      BY <1>3 DEF Staged, Creating, Stopping, Persisting, Restarting, TakingBack, Capturing,
                  Landing, Returning, Reclaiming, Leaving, Doing, Removals
    <2>2. t \in Command /\ t.pc = "rollback" /\ t.phase = "apply"
      BY <2>1, GotoIs DEF Step
    <2> HIDE DEF t
    <2>3. Staged(t) /\ Recorded(t, m) /\ Held(t, v, a, calm)
      BY <1>3, <2>2, RollbackStage
    <2> QED
      BY <1>3, <2>3 DEF AfterRefusal, t
  <1>4. CASE s.write = "RecordError"
    BY <1>4, IdleStage DEF AfterRefusal
  <1>5. CASE s.write \notin {"Activate", "Resume", "BeginApply", "RecordError"}
    <2>1. s.phase # "persist"
      BY <1>5 DEF Staged, Creating, Stopping, Persisting, Restarting, TakingBack, Capturing,
                  Landing, Returning, Reclaiming, Leaving, Doing, Removals
    <2> QED
      BY <1>5, <2>1, FailingStage DEF AfterRefusal
  <1> QED
    BY <1>1, <1>2, <1>3, <1>4, <1>5

LEMMA AfterDropStage ==
    ASSUME NEW s \in Command, Reclaiming(s), s.pc \in {"dropStorage", "dropStage", "dropSsh"},
           NEW m, m.state # "none",
           NEW v, v.container = "none", NEW a,
           s.phase = "release" /\ ~s.failed =>
             /\ v.storage = "none"
             /\ s.pc \in {"dropStage", "dropSsh"} => ~v.stage
             /\ s.pc = "dropSsh" => ~a.ssh,
           NEW calm
    PROVE  LET t == AfterDrop(s) IN
           Staged(t) /\ Recorded(t, m) /\ Held(t, v, a, calm)
  <1> USE DEF Staged, Recorded, Held, Creating, Stopping, Persisting, Restarting, Capturing,
          Landing, Returning, Reclaiming, Leaving, Doing, Pending, Removals
  <1>1. CASE s.pc = "dropStorage"
    <2> DEFINE t == Goto(s, "dropStage")
    <2>1. t \in Command /\ t.pc = "dropStage" /\ t.phase = s.phase /\ t.failed = s.failed
      BY GotoIs DEF Step
    <2> HIDE DEF t
    <2>2. Staged(t) /\ Recorded(t, m) /\ Held(t, v, a, calm)
      BY <1>1, <2>1
    <2> QED
      BY <1>1, <2>2 DEF AfterDrop, t
  <1>2. CASE s.pc = "dropStage"
    <2> DEFINE t == Goto(s, "dropSsh")
    <2>1. t \in Command /\ t.pc = "dropSsh" /\ t.phase = s.phase /\ t.failed = s.failed
      BY GotoIs DEF Step
    <2> HIDE DEF t
    <2>2. Staged(t) /\ Recorded(t, m) /\ Held(t, v, a, calm)
      BY <1>2, <2>1
    <2> QED
      BY <1>2, <2>2 DEF AfterDrop, t
  <1>3. CASE s.pc = "dropSsh" /\ s.phase = "release" /\ ~s.failed
    <2> DEFINE t == Goto(s, "dropArchive")
    <2>1. t \in Command /\ t.pc = "dropArchive" /\ t.phase = "release"
      BY <1>3, GotoIs DEF Step
    <2> HIDE DEF t
    <2>2. Staged(t) /\ Recorded(t, m) /\ Held(t, v, a, calm)
      BY <1>3, <2>1
    <2> QED
      BY <1>3, <2>2 DEF AfterDrop, AfterReclaim, t
  <1>4. CASE s.pc = "dropSsh" /\ (s.phase = "create" \/ s.failed)
    <2>1. AfterDrop(s) = Failing(s) /\ s.phase # "persist"
      BY <1>4 DEF AfterDrop, AfterReclaim
    <2> HIDE DEF Staged, Recorded, Held
    <2> QED
      BY <2>1, FailingStage
  <1> QED
    BY <1>1, <1>2, <1>3, <1>4

LEMMA AfterFailureStage ==
    ASSUME NEW s \in Command, Staged(s), s.pc # "idle",
           NEW m, Recorded(s, m),
           NEW v, s.pc \in {"dropStorage", "dropStage", "dropSsh", "persist"} =>
                    v.container = "none",
           NEW a, NEW calm
    PROVE  LET t == AfterFailure(s) IN
           Staged(t) /\ Recorded(t, m) /\ Held(t, v, a, calm)
  <1>1. CASE s.pc \in {"get", "put"}
    <2>1. s.write # "RecordError" => m.state # "none"
      BY <1>1 DEF Recorded
    <2>2. AfterFailure(s) = AfterRefusal(s)
      BY <1>1 DEF AfterFailure
    <2> QED
      BY <1>1, <2>1, <2>2, AfterRefusalStage
  <1>2. CASE s.pc \in {"dropStorage", "dropStage", "dropSsh"}
    <2> DEFINE t == [s EXCEPT !.failed = TRUE]
    <2>1. t \in Command /\ t.phase = s.phase /\ t.pc = s.pc /\ t.failed
      BY DEF Command
    <2>2. AfterFailure(s) = AfterDrop(t)
      BY <1>2 DEF AfterFailure
    <2> HIDE DEF t
    <2>3. Reclaiming(s) /\ m.state # "none"
      BY <1>2 DEF Staged, Recorded, Creating, Stopping, Persisting, Restarting, TakingBack,
                  Capturing, Landing, Returning, Reclaiming, Leaving, Doing, Removals
    <2>4. Reclaiming(t)
      BY <2>1, <2>3 DEF Reclaiming
    <2> QED
      BY <1>2, <2>1, <2>2, <2>3, <2>4, AfterDropStage
  <1>3. CASE s.pc = "persist"
    <2> DEFINE t == [s EXCEPT !.phase = "persist"]
    <2>1. t \in Command /\ t.phase = "persist"
      BY DEF Command, Phase
    <2>2. AfterFailure(s) = Failing(t)
      BY <1>3 DEF AfterFailure
    <2> HIDE DEF t
    <2>3. m.state = "stopped" /\ m.apply = Nil
      BY <1>3 DEF Staged, Recorded, Creating, Stopping, Persisting, Restarting, TakingBack,
                  Capturing, Landing, Returning, Reclaiming, Leaving, Doing, Removals
    <2> QED
      BY <1>3, <2>1, <2>2, <2>3, PersistFailingStage
  <1>4. CASE s.pc \notin {"get", "put", "persist", "dropStorage", "dropStage", "dropSsh"}
    <2>1. m.state # "none" /\ s.phase # "persist"
      BY <1>4 DEF Staged, Recorded, Creating, Stopping, Persisting, Restarting, TakingBack,
                  Capturing, Landing, Returning, Reclaiming, Leaving, Doing, Removals
    <2> DEFINE launch == {"ssh", "stage", "storage", "run", "materialize", "configure"}
    <2>2. CASE s.pc \in launch /\ s.phase = "create"
      <3> DEFINE t == Goto(s, "reclaim")
      <3>1. t \in Command /\ t.pc = "reclaim" /\ t.phase = "create"
        BY <2>2, GotoIs DEF Step
      <3>2. AfterFailure(s) = t
        BY <2>2 DEF AfterFailure
      <3> HIDE DEF t
      <3> QED
        BY <2>1, <3>1, <3>2, ReclaimStage
    <2>3. CASE s.pc \in launch /\ s.phase # "create"
      <3> DEFINE t == Entering(s, "cleanup", "down")
      <3>1. t \in Command /\ t.pc = "down" /\ t.phase = "cleanup"
        BY EnteringIs, NamesOfSteps
      <3>2. AfterFailure(s) = t
        BY <2>3 DEF AfterFailure
      <3> HIDE DEF t
      <3> QED
        BY <2>1, <3>1, <3>2, TakingBackStage DEF TakingBack
    <2>4. CASE s.pc \notin launch
      <3>1. AfterFailure(s) = Failing(s)
        BY <1>4, <2>4 DEF AfterFailure
      <3> QED
        BY <2>1, <3>1, FailingStage
    <2> QED
      BY <2>2, <2>3, <2>4
  <1> QED
    BY <1>1, <1>2, <1>3, <1>4

\* Whatever fails after a container was started leads to its removal.
LEMMA AfterFailureLaunched ==
    ASSUME NEW s \in Command, Staged(s), ~CleaningUp(s), Launching(s) \/ s.pc = "run"
    PROVE  Launching(AfterFailure(s))
  <1>1. \/ s.phase = "create" /\ s.pc \in {"run", "materialize", "configure"}
        \/ s.phase = "create" /\ Doing(s, "Activate")
        \/ s.phase = "resume" /\ s.pc \in {"run", "configure"}
        \/ s.phase = "resume" /\ Doing(s, "Resume")
    BY DEF Staged, Launching, CleaningUp, Creating, Stopping, Persisting, Restarting,
           TakingBack, Capturing, Landing, Returning, Reclaiming, Leaving, Doing, Removals
  <1>2. CASE s.phase = "create"
    <2>1. AfterFailure(s) \in {Goto(s, "reclaim"), Entering(s, "create", "reclaim")}
      BY <1>1, <1>2 DEF AfterFailure, AfterRefusal, Doing
    <2>2. Goto(s, "reclaim").pc = "reclaim" /\ Goto(s, "reclaim").phase = "create"
      BY <1>2 DEF Goto, Command
    <2>3. /\ Entering(s, "create", "reclaim").pc = "reclaim"
          /\ Entering(s, "create", "reclaim").phase = "create"
      BY DEF Entering, Command
    <2> QED
      BY <2>1, <2>2, <2>3 DEF Launching
  <1>3. CASE s.phase = "resume"
    <2>1. AfterFailure(s) = Entering(s, "cleanup", "down")
      BY <1>1, <1>3 DEF AfterFailure, AfterRefusal, Doing
    <2>2. /\ Entering(s, "cleanup", "down").pc = "down"
          /\ Entering(s, "cleanup", "down").phase = "cleanup"
      BY DEF Entering, Command
    <2> QED
      BY <2>1, <2>2 DEF Launching, TakingBack
  <1> QED
    BY <1>1, <1>2, <1>3

-----------------------------------------------------------------------------
(***************************************************************************)
(* What follows a stop, and the removal of a container.                    *)
(***************************************************************************)
LEMMA AfterStopStage ==
    ASSUME NEW s \in Command, NEW m \in Manifest, m.state = "stopped", m.apply = Nil,
           clock \in Nat,
           NEW v, v.container = "none", NEW a, NEW calm
    PROVE  LET t == AfterStop(s, m) IN
           Staged(t) /\ Recorded(t, m) /\ Held(t, v, a, calm)
  <1>1. CASE s.op = "discard"
    <2>1. /\ Releasing(s) \in Command
          /\ Releasing(s).pc = "reclaim" /\ Releasing(s).phase = "release"
      BY DEF Releasing, Entering, Command, Phase, Step
    <2> QED
      BY <1>1, <2>1, ReclaimStage DEF AfterStop
  <1>2. CASE s.op = "apply"
    <2> DEFINE t == Entering(s, "apply", "capture")
    <2>1. t \in Command /\ t.pc = "capture" /\ t.phase = "apply"
      BY EnteringIs, NamesOfSteps
    <2>2. AfterStop(s, m) = t
      BY <1>2 DEF AfterStop, Applying
    <2> HIDE DEF t
    <2> QED
      BY <2>1, <2>2
      DEF Staged, Recorded, Held, Creating, Stopping, Persisting, Restarting, Capturing,
          Landing, Returning, Reclaiming, Leaving, Doing, Pending, Removals
  <1>3. CASE s.op = "resume" /\ Remaining(m, clock) # Nil
    <2> DEFINE t == Resuming(s, m)
    <2>1. t \in Command /\ t.pc = "check" /\ t.phase = "resume"
      BY RemainingType DEF Resuming, Entering, Command, Phase, Step
    <2>2. AfterStop(s, m) = t
      BY <1>3 DEF AfterStop
    <2> HIDE DEF t
    <2> QED
      BY <2>1, <2>2
      DEF Staged, Recorded, Held, Creating, Stopping, Persisting, Restarting, Capturing,
          Landing, Returning, Reclaiming, Leaving, Doing, Pending, Removals
  <1>4. CASE s.op \notin {"discard", "apply", "resume"}
             \/ (s.op = "resume" /\ Remaining(m, clock) = Nil)
    BY <1>4, IdleStage DEF AfterStop
  <1> QED
    BY <1>1, <1>2, <1>3, <1>4

LEMMA AfterRemovalStage ==
    ASSUME NEW s \in Command, s.phase \in {"stop", "resume", "cleanup"},
           NEW m, s.phase = "stop" => m.state = "active",
           s.phase = "resume" => m.state = "stopped",
           NEW v, v.container = "none", NEW a, NEW calm
    PROVE  LET t == AfterRemoval(s) IN
           Staged(t) /\ Recorded(t, m) /\ Held(t, v, a, calm)
  <1> USE DEF Staged, Recorded, Held, Creating, Stopping, Persisting, Restarting, Capturing,
          Landing, Returning, Reclaiming, Leaving, Doing, Pending, Removals
  <1>1. CASE s.phase = "stop"
    <2> DEFINE t == Goto(s, "verify")
    <2>1. t \in Command /\ t.pc = "verify" /\ t.phase = "stop"
      BY <1>1, GotoIs DEF Step
    <2>2. AfterRemoval(s) = t
      BY <1>1 DEF AfterRemoval
    <2> HIDE DEF t
    <2> QED
      BY <1>1, <2>1, <2>2
  <1>2. CASE s.phase = "resume"
    <2> DEFINE t == Goto(s, "run")
    <2>1. t \in Command /\ t.pc = "run" /\ t.phase = "resume"
      BY <1>2, GotoIs DEF Step
    <2>2. AfterRemoval(s) = t
      BY <1>2 DEF AfterRemoval
    <2> HIDE DEF t
    <2> QED
      BY <1>2, <2>1, <2>2
  <1>3. CASE s.phase = "cleanup"
    <2>1. AfterRemoval(s) = Failing(s)
      BY <1>3 DEF AfterRemoval
    <2> HIDE DEF Staged, Recorded, Held
    <2> QED
      BY <1>3, <2>1, FailingStage
  <1> QED
    BY <1>1, <1>2, <1>3

-----------------------------------------------------------------------------
(***************************************************************************)
(* A step of one command touches the objects of its own run only, so what  *)
(* holds of the others stays, and what has to be shown is about its run.   *)
(***************************************************************************)
LEMMA HeldWhenLessCalm ==
    ASSUME NEW s, NEW v, NEW a, NEW calm, Held(s, v, a, calm), NEW still, still => calm
    PROVE  Held(s, v, a, still)
  BY DEF Held

OthersStay(c) ==
    \A r \in Runs : r # RunOf[c] =>
        record'[r] = record[r] /\ vm'[r] = vm[r] /\ mac'[r] = mac[r]

LEMMA StepOfOne ==
    ASSUME Alone, TypeOK, OneAtATime, NEW c \in Commands, NEW s, Becomes(c, s),
           OthersStay(c),
           mishaps'.orderly => mishaps.orderly,
           Staged(s),
           Recorded(s, record'[RunOf[c]]),
           Held(s, vm'[RunOf[c]], mac'[RunOf[c]], mishaps'.orderly),
           Kept(record'[RunOf[c]], vm'[RunOf[c]], mac'[RunOf[c]]),
           Unclaimed(record'[RunOf[c]], vm'[RunOf[c]], mishaps'.orderly) => Launching(s)
    PROVE  OneAtATime'
  <1>1. cmd' = [cmd EXCEPT ![c] = s] /\ cmd \in [Commands -> Command]
    BY DEF Becomes, TypeOK
  <1>2. cmd'[c] = s /\ \A d \in Commands : d # c => cmd'[d] = cmd[d]
    BY <1>1
  <1>3. \A d \in Commands : RunOf[d] \in Runs /\ (d # c => RunOf[d] # RunOf[c])
    BY CommandsAssumption DEF Alone
  <1>4. ASSUME NEW d \in Commands
        PROVE  /\ Staged(cmd'[d])
               /\ Recorded(cmd'[d], record'[RunOf[d]])
               /\ Held(cmd'[d], vm'[RunOf[d]], mac'[RunOf[d]], mishaps'.orderly)
    <2>1. CASE d = c
      BY <1>2, <2>1
    <2>2. CASE d # c
      <3>1. /\ Staged(cmd[d])
            /\ Recorded(cmd[d], record[RunOf[d]])
            /\ Held(cmd[d], vm[RunOf[d]], mac[RunOf[d]], mishaps.orderly)
        BY DEF OneAtATime
      <3>2. Held(cmd[d], vm[RunOf[d]], mac[RunOf[d]], mishaps'.orderly)
        BY <3>1, HeldWhenLessCalm
      <3> QED
        BY <1>2, <1>3, <2>2, <3>1, <3>2 DEF OthersStay
    <2> QED
      BY <2>1, <2>2
  <1>5. ASSUME NEW r \in Runs
        PROVE  Kept(record'[r], vm'[r], mac'[r]) /\ Launched(r)'
    <2>1. CASE r = RunOf[c]
      BY <1>2, <2>1 DEF Launched
    <2>2. CASE r # RunOf[c]
      <3>1. record'[r] = record[r] /\ vm'[r] = vm[r] /\ mac'[r] = mac[r]
        BY <2>2 DEF OthersStay
      <3>2. Kept(record[r], vm[r], mac[r]) /\ Launched(r)
        BY DEF OneAtATime
      <3>3. ASSUME NEW d \in Commands, RunOf[d] = r, Launching(cmd[d])
            PROVE  Launching(cmd'[d])
        BY <1>2, <2>2, <3>3
      <3> QED
        BY <3>1, <3>2, <3>3 DEF Launched, Unclaimed
    <2> QED
      BY <2>1, <2>2
  <1> QED
    BY <1>4, <1>5 DEF OneAtATime

\* Where a command is and what its run is like before a step.
LEMMA Before ==
    ASSUME Alone, TypeOK, OneAtATime, NEW c \in Commands
    PROVE  /\ cmd[c] \in Command
           /\ RunOf[c] \in Runs
           /\ record[RunOf[c]] \in Manifest /\ vm[RunOf[c]] \in VM /\ mac[RunOf[c]] \in Mac
           /\ Staged(cmd[c])
           /\ Recorded(cmd[c], record[RunOf[c]])
           /\ Held(cmd[c], vm[RunOf[c]], mac[RunOf[c]], mishaps.orderly)
           /\ Kept(record[RunOf[c]], vm[RunOf[c]], mac[RunOf[c]])
           /\ Unclaimed(record[RunOf[c]], vm[RunOf[c]], mishaps.orderly) => Launching(cmd[c])
  <1>1. RunOf[c] \in Runs
    BY CommandsAssumption
  <1>2. \A d \in Commands : RunOf[d] = RunOf[c] => d = c
    BY DEF Alone
  <1>3. Launched(RunOf[c])
    BY <1>1 DEF OneAtATime
  <1> QED
    BY <1>1, <1>2, <1>3 DEF TypeOK, OneAtATime, Launched

\* A step that fails, with or without an effect on the run's objects.
LEMMA FailureOfOne ==
    ASSUME Alone, TypeOK, OneAtATime, NEW c \in Commands, Fails(c), UNCHANGED record,
           OthersStay(c), cmd[c].pc # "idle",
           cmd[c].pc \in {"dropStorage", "dropStage", "dropSsh", "persist"} =>
             vm'[RunOf[c]].container = "none",
           Kept(record[RunOf[c]], vm'[RunOf[c]], mac'[RunOf[c]]),
           vm'[RunOf[c]].container = "running" =>
             vm[RunOf[c]].container = "running" \/ cmd[c].pc = "run"
    PROVE  OneAtATime'
  <1> DEFINE s == AfterFailure(cmd[c])
             r == RunOf[c]
  <1>1. Becomes(c, s)
    BY DEF Fails
  <1>2. /\ mishaps'.orderly => mishaps.orderly
        /\ mishaps'.orderly => ~CleaningUp(cmd[c])
    BY DEF Fails, Mishap
  <1>3. Staged(s) /\ Recorded(s, record[r]) /\ Held(s, vm'[r], mac'[r], mishaps'.orderly)
    BY Before, AfterFailureStage
  <1>4. Unclaimed(record[r], vm'[r], mishaps'.orderly) => Launching(s)
    BY <1>2, Before, AfterFailureLaunched DEF Unclaimed
  <1> HIDE DEF s
  <1> QED
    BY <1>1, <1>2, <1>3, <1>4, StepOfOne

\* A step that ends, well or not.
LEMMA EndOfOne ==
    ASSUME Alone, TypeOK, OneAtATime, NEW c \in Commands, NEW s, Ends(c, s), UNCHANGED record,
           OthersStay(c), cmd[c].pc # "idle",
           cmd[c].pc \in {"dropStorage", "dropStage", "dropSsh", "persist"} =>
             vm'[RunOf[c]].container = "none",
           Staged(s),
           Recorded(s, record[RunOf[c]]),
           Held(s, vm'[RunOf[c]], mac'[RunOf[c]], mishaps.orderly),
           Kept(record[RunOf[c]], vm'[RunOf[c]], mac'[RunOf[c]]),
           vm'[RunOf[c]].container = "running" =>
             \/ vm[RunOf[c]].container = "running" /\ (Launching(cmd[c]) => Launching(s))
             \/ cmd[c].pc = "run" /\ Launching(s)
    PROVE  OneAtATime'
  <1>1. CASE Becomes(c, s) /\ UNCHANGED mishaps
    BY <1>1, Before, StepOfOne DEF Unclaimed
  <1>2. CASE Fails(c)
    BY <1>2, FailureOfOne
  <1> QED
    BY <1>1, <1>2 DEF Ends

-----------------------------------------------------------------------------
(***************************************************************************)
(* The stages a step leads to.                                             *)
(***************************************************************************)
LEMMA CreatingStage ==
    ASSUME NEW s \in Command, s.phase = "create",
           s.pc \in {"ssh", "stage", "storage", "run", "materialize", "configure"},
           NEW m, m.state = "creating", NEW v, NEW a, NEW calm
    PROVE  Staged(s) /\ Recorded(s, m) /\ Held(s, v, a, calm)
  BY DEF Staged, Recorded, Held, Creating, Stopping, Persisting, Restarting, Capturing,
         Landing, Returning, Reclaiming, Leaving, Doing, Pending, Removals

LEMMA RestartingStage ==
    ASSUME NEW s \in Command, s.phase = "resume",
           s.pc \in {"check", "down", "remove", "run", "configure"},
           NEW m, m.state = "stopped", NEW v, NEW a, NEW calm
    PROVE  Staged(s) /\ Recorded(s, m) /\ Held(s, v, a, calm)
  BY DEF Staged, Recorded, Held, Creating, Stopping, Persisting, Restarting, Capturing,
         Landing, Returning, Reclaiming, Leaving, Doing, Pending, Removals

LEMMA PendingStage ==
    ASSUME NEW s \in Command, s.pc = "get",
           NEW m,
           \/ s.phase = "create" /\ s.write = "Activate" /\ m.state = "creating"
           \/ s.phase = "resume" /\ s.write = "Resume" /\ m.state = "stopped",
           NEW v, v.offered => v.told = s.capability, NEW a, NEW calm
    PROVE  Staged(s) /\ Recorded(s, m) /\ Held(s, v, a, calm)
  BY DEF Staged, Recorded, Held, Creating, Stopping, Persisting, Restarting, Capturing,
         Landing, Returning, Reclaiming, Leaving, Doing, Pending, Removals

LEMMA StoppingStage ==
    ASSUME NEW s \in Command, s.phase = "stop",
           s.pc \in {"down", "remove", "verify"} \/ (s.pc = "get" /\ s.write = "Stop"),
           NEW m, m.state = "active",
           NEW v, s.pc \in {"verify", "get"} => v.container = "none", NEW a, NEW calm
    PROVE  Staged(s) /\ Recorded(s, m) /\ Held(s, v, a, calm)
  BY DEF Staged, Recorded, Held, Creating, Stopping, Persisting, Restarting, Capturing,
         Landing, Returning, Reclaiming, Leaving, Doing, Pending, Removals

LEMMA CapturingStage ==
    ASSUME NEW s \in Command, s.phase = "apply",
           s.pc \in {"capture", "import"} \/ (s.pc = "get" /\ s.write = "BeginApply"),
           NEW m, m.state = "stopped",
           NEW v, NEW calm,
           calm => v.container # "running" /\ (s.pc # "capture" => s.tip = v.work),
           NEW a, s.pc = "get" /\ s.outputs => a.archive
    PROVE  Staged(s) /\ Recorded(s, m) /\ Held(s, v, a, calm)
  BY DEF Staged, Recorded, Held, Creating, Stopping, Persisting, Restarting, Capturing,
         Landing, Returning, Reclaiming, Leaving, Doing, Pending, Removals

LEMMA LandingStage ==
    ASSUME NEW s \in Command, s.phase = "apply",
           s.pc = "commit" \/ (s.pc = "get" /\ s.write = "CompleteApply"),
           NEW m, m.state # "none",
           NEW v, NEW calm,
           s.pc = "commit" /\ ~v.reopened /\ calm =>
             v.container # "running" /\ s.tip = v.work,
           NEW a
    PROVE  Staged(s) /\ Recorded(s, m) /\ Held(s, v, a, calm)
  BY DEF Staged, Recorded, Held, Creating, Stopping, Persisting, Restarting, Capturing,
         Landing, Returning, Reclaiming, Leaving, Doing, Pending, Removals

LEMMA ReturningStage ==
    ASSUME NEW s \in Command, s.phase = "apply",
           s.pc = "copyBack" \/ (s.pc = "get" /\ s.write = "ClearReturned"),
           NEW m, m.state # "none",
           NEW v, NEW calm, NEW a, s.pc = "get" => a.copied
    PROVE  Staged(s) /\ Recorded(s, m) /\ Held(s, v, a, calm)
  BY DEF Staged, Recorded, Held, Creating, Stopping, Persisting, Restarting, Capturing,
         Landing, Returning, Reclaiming, Leaving, Doing, Pending, Removals

\* Steps that launch nothing, for the steps that end somewhere quiet.
LEMMA QuietSteps ==
    ASSUME NEW s,
           s.pc \in {"idle", "ssh", "stage", "storage", "run", "verify", "persist", "check",
                     "capture", "import", "commit", "rollback", "copyBack", "dropStorage",
                     "dropStage", "dropSsh", "dropArchive", "forget"}
             \/ (s.pc \in {"get", "put"} /\ s.write \notin {"Activate", "Resume"})
             \/ (s.pc \in {"down", "remove"} /\ s.phase # "cleanup")
             \/ (s.pc = "reclaim" /\ s.phase # "create")
    PROVE  ~Launching(s)
  BY DEF Launching, TakingBack, Doing

-----------------------------------------------------------------------------
(***************************************************************************)
(* Commands begin.                                                         *)
(***************************************************************************)
LEMMA BeginAlone ==
    ASSUME Alone, TypeOK, OneAtATime, NEW c \in Commands, NEW s, At(c, "idle"), Becomes(c, s),
           UNCHANGED <<record, vm, mac, mishaps>>,
           Staged(s), Recorded(s, record[RunOf[c]]),
           Held(s, vm[RunOf[c]], mac[RunOf[c]], mishaps.orderly)
    PROVE  OneAtATime'
  <1>1. ~Launching(cmd[c])
    BY QuietSteps DEF At
  <1> QED
    BY <1>1, Before, StepOfOne DEF OthersStay

LEMMA BeginsAlone ==
    ASSUME Alone, TypeOK, OneAtATime, PlansAreCurrent, NEW c \in Commands, Begins(c)
    PROVE  OneAtATime'
  <1> DEFINE r == RunOf[c]
             m == record[r]
             v == vm[r]
             a == mac[r]
  <1>1. /\ r \in Runs /\ m \in Manifest
        /\ Kept(m, v, a)
        /\ Unclaimed(m, v, mishaps.orderly) => Launching(cmd[c])
    BY Before
  <1>2. At(c, "idle") => ~Launching(cmd[c])
    BY QuietSteps DEF At
  <1>3. CASE BeginStart(c)
    <2> DEFINE s == [Idle EXCEPT !.op = "start", !.phase = "create", !.pc = "ssh",
                                 !.left = Lifetime]
    <2>1. s \in Command /\ s.phase = "create" /\ s.pc = "ssh"
      BY StartedIs
    <2>2. Becomes(c, s)
      BY <1>3 DEF BeginStart
    <2> HIDE DEF s
    <2>3. /\ UNCHANGED <<vm, mac, mishaps>>
          /\ record' = [record EXCEPT ![r] = Created(clock)]
          /\ m.state = "none"
      BY <1>3 DEF BeginStart
    <2>4. record'[r] = Created(clock) /\ OthersStay(c)
      BY <1>1, <2>3 DEF OthersStay, TypeOK
    <2>5. /\ Created(clock).state = "creating" /\ Created(clock).apply = Nil
          /\ ~Created(clock).returned /\ Created(clock).capability = Nil
      BY DEF Created, NoRun
    <2>6. Staged(s) /\ Recorded(s, record'[r]) /\ Held(s, vm'[r], mac'[r], mishaps'.orderly)
      BY <2>1, <2>4, <2>5, CreatingStage
    <2>7. Kept(record'[r], vm'[r], mac'[r])
      BY <2>3, <2>4, <2>5 DEF Kept
    <2>8. vm'[r].container # "running"
      BY <1>1, <2>3 DEF Kept
    <2> QED
      BY <2>2, <2>3, <2>4, <2>6, <2>7, <2>8, StepOfOne DEF Unclaimed
  <1>4. ASSUME NEW op \in {"stop", "resume", "apply", "discard"}, BeginByStopping(c, op)
        PROVE  OneAtATime'
    <2>5. op \in Op
      BY DEF Op
    <2>6. /\ [Idle EXCEPT !.op = op, !.phase = "stop", !.pc = "down"] \in Command
          /\ [Idle EXCEPT !.op = op, !.phase = "stop", !.pc = "down"].phase = "stop"
          /\ [Idle EXCEPT !.op = op, !.phase = "stop", !.pc = "down"].pc = "down"
      BY <2>5, StopBegunIs
    <2> DEFINE s == [Idle EXCEPT !.op = op, !.phase = "stop", !.pc = "down"]
    <2>1. s \in Command /\ s.phase = "stop" /\ s.pc = "down"
      BY <2>6
    <2>2. Becomes(c, s) /\ At(c, "idle") /\ UNCHANGED <<record, vm, mac, mishaps>>
      BY <1>4 DEF BeginByStopping
    <2> HIDE DEF s
    <2>3. m.state = "active"
      BY <1>4 DEF BeginByStopping
    <2>4. Staged(s) /\ Recorded(s, m) /\ Held(s, v, a, mishaps.orderly)
      BY <2>1, <2>3, StoppingStage
    <2> QED
      BY <2>2, <2>4, BeginAlone
  <1>5. CASE BeginResume(c)
    <2> DEFINE s == Resuming([Idle EXCEPT !.op = "resume"], m)
    <2>1. [Idle EXCEPT !.op = "resume"] \in Command /\ clock \in Nat
      BY IdleType DEF Command, Op, TypeOK
    <2>2. s \in Command /\ s.phase = "resume" /\ s.pc = "check"
      BY <1>1, <2>1, ResumingType DEF Resuming, Entering, Command
    <2>3. Becomes(c, s) /\ At(c, "idle") /\ UNCHANGED <<record, vm, mac, mishaps>>
      BY <1>5 DEF BeginResume
    <2> HIDE DEF s
    <2>4. m.state = "stopped"
      BY <1>5 DEF BeginResume
    <2>5. Staged(s) /\ Recorded(s, m) /\ Held(s, v, a, mishaps.orderly)
      BY <2>2, <2>4, RestartingStage
    <2> QED
      BY <2>3, <2>5, BeginAlone
  <1>6. CASE BeginApply(c)
    <2> DEFINE i == [Idle EXCEPT !.op = "apply"]
    <2>1. i \in Command
      BY IdleType DEF Command, Op
    <2> HIDE DEF i
    <2>2. At(c, "idle") /\ UNCHANGED <<record, vm, mac, mishaps>>
      BY <1>6 DEF BeginApply
    <2>3. CASE m.state = "stopped" /\ Becomes(c, Applying(i, m))
      <3>1. mishaps.orderly => v.container # "running"
        BY <1>1, <1>2, <2>2, <2>3 DEF Unclaimed
      <3>2. CASE m.apply # Nil
        <4> DEFINE s == [Entering(i, "apply", "commit") EXCEPT !.tip = m.apply]
        <4>1. s \in Command /\ s.phase = "apply" /\ s.pc = "commit" /\ s.tip = m.apply
          BY <1>1, <2>1 DEF Entering, Command, Manifest, Phase, Step
        <4>2. Becomes(c, s)
          BY <2>3, <3>2 DEF Applying
        <4> HIDE DEF s
        <4>3. mishaps.orderly /\ ~v.reopened => s.tip = v.work
          BY <1>1, <3>2, <4>1 DEF PlansAreCurrent
        <4>4. Staged(s) /\ Recorded(s, m) /\ Held(s, v, a, mishaps.orderly)
          BY <2>3, <3>1, <4>1, <4>3, LandingStage
        <4> QED
          BY <2>2, <4>2, <4>4, BeginAlone
      <3>3. CASE m.apply = Nil
        <4> DEFINE s == Entering(i, "apply", "capture")
        <4>1. s \in Command /\ s.phase = "apply" /\ s.pc = "capture"
          BY <2>1, EnteringIs, NamesOfSteps
        <4>2. Becomes(c, s)
          BY <2>3, <3>3 DEF Applying
        <4> HIDE DEF s
        <4>3. Staged(s) /\ Recorded(s, m) /\ Held(s, v, a, mishaps.orderly)
          BY <2>3, <3>1, <4>1, CapturingStage
        <4> QED
          BY <2>2, <4>2, <4>3, BeginAlone
      <3> QED
        BY <3>2, <3>3
    <2>4. CASE /\ m.state = "imported"
               /\ Becomes(c, [Entering(i, "apply", "copyBack") EXCEPT !.seen = m])
      <3> DEFINE s == [Entering(i, "apply", "copyBack") EXCEPT !.seen = m]
      <3>1. s \in Command /\ s.phase = "apply" /\ s.pc = "copyBack"
        BY <1>1, <2>1 DEF Entering, Command, Phase, Step
      <3>2. Becomes(c, s)
        BY <2>4
      <3> HIDE DEF s
      <3>3. Staged(s) /\ Recorded(s, m) /\ Held(s, v, a, mishaps.orderly)
        BY <2>4, <3>1, ReturningStage
      <3> QED
        BY <2>2, <3>2, <3>3, BeginAlone
    <2> QED
      BY <1>6, <2>3, <2>4 DEF BeginApply, i
  <1>7. CASE BeginDiscard(c)
    <2> DEFINE s == Releasing([Idle EXCEPT !.op = "discard"])
    <2>1. [Idle EXCEPT !.op = "discard"] \in Command
      BY IdleType DEF Command, Op
    <2>2. s \in Command /\ s.phase = "release" /\ s.pc = "reclaim"
      BY <2>1, ReleasingType DEF Releasing, Entering, Command
    <2>3. Becomes(c, s) /\ At(c, "idle") /\ UNCHANGED <<record, vm, mac, mishaps>>
      BY <1>7 DEF BeginDiscard
    <2> HIDE DEF s
    <2>4. m.state # "none"
      BY <1>7 DEF BeginDiscard
    <2>5. Staged(s) /\ Recorded(s, m) /\ Held(s, v, a, mishaps.orderly)
      BY <2>2, <2>4, ReclaimStage
    <2> QED
      BY <2>3, <2>5, BeginAlone
  <1> QED
    BY <1>3, <1>4, <1>5, <1>6, <1>7 DEF Begins

\* The stage a command is in, from the step it is at.
LEMMA StageOfStep ==
    ASSUME NEW s, Staged(s)
    PROVE  /\ s.pc \in {"ssh", "stage", "storage", "materialize"} => s.phase = "create" /\ Creating(s)
           /\ s.pc \in {"run", "configure"} =>
                \/ s.phase = "create" /\ Creating(s)
                \/ s.phase = "resume" /\ Restarting(s)
           /\ s.pc \in {"down", "remove"} =>
                \/ s.phase = "stop" /\ Stopping(s)
                \/ s.phase = "resume" /\ Restarting(s)
                \/ s.phase = "cleanup" /\ TakingBack(s)
           /\ s.pc = "verify" => s.phase = "stop" /\ Stopping(s)
           /\ s.pc = "persist" => s.phase = "stop" /\ Persisting(s)
           /\ s.pc = "check" => s.phase = "resume" /\ Restarting(s)
           /\ s.pc \in {"capture", "import"} => s.phase = "apply" /\ Capturing(s)
           /\ s.pc \in {"commit", "rollback", "copyBack"} => s.phase = "apply"
           /\ s.pc \in Removals => s.phase \in {"create", "release"} /\ Reclaiming(s)
           /\ s.pc = "dropArchive" =>
                \/ s.phase = "release" /\ Leaving(s)
                \/ s.phase = "apply" /\ s.write = "ClearReturned" /\ Returning(s)
           /\ s.pc = "forget" => s.phase = "release" /\ Leaving(s)
           /\ s.phase = "persist" /\ s.pc # "idle" =>
                s.pc \in {"get", "put"} /\ s.write = "RecordError"
  <1> USE DEF Creating, Stopping, Persisting, Restarting, TakingBack, Capturing, Landing,
              Returning, Reclaiming, Leaving, Doing, Removals
  <1>1. CASE s.pc \in {"get", "put"}
    BY <1>1 DEF Staged
  <1>2. CASE s.pc \notin {"get", "put"}
    BY <1>2 DEF Staged
  <1> QED
    BY <1>1, <1>2

-----------------------------------------------------------------------------
(***************************************************************************)
(* The steps that create a run or bring it back.                           *)
(***************************************************************************)
LEMMA CreationAlone ==
    ASSUME Alone, TypeOK, OneAtATime, NEW c \in Commands,
           PrepareSsh(c) \/ CreateStage(c) \/ CreateRunStorage(c) \/ Materialize(c)
    PROVE  OneAtATime'
  <1> DEFINE r == RunOf[c]
  <1>1. /\ cmd[c] \in Command /\ r \in Runs
        /\ Staged(cmd[c]) /\ Recorded(cmd[c], record[r])
        /\ Kept(record[r], vm[r], mac[r])
        /\ vm[r] \in VM /\ mac[r] \in Mac
        /\ Unclaimed(record[r], vm[r], mishaps.orderly) => Launching(cmd[c])
    BY Before
  <1>2. cmd[c].pc \in {"ssh", "stage", "storage", "materialize"}
    BY DEF PrepareSsh, CreateStage, CreateRunStorage, Materialize, At
  <1>3. cmd[c].phase = "create" /\ record[r].state = "creating"
    BY <1>1, <1>2, StageOfStep DEF Recorded
  <1>4. ~Launching(cmd[c]) \/ cmd[c].pc = "materialize"
    BY <1>2, QuietSteps
  <1>5. UNCHANGED record /\ OthersStay(c)
    BY <1>1 DEF PrepareSsh, CreateStage, CreateRunStorage, Materialize, OthersStay, TypeOK
  <1>6. CASE PrepareSsh(c)
    <2> DEFINE s == Goto(cmd[c], "stage")
    <2>1. s \in Command /\ s.phase = "create" /\ s.pc = "stage"
      BY <1>1, <1>3, GotoIs DEF Step
    <2>2. Becomes(c, s) /\ UNCHANGED <<vm, mishaps>>
      BY <1>6 DEF PrepareSsh
    <2> HIDE DEF s
    <2>3. mac'[r].archive = mac[r].archive /\ mac'[r].copied = mac[r].copied
      BY <1>1, <1>6 DEF PrepareSsh, TypeOK, Mac
    <2>4. Kept(record[r], vm'[r], mac'[r])
      BY <1>1, <1>3, <2>2, <2>3 DEF Kept
    <2>5. Staged(s) /\ Recorded(s, record'[r]) /\ Held(s, vm'[r], mac'[r], mishaps'.orderly)
      BY <1>3, <1>5, <2>1, CreatingStage
    <2>6. cmd[c].pc = "ssh"
      BY <1>6 DEF PrepareSsh, At
    <2> QED
      BY <1>1, <1>4, <1>5, <2>2, <2>4, <2>5, <2>6, StepOfOne
  <1>7. CASE CreateStage(c) \/ CreateRunStorage(c) \/ Materialize(c)
    <2>1. PICK pc \in {"storage", "run", "configure"} :
            /\ Ends(c, Goto(cmd[c], pc))
            /\ cmd[c].pc = "materialize" => pc = "configure"
      BY <1>7 DEF CreateStage, CreateRunStorage, Materialize, At
    <2> DEFINE s == Goto(cmd[c], pc)
    <2>2. s \in Command /\ s.phase = "create" /\ s.pc = pc
      BY <1>1, <1>3, GotoIs DEF Step
    <2> HIDE DEF s
    <2>3. /\ UNCHANGED mac
          /\ vm'[r].container = vm[r].container
      BY <1>1, <1>7 DEF CreateStage, CreateRunStorage, Materialize, TypeOK, VM
    <2>4. ~record[r].returned
      BY <1>1, <1>3 DEF Kept
    <2>5. Kept(record[r], vm'[r], mac'[r])
      BY <1>1, <1>3, <2>3, <2>4 DEF Kept
    <2>6. Staged(s) /\ Recorded(s, record[r]) /\ Held(s, vm'[r], mac'[r], mishaps.orderly)
      BY <1>3, <2>2, CreatingStage
    <2>7. Launching(cmd[c]) => Launching(s)
      BY <1>4, <2>1, <2>2 DEF Launching
    <2>8. Ends(c, s)
      BY <2>1 DEF s
    <2> QED
      BY <1>2, <1>5, <2>3, <2>5, <2>6, <2>7, <2>8, EndOfOne
  <1> QED
    BY <1>6, <1>7

LEMMA RunContainerAlone ==
    ASSUME Alone, TypeOK, OneAtATime, NEW c \in Commands, RunContainer(c)
    PROVE  OneAtATime'
  <1> DEFINE r == RunOf[c]
  <1>1. /\ cmd[c] \in Command /\ r \in Runs
        /\ Staged(cmd[c]) /\ Recorded(cmd[c], record[r])
        /\ Kept(record[r], vm[r], mac[r])
        /\ vm[r] \in VM
    BY Before
  <1>2. cmd[c].pc = "run"
    BY DEF RunContainer, At
  <1>3. \/ cmd[c].phase = "create" /\ record[r].state = "creating"
        \/ cmd[c].phase = "resume" /\ record[r].state = "stopped"
    BY <1>1, <1>2, StageOfStep DEF Recorded
  <1>4. /\ UNCHANGED <<record, mac>> /\ OthersStay(c)
        /\ vm'[r].storage = vm[r].storage
    BY <1>1 DEF RunContainer, OthersStay, TypeOK, VM
  <1>5. Kept(record[r], vm'[r], mac'[r])
    BY <1>1, <1>3, <1>4 DEF Kept
  <1>6. PICK pc \in {"materialize", "configure"} :
          /\ Ends(c, Goto(cmd[c], pc))
          /\ pc = (IF cmd[c].phase = "create" THEN "materialize" ELSE "configure")
    BY DEF RunContainer
  <1> DEFINE s == Goto(cmd[c], pc)
  <1>7. s \in Command /\ s.phase = cmd[c].phase /\ s.pc = pc
    BY <1>1, GotoIs DEF Step
  <1>8. Ends(c, s)
    BY <1>6
  <1> HIDE DEF s
  <1>9. Staged(s) /\ Recorded(s, record[r]) /\ Held(s, vm'[r], mac'[r], mishaps.orderly)
    BY <1>3, <1>6, <1>7, CreatingStage, RestartingStage
  <1>10. Launching(s)
    BY <1>3, <1>6, <1>7 DEF Launching
  <1> QED
    BY <1>2, <1>4, <1>5, <1>8, <1>9, <1>10, EndOfOne

LEMMA ConfigureAlone ==
    ASSUME Alone, TypeOK, OneAtATime, NEW c \in Commands, Configure(c)
    PROVE  OneAtATime'
  <1> DEFINE r == RunOf[c]
  <1>1. /\ cmd[c] \in Command /\ r \in Runs
        /\ Staged(cmd[c]) /\ Recorded(cmd[c], record[r])
        /\ Kept(record[r], vm[r], mac[r])
        /\ vm[r] \in VM
    BY Before
  <1>2. cmd[c].pc = "configure"
    BY DEF Configure, At
  <1>3. \/ cmd[c].phase = "create" /\ record[r].state = "creating"
        \/ cmd[c].phase = "resume" /\ record[r].state = "stopped"
    BY <1>1, <1>2, StageOfStep DEF Recorded
  <1>4. /\ UNCHANGED <<record, mac>> /\ OthersStay(c)
        /\ vm'[r].storage = vm[r].storage
        /\ vm'[r].container = vm[r].container
        /\ vm'[r].offered => vm'[r].told = issued + 1
    <2>1. PICK offered \in BOOLEAN :
            vm' = [vm EXCEPT ![r].told = IF offered THEN issued + 1 ELSE @,
                             ![r].offered = offered]
      BY DEF Configure
    <2>2. /\ vm'[r].storage = vm[r].storage
          /\ vm'[r].container = vm[r].container
          /\ vm'[r].told = IF offered THEN issued + 1 ELSE vm[r].told
          /\ vm'[r].offered = offered
          /\ \A q \in Runs : q # r => vm'[q] = vm[q]
      BY <1>1, <2>1 DEF TypeOK, VM
    <2> QED
      BY <2>2 DEF Configure, OthersStay
  <1>5. Kept(record[r], vm'[r], mac'[r])
    BY <1>1, <1>3, <1>4 DEF Kept
  <1> DEFINE i == [cmd[c] EXCEPT !.capability = issued + 1]
  <1>6. i \in Command /\ i.phase = cmd[c].phase /\ i.capability = issued + 1
    BY <1>1 DEF Command, TypeOK
  <1>7. PICK operation \in {"Activate", "Resume"} :
          /\ Ends(c, Writing(i, operation))
          /\ operation = (IF cmd[c].phase = "create" THEN "Activate" ELSE "Resume")
    BY DEF Configure
  <1> HIDE DEF i
  <1> DEFINE s == Writing(i, operation)
  <1>8. /\ s \in Command /\ s.phase = cmd[c].phase /\ s.pc = "get" /\ s.write = operation
        /\ s.capability = issued + 1
    BY <1>6, WritingIs DEF Operation
  <1>9. Ends(c, s)
    BY <1>7
  <1> HIDE DEF s
  <1>10. Staged(s) /\ Recorded(s, record[r]) /\ Held(s, vm'[r], mac'[r], mishaps.orderly)
    BY <1>3, <1>4, <1>7, <1>8, PendingStage
  <1>11. Launching(s)
    BY <1>3, <1>7, <1>8 DEF Launching, Doing
  <1> QED
    BY <1>2, <1>4, <1>5, <1>9, <1>10, <1>11, EndOfOne

-----------------------------------------------------------------------------
(***************************************************************************)
(* The steps that take a container down.                                   *)
(***************************************************************************)
LEMMA TakeDownAlone ==
    ASSUME Alone, TypeOK, OneAtATime, NEW c \in Commands,
           StopContainer(c) \/ RemoveContainer(c)
    PROVE  OneAtATime'
  <1> DEFINE r == RunOf[c]
  <1>1. /\ cmd[c] \in Command /\ r \in Runs
        /\ Staged(cmd[c]) /\ Recorded(cmd[c], record[r])
        /\ Kept(record[r], vm[r], mac[r])
        /\ vm[r] \in VM
    BY Before
  <1>2. cmd[c].pc \in {"down", "remove"}
    BY DEF StopContainer, RemoveContainer, At
  <1>3. \/ cmd[c].phase = "stop" /\ record[r].state = "active"
        \/ cmd[c].phase = "resume" /\ record[r].state = "stopped"
        \/ cmd[c].phase = "cleanup" /\ record[r].state # "none"
    BY <1>1, <1>2, StageOfStep DEF Recorded
  <1>4. /\ UNCHANGED <<record, mac>> /\ OthersStay(c)
        /\ vm'[r].storage = vm[r].storage
        /\ vm'[r].container # "running"
    BY <1>1 DEF StopContainer, RemoveContainer, OthersStay, TypeOK, VM
  <1>5. Kept(record[r], vm'[r], mac'[r])
    BY <1>1, <1>3, <1>4 DEF Kept
  <1>6. CASE vm'[r].container = "none" /\ Ends(c, AfterRemoval(cmd[c]))
    <2> DEFINE s == AfterRemoval(cmd[c])
    <2>1. Staged(s) /\ Recorded(s, record[r]) /\ Held(s, vm'[r], mac'[r], mishaps.orderly)
      BY <1>1, <1>3, <1>6, AfterRemovalStage
    <2>2. Ends(c, s)
      BY <1>6
    <2> HIDE DEF s
    <2> QED
      BY <1>2, <1>4, <1>5, <2>1, <2>2, EndOfOne
  <1>7. CASE Ends(c, Goto(cmd[c], "remove"))
    <2> DEFINE s == Goto(cmd[c], "remove")
    <2>1. s \in Command /\ s.phase = cmd[c].phase /\ s.pc = "remove"
      BY <1>1, GotoIs DEF Step
    <2>2. Ends(c, s)
      BY <1>7
    <2> HIDE DEF s
    <2>3. Staged(s) /\ Recorded(s, record[r]) /\ Held(s, vm'[r], mac'[r], mishaps.orderly)
      BY <1>3, <2>1, StoppingStage, RestartingStage, TakingBackStage DEF TakingBack
    <2> QED
      BY <1>2, <1>4, <1>5, <2>2, <2>3, EndOfOne
  <1>8. \/ vm'[r].container = "none" /\ Ends(c, AfterRemoval(cmd[c]))
        \/ Ends(c, Goto(cmd[c], "remove"))
    BY <1>1 DEF StopContainer, RemoveContainer, TypeOK, VM
  <1> QED
    BY <1>6, <1>7, <1>8

LEMMA VerifyAlone ==
    ASSUME Alone, TypeOK, OneAtATime, NEW c \in Commands, VerifyRunStorage(c)
    PROVE  OneAtATime'
  <1> DEFINE r == RunOf[c]
             s == Writing(cmd[c], "Stop")
  <1>1. /\ cmd[c] \in Command /\ r \in Runs
        /\ Staged(cmd[c]) /\ Recorded(cmd[c], record[r])
        /\ Held(cmd[c], vm[r], mac[r], mishaps.orderly)
        /\ Kept(record[r], vm[r], mac[r])
        /\ vm[r] \in VM
    BY Before
  <1>2. cmd[c].pc = "verify" /\ vm[r].storage # "none"
    BY DEF VerifyRunStorage, At
  <1>3. cmd[c].phase = "stop" /\ record[r].state = "active" /\ vm[r].container = "none"
    BY <1>1, <1>2, StageOfStep DEF Recorded, Held
  <1>4. UNCHANGED <<record, mac>> /\ OthersStay(c) /\ vm'[r].container = "none"
    BY <1>1, <1>3 DEF VerifyRunStorage, Mounted, OthersStay, TypeOK, VM
  <1>5. Kept(record[r], vm'[r], mac'[r])
    BY <1>1, <1>2, <1>3, <1>4 DEF Kept
  <1>6. s \in Command /\ s.phase = "stop" /\ s.pc = "get" /\ s.write = "Stop"
    BY <1>1, <1>3, WritingIs DEF Operation
  <1>7. Ends(c, s)
    BY DEF VerifyRunStorage
  <1> HIDE DEF s
  <1>8. Staged(s) /\ Recorded(s, record[r]) /\ Held(s, vm'[r], mac'[r], mishaps.orderly)
    BY <1>3, <1>4, <1>6, StoppingStage
  <1> QED
    BY <1>2, <1>4, <1>5, <1>7, <1>8, EndOfOne

LEMMA PersistAlone ==
    ASSUME Alone, TypeOK, OneAtATime, NEW c \in Commands, Persist(c)
    PROVE  OneAtATime'
  <1> DEFINE r == RunOf[c]
             s == AfterStop(cmd[c], record[r])
  <1>1. /\ cmd[c] \in Command /\ r \in Runs /\ record[r] \in Manifest
        /\ Staged(cmd[c]) /\ Recorded(cmd[c], record[r])
        /\ Held(cmd[c], vm[r], mac[r], mishaps.orderly)
        /\ Kept(record[r], vm[r], mac[r])
    BY Before
  <1>2. cmd[c].pc = "persist"
    BY DEF Persist, At
  <1>3. /\ cmd[c].seen = record[r]
        /\ record[r].state = "stopped" /\ record[r].apply = Nil
        /\ vm[r].container = "none"
    BY <1>1, <1>2, StageOfStep DEF Recorded, Held
  <1>4. Staged(s) /\ Recorded(s, record[r]) /\ Held(s, vm[r], mac[r], mishaps.orderly)
    BY <1>1, <1>3, AfterStopStage DEF TypeOK
  <1>5. Becomes(c, s) /\ UNCHANGED <<record, vm, mac, mishaps>>
    BY <1>3 DEF Persist
  <1> HIDE DEF s
  <1> QED
    BY <1>1, <1>3, <1>4, <1>5, StepOfOne DEF OthersStay, Unclaimed

LEMMA CheckResumeAlone ==
    ASSUME Alone, TypeOK, OneAtATime, NEW c \in Commands, CheckResume(c)
    PROVE  OneAtATime'
  <1> DEFINE r == RunOf[c]
  <1>1. /\ cmd[c] \in Command /\ r \in Runs
        /\ Staged(cmd[c]) /\ Recorded(cmd[c], record[r])
        /\ Kept(record[r], vm[r], mac[r])
        /\ vm[r] \in VM
    BY Before
  <1>2. cmd[c].pc = "check" /\ vm[r].storage # "none"
    BY DEF CheckResume, At
  <1>3. cmd[c].phase = "resume" /\ record[r].state = "stopped" /\ ~Launching(cmd[c])
    BY <1>1, <1>2, StageOfStep, QuietSteps DEF Recorded
  <1>4. UNCHANGED <<record, mac>> /\ OthersStay(c) /\ vm'[r].container = vm[r].container
    BY <1>1 DEF CheckResume, Mounted, OthersStay, TypeOK, VM
  <1>5. Kept(record[r], vm'[r], mac'[r])
    BY <1>1, <1>2, <1>3, <1>4 DEF Kept
  <1>6. PICK pc \in {"run", "down"} : Ends(c, Goto(cmd[c], pc))
    BY DEF CheckResume
  <1> DEFINE s == Goto(cmd[c], pc)
  <1>7. s \in Command /\ s.phase = "resume" /\ s.pc = pc
    BY <1>1, <1>3, GotoIs DEF Step
  <1>8. Ends(c, s)
    BY <1>6
  <1> HIDE DEF s
  <1>9. Staged(s) /\ Recorded(s, record[r]) /\ Held(s, vm'[r], mac'[r], mishaps.orderly)
    BY <1>3, <1>7, RestartingStage
  <1> QED
    BY <1>2, <1>3, <1>4, <1>5, <1>8, <1>9, EndOfOne

-----------------------------------------------------------------------------
(***************************************************************************)
(* The steps of an import.                                                 *)
(***************************************************************************)
LEMMA CaptureAlone ==
    ASSUME Alone, TypeOK, OneAtATime, NEW c \in Commands, CaptureResult(c)
    PROVE  OneAtATime'
  <1> DEFINE r == RunOf[c]
  <1>1. /\ cmd[c] \in Command /\ r \in Runs
        /\ Staged(cmd[c]) /\ Recorded(cmd[c], record[r])
        /\ Held(cmd[c], vm[r], mac[r], mishaps.orderly)
        /\ Kept(record[r], vm[r], mac[r])
        /\ vm[r] \in VM
    BY Before
  <1>2. cmd[c].pc = "capture" /\ vm[r].storage # "none"
    BY DEF CaptureResult, At
  <1>3. /\ cmd[c].phase = "apply" /\ record[r].state = "stopped"
        /\ mishaps.orderly => vm[r].container # "running"
    BY <1>1, <1>2, StageOfStep DEF Recorded, Held
  <1>4. /\ UNCHANGED <<record, mac, mishaps>> /\ OthersStay(c)
        /\ vm'[r].container = vm[r].container
        /\ vm'[r].work = vm[r].work
    BY <1>1 DEF CaptureResult, Mounted, OthersStay, TypeOK, VM
  <1>5. Kept(record[r], vm'[r], mac'[r])
    BY <1>1, <1>2, <1>3, <1>4 DEF Kept
  <1>6. PICK outputs \in BOOLEAN :
          Becomes(c, [Goto(cmd[c], "import") EXCEPT !.tip = vm[r].work, !.outputs = outputs])
    BY DEF CaptureResult
  <1> DEFINE s == [Goto(cmd[c], "import") EXCEPT !.tip = vm[r].work, !.outputs = outputs]
  <1>7. s \in Command /\ s.phase = "apply" /\ s.pc = "import" /\ s.tip = vm[r].work
    BY <1>1, <1>3 DEF Goto, Command, VM, Step
  <1>8. Becomes(c, s)
    BY <1>6
  <1> HIDE DEF s
  <1>9. Staged(s) /\ Recorded(s, record[r]) /\ Held(s, vm'[r], mac'[r], mishaps.orderly)
    BY <1>3, <1>4, <1>7, CapturingStage
  <1> QED
    BY <1>3, <1>4, <1>5, <1>8, <1>9, StepOfOne DEF Unclaimed

LEMMA ImportAlone ==
    ASSUME Alone, TypeOK, OneAtATime, NEW c \in Commands, ImportResult(c)
    PROVE  OneAtATime'
  <1> DEFINE r == RunOf[c]
  <1>1. /\ cmd[c] \in Command /\ r \in Runs
        /\ Staged(cmd[c]) /\ Recorded(cmd[c], record[r])
        /\ Held(cmd[c], vm[r], mac[r], mishaps.orderly)
        /\ Kept(record[r], vm[r], mac[r])
        /\ mac[r] \in Mac
    BY Before
  <1>2. cmd[c].pc = "import"
    BY DEF ImportResult, At
  <1>3. /\ cmd[c].phase = "apply" /\ record[r].state = "stopped"
        /\ mishaps.orderly => vm[r].container # "running" /\ cmd[c].tip = vm[r].work
    BY <1>1, <1>2, StageOfStep DEF Recorded, Held
  <1>4. /\ UNCHANGED <<record, vm>> /\ OthersStay(c)
        /\ mac'[r].archive = (mac[r].archive \/ cmd[c].outputs)
        /\ mac'[r].copied = mac[r].copied
    BY <1>1 DEF ImportResult, OthersStay, TypeOK, Mac
  <1>5. Kept(record[r], vm'[r], mac'[r])
    BY <1>1, <1>3, <1>4 DEF Kept
  <1>6. CASE Becomes(c, Writing(cmd[c], "BeginApply")) /\ UNCHANGED mishaps
    <2> DEFINE s == Writing(cmd[c], "BeginApply")
    <2>1. /\ s \in Command /\ s.phase = "apply" /\ s.pc = "get" /\ s.write = "BeginApply"
          /\ s.tip = cmd[c].tip /\ s.outputs = cmd[c].outputs
      BY <1>1, <1>3, WritingIs DEF Operation
    <2>2. Becomes(c, s)
      BY <1>6
    <2> HIDE DEF s
    <2>3. Staged(s) /\ Recorded(s, record[r]) /\ Held(s, vm'[r], mac'[r], mishaps.orderly)
      BY <1>3, <1>4, <2>1, CapturingStage
    <2> QED
      BY <1>3, <1>4, <1>5, <1>6, <2>2, <2>3, StepOfOne DEF Unclaimed
  <1>7. CASE Mishap("fail") /\ Becomes(c, Goto(cmd[c], "rollback"))
    <2> DEFINE s == Goto(cmd[c], "rollback")
    <2>1. s \in Command /\ s.phase = "apply" /\ s.pc = "rollback"
      BY <1>1, <1>3, GotoIs DEF Step
    <2>2. Becomes(c, s)
      BY <1>7
    <2> HIDE DEF s
    <2>3. Staged(s) /\ Recorded(s, record[r]) /\ Held(s, vm'[r], mac'[r], mishaps'.orderly)
      BY <1>3, <2>1, RollbackStage
    <2>4. mishaps'.orderly => mishaps.orderly
      BY <1>7 DEF Mishap
    <2> QED
      BY <1>3, <1>4, <1>5, <2>2, <2>3, <2>4, StepOfOne DEF Unclaimed
  <1> QED
    BY <1>6, <1>7 DEF ImportResult

LEMMA CommitAlone ==
    ASSUME Alone, TypeOK, OneAtATime, NEW c \in Commands, CommitResult(c)
    PROVE  OneAtATime'
  <1> DEFINE r == RunOf[c]
             s == Writing(cmd[c], "CompleteApply")
  <1>1. /\ cmd[c] \in Command /\ r \in Runs
        /\ Staged(cmd[c]) /\ Recorded(cmd[c], record[r])
        /\ Held(cmd[c], vm[r], mac[r], mishaps.orderly)
        /\ Kept(record[r], vm[r], mac[r])
        /\ mac[r] \in Mac
        /\ Unclaimed(record[r], vm[r], mishaps.orderly) => Launching(cmd[c])
    BY Before
  <1>2. cmd[c].pc = "commit"
    BY DEF CommitResult, At
  <1>3. cmd[c].phase = "apply" /\ record[r].state # "none" /\ ~Launching(cmd[c])
    BY <1>1, <1>2, StageOfStep, QuietSteps DEF Recorded
  <1>4. /\ UNCHANGED <<record, vm>> /\ OthersStay(c)
        /\ mac'[r].archive = mac[r].archive
        /\ mac'[r].copied = mac[r].copied
    BY <1>1 DEF CommitResult, OthersStay, TypeOK, Mac
  <1>5. Kept(record[r], vm'[r], mac'[r])
    BY <1>1, <1>3, <1>4 DEF Kept
  <1>6. /\ s \in Command /\ s.phase = "apply" /\ s.pc = "get" /\ s.write = "CompleteApply"
    BY <1>1, <1>3, WritingIs DEF Operation
  <1>7. Ends(c, s)
    BY DEF CommitResult
  <1> HIDE DEF s
  <1>8. Staged(s) /\ Recorded(s, record[r]) /\ Held(s, vm'[r], mac'[r], mishaps.orderly)
    BY <1>3, <1>4, <1>6, LandingStage
  <1> QED
    BY <1>2, <1>3, <1>4, <1>5, <1>7, <1>8, EndOfOne

LEMMA RollbackAlone ==
    ASSUME Alone, TypeOK, OneAtATime, NEW c \in Commands, RollbackResult(c)
    PROVE  OneAtATime'
  <1> DEFINE r == RunOf[c]
             s == Failing(cmd[c])
  <1>1. /\ cmd[c] \in Command /\ r \in Runs
        /\ Staged(cmd[c]) /\ Recorded(cmd[c], record[r])
        /\ Kept(record[r], vm[r], mac[r])
        /\ mac[r] \in Mac
        /\ Unclaimed(record[r], vm[r], mishaps.orderly) => Launching(cmd[c])
    BY Before
  <1>2. cmd[c].pc = "rollback"
    BY DEF RollbackResult, At
  <1>3. cmd[c].phase = "apply" /\ record[r].state # "none" /\ ~Launching(cmd[c])
    BY <1>1, <1>2, StageOfStep, QuietSteps DEF Recorded
  <1>4. /\ UNCHANGED <<record, vm, mishaps>> /\ OthersStay(c)
        /\ mac'[r].archive = mac[r].archive
        /\ mac'[r].copied = mac[r].copied
    BY <1>1 DEF RollbackResult, OthersStay, TypeOK, Mac
  <1>5. Kept(record[r], vm'[r], mac'[r])
    BY <1>1, <1>3, <1>4 DEF Kept
  <1>6. Becomes(c, s)
    BY DEF RollbackResult
  <1>7. Staged(s) /\ Recorded(s, record[r]) /\ Held(s, vm'[r], mac'[r], mishaps.orderly)
    BY <1>1, <1>3, FailingStage
  <1> HIDE DEF s
  <1> QED
    BY <1>1, <1>3, <1>4, <1>5, <1>6, <1>7, StepOfOne

LEMMA CopyBackAlone ==
    ASSUME Alone, TypeOK, OneAtATime, NEW c \in Commands, CopyBack(c)
    PROVE  OneAtATime'
  <1> DEFINE r == RunOf[c]
             s == Writing(cmd[c], "ClearReturned")
  <1>1. /\ cmd[c] \in Command /\ r \in Runs
        /\ Staged(cmd[c]) /\ Recorded(cmd[c], record[r])
        /\ Kept(record[r], vm[r], mac[r])
        /\ mac[r] \in Mac
        /\ Unclaimed(record[r], vm[r], mishaps.orderly) => Launching(cmd[c])
    BY Before
  <1>2. cmd[c].pc = "copyBack"
    BY DEF CopyBack, At
  <1>3. cmd[c].phase = "apply" /\ record[r].state # "none" /\ ~Launching(cmd[c])
    BY <1>1, <1>2, StageOfStep, QuietSteps DEF Recorded
  <1>4. UNCHANGED <<record, vm, mishaps>> /\ OthersStay(c) /\ mac'[r].copied
    BY <1>1 DEF CopyBack, OthersStay, TypeOK, Mac
  <1>5. Kept(record[r], vm'[r], mac'[r])
    BY <1>1, <1>3, <1>4 DEF Kept
  <1>6. s \in Command /\ s.phase = "apply" /\ s.pc = "get" /\ s.write = "ClearReturned"
    BY <1>1, <1>3, WritingIs DEF Operation
  <1>7. Becomes(c, s)
    BY DEF CopyBack
  <1> HIDE DEF s
  <1>8. Staged(s) /\ Recorded(s, record[r]) /\ Held(s, vm'[r], mac'[r], mishaps.orderly)
    BY <1>3, <1>4, <1>6, ReturningStage
  <1> QED
    BY <1>1, <1>3, <1>4, <1>5, <1>7, <1>8, StepOfOne

LEMMA DeclineAlone ==
    ASSUME Alone, TypeOK, OneAtATime, NEW c \in Commands, DeclineApply(c)
    PROVE  OneAtATime'
  <1>1. ~Launching(cmd[c])
    BY QuietSteps DEF DeclineApply, At
  <1>2. Becomes(c, Idle) /\ UNCHANGED <<record, vm, mac, mishaps>>
    BY DEF DeclineApply
  <1> QED
    BY <1>1, <1>2, Before, IdleStage, StepOfOne DEF OthersStay

-----------------------------------------------------------------------------
(***************************************************************************)
(* The steps that reclaim what a run owns.                                 *)
(***************************************************************************)
LEMMA ReclaimAlone ==
    ASSUME Alone, TypeOK, OneAtATime, NEW c \in Commands, ReclaimContainer(c)
    PROVE  OneAtATime'
  <1> DEFINE r == RunOf[c]
             s == Goto(cmd[c], "dropStorage")
  <1>1. /\ cmd[c] \in Command /\ r \in Runs
        /\ Staged(cmd[c]) /\ Recorded(cmd[c], record[r])
        /\ Kept(record[r], vm[r], mac[r])
        /\ vm[r] \in VM
    BY Before
  <1>2. cmd[c].pc = "reclaim"
    BY DEF ReclaimContainer, At
  <1>3. cmd[c].phase \in {"create", "release"} /\ record[r].state # "none"
    BY <1>1, <1>2, StageOfStep DEF Recorded, Removals
  <1>4. /\ UNCHANGED <<record, mac>> /\ OthersStay(c)
        /\ vm'[r].container = "none"
        /\ vm'[r].storage = vm[r].storage
    BY <1>1 DEF ReclaimContainer, OthersStay, TypeOK, VM
  <1>5. Kept(record[r], vm'[r], mac'[r])
    BY <1>1, <1>3, <1>4 DEF Kept
  <1>6. s \in Command /\ s.phase = cmd[c].phase /\ s.pc = "dropStorage"
    BY <1>1, GotoIs DEF Step
  <1>7. Ends(c, s)
    BY DEF ReclaimContainer
  <1> HIDE DEF s
  <1>8. Staged(s) /\ Recorded(s, record[r]) /\ Held(s, vm'[r], mac'[r], mishaps.orderly)
    BY <1>3, <1>4, <1>6
    DEF Staged, Recorded, Held, Creating, Stopping, Persisting, Restarting, Capturing,
        Landing, Returning, Reclaiming, Leaving, Doing, Pending, Removals
  <1> QED
    BY <1>2, <1>4, <1>5, <1>7, <1>8, EndOfOne

LEMMA DropAlone ==
    ASSUME Alone, TypeOK, OneAtATime, NEW c \in Commands,
           DropStorage(c) \/ DropStage(c) \/ DropSsh(c)
    PROVE  OneAtATime'
  <1> DEFINE r == RunOf[c]
             s == AfterDrop(cmd[c])
  <1>1. /\ cmd[c] \in Command /\ r \in Runs
        /\ Staged(cmd[c]) /\ Recorded(cmd[c], record[r])
        /\ Held(cmd[c], vm[r], mac[r], mishaps.orderly)
        /\ Kept(record[r], vm[r], mac[r])
        /\ vm[r] \in VM /\ mac[r] \in Mac
    BY Before
  <1>2. cmd[c].pc \in {"dropStorage", "dropStage", "dropSsh"}
    BY DEF DropStorage, DropStage, DropSsh, At
  <1>3. /\ Reclaiming(cmd[c]) /\ record[r].state # "none"
        /\ vm[r].container = "none"
    BY <1>1, <1>2, StageOfStep DEF Recorded, Held, Removals
  <1>4. /\ cmd[c].phase = "release" /\ ~cmd[c].failed /\ cmd[c].pc \in {"dropStage", "dropSsh"} =>
             vm[r].storage = "none"
        /\ cmd[c].phase = "release" /\ ~cmd[c].failed /\ cmd[c].pc = "dropSsh" => ~vm[r].stage
    BY <1>1 DEF Held
  <1>5. /\ UNCHANGED record /\ OthersStay(c)
        /\ vm'[r].container = "none"
        /\ vm'[r].storage \in {vm[r].storage, "none"}
        /\ mac'[r].archive = mac[r].archive
        /\ mac'[r].copied = mac[r].copied
    BY <1>1, <1>3 DEF DropStorage, DropStage, DropSsh, OthersStay, TypeOK, VM, Mac
  <1>6. cmd[c].phase = "release" /\ ~cmd[c].failed =>
          /\ vm'[r].storage = "none"
          /\ cmd[c].pc \in {"dropStage", "dropSsh"} => ~vm'[r].stage
          /\ cmd[c].pc = "dropSsh" => ~mac'[r].ssh
    BY <1>1, <1>4 DEF DropStorage, DropStage, DropSsh, At, TypeOK, VM, Mac
  <1>7. Kept(record[r], vm'[r], mac'[r])
    BY <1>1, <1>3, <1>5 DEF Kept
  <1>8. Staged(s) /\ Recorded(s, record[r]) /\ Held(s, vm'[r], mac'[r], mishaps.orderly)
    BY <1>1, <1>2, <1>3, <1>5, <1>6, AfterDropStage
  <1>9. Ends(c, s)
    BY DEF DropStorage, DropStage, DropSsh
  <1> HIDE DEF s
  <1> QED
    BY <1>2, <1>5, <1>7, <1>8, <1>9, EndOfOne

LEMMA DropArchiveAlone ==
    ASSUME Alone, TypeOK, OneAtATime, NEW c \in Commands, DropArchive(c)
    PROVE  OneAtATime'
  <1> DEFINE r == RunOf[c]
             pc == IF cmd[c].phase = "release" THEN "forget" ELSE "put"
             s == Goto(cmd[c], pc)
  <1>1. /\ cmd[c] \in Command /\ r \in Runs
        /\ Staged(cmd[c]) /\ Recorded(cmd[c], record[r])
        /\ Held(cmd[c], vm[r], mac[r], mishaps.orderly)
        /\ Kept(record[r], vm[r], mac[r])
        /\ mac[r] \in Mac
        /\ Unclaimed(record[r], vm[r], mishaps.orderly) => Launching(cmd[c])
    BY Before
  <1>2. cmd[c].pc = "dropArchive"
    BY DEF DropArchive, At
  <1>3. \/ cmd[c].phase = "release" /\ Leaving(cmd[c])
        \/ cmd[c].phase = "apply" /\ cmd[c].write = "ClearReturned" /\ Returning(cmd[c])
    BY <1>1, <1>2, StageOfStep
  <1>4. /\ record[r].state # "none" /\ ~Launching(cmd[c])
        /\ cmd[c].phase = "release" =>
             vm[r].container = "none" /\ vm[r].storage = "none" /\ ~vm[r].stage /\ ~mac[r].ssh
        /\ cmd[c].phase = "apply" => mac[r].copied /\ cmd[c].seen = record[r]
    BY <1>1, <1>2, <1>3, QuietSteps DEF Recorded, Held
  <1>5. /\ UNCHANGED <<record, vm>> /\ OthersStay(c)
        /\ ~mac'[r].archive
        /\ mac'[r].copied = mac[r].copied
        /\ mac'[r].ssh = mac[r].ssh
    BY <1>1 DEF DropArchive, OthersStay, TypeOK, Mac
  <1>6. Kept(record[r], vm'[r], mac'[r])
    BY <1>1, <1>3, <1>4, <1>5 DEF Kept
  <1>7. /\ s \in Command /\ s.phase = cmd[c].phase /\ s.pc = pc
        /\ s.write = cmd[c].write /\ s.seen = cmd[c].seen
    BY <1>1, GotoIs DEF Step
  <1>8. Ends(c, s)
    BY DEF DropArchive
  <1> HIDE DEF s
  <1>9. Staged(s) /\ Recorded(s, record[r]) /\ Held(s, vm'[r], mac'[r], mishaps.orderly)
    BY <1>3, <1>4, <1>5, <1>7
    DEF Staged, Recorded, Held, Creating, Stopping, Persisting, Restarting, Capturing,
        Landing, Returning, Reclaiming, Leaving, Doing, Pending, Removals
  <1>10. cmd[c].pc # "idle" /\ ~(cmd[c].pc \in {"dropStorage", "dropStage", "dropSsh", "persist"})
    BY <1>2
  <1> QED
    BY <1>4, <1>5, <1>6, <1>8, <1>9, <1>10, EndOfOne

\* The record goes last: by then nothing the run owned is left.
LEMMA ForgetAlone ==
    ASSUME Alone, TypeOK, OneAtATime, NEW c \in Commands, Forget(c)
    PROVE  OneAtATime'
  <1> DEFINE r == RunOf[c]
  <1>1. /\ cmd[c] \in Command /\ r \in Runs
        /\ Staged(cmd[c])
        /\ Held(cmd[c], vm[r], mac[r], mishaps.orderly)
    BY Before
  <1>2. cmd[c].pc = "forget"
    BY DEF Forget, At
  <1>3. /\ cmd[c].phase = "release"
        /\ vm[r].container = "none" /\ vm[r].storage = "none" /\ ~vm[r].stage
        /\ ~mac[r].ssh /\ ~mac[r].archive
    BY <1>1, <1>2, StageOfStep DEF Held
  <1>4. UNCHANGED <<vm, mac>> /\ OthersStay(c) /\ record'[r] = NoRun
    BY <1>1 DEF Forget, OthersStay, TypeOK
  <1>5. Kept(record'[r], vm'[r], mac'[r])
    BY <1>3, <1>4 DEF Kept, NoRun
  <1>6. AfterFailure(cmd[c]) = Failing(cmd[c])
    BY <1>2 DEF AfterFailure
  <1>7. Becomes(c, Idle) \/ Becomes(c, Failing(cmd[c]))
    BY <1>6 DEF Forget, Ends, Fails
  <1>8. mishaps'.orderly => mishaps.orderly
    <2>1. CASE UNCHANGED mishaps
      BY <2>1
    <2>2. CASE Fails(c)
      BY <2>2 DEF Fails, Mishap
    <2> QED
      BY <2>1, <2>2 DEF Forget, Ends
  <1>9. ASSUME NEW s \in {Idle, Failing(cmd[c])}
        PROVE  /\ Staged(s) /\ Recorded(s, record'[r])
               /\ Held(s, vm'[r], mac'[r], mishaps'.orderly)
    BY <1>1, <1>3, IdleStage, FailingStage
  <1>10. ASSUME NEW s \in {Idle, Failing(cmd[c])}, Becomes(c, s)
         PROVE  OneAtATime'
    BY <1>3, <1>4, <1>5, <1>8, <1>9, <1>10, StepOfOne DEF Unclaimed
  <1> QED
    BY <1>7, <1>10

-----------------------------------------------------------------------------
(***************************************************************************)
(* The store's operations.                                                 *)
(***************************************************************************)
\* The command an accepted read makes of s.
Accepted(s, m) ==
    [s EXCEPT !.seen = m,
              !.pc = IF s.write = "ClearReturned" THEN "dropArchive" ELSE "put"]

LEMMA AcceptedIs ==
    ASSUME NEW s \in Command, NEW m \in Manifest
    PROVE  LET t == Accepted(s, m) IN
           /\ t \in Command
           /\ t.pc = IF s.write = "ClearReturned" THEN "dropArchive" ELSE "put"
           /\ t.phase = s.phase /\ t.write = s.write /\ t.seen = m
           /\ t.capability = s.capability /\ t.tip = s.tip /\ t.outputs = s.outputs
           /\ t.failed = s.failed
  <1>1. (IF s.write = "ClearReturned" THEN "dropArchive" ELSE "put") \in Step
    BY DEF Step
  <1> QED
    BY <1>1 DEF Accepted, Command

LEMMA ReadAlone ==
    ASSUME Alone, TypeOK, OneAtATime, NEW c \in Commands, ReadRecord(c)
    PROVE  OneAtATime'
  <1> DEFINE r == RunOf[c]
             m == record[r]
  <1>1. /\ cmd[c] \in Command /\ r \in Runs /\ m \in Manifest
        /\ Staged(cmd[c]) /\ Recorded(cmd[c], m)
        /\ Held(cmd[c], vm[r], mac[r], mishaps.orderly)
        /\ Kept(m, vm[r], mac[r])
        /\ Unclaimed(m, vm[r], mishaps.orderly) => Launching(cmd[c])
    BY Before
  <1>2. cmd[c].pc = "get" /\ UNCHANGED <<record, vm, mac, mishaps>>
    BY DEF ReadRecord, At
  <1>3. OthersStay(c)
    BY <1>2 DEF OthersStay
  <1>4. CASE Readable(m) /\ Becomes(c, Accepted(cmd[c], m))
    <2> DEFINE s == Accepted(cmd[c], m)
    <2>1. /\ s \in Command
          /\ s.pc = IF cmd[c].write = "ClearReturned" THEN "dropArchive" ELSE "put"
          /\ s.phase = cmd[c].phase /\ s.write = cmd[c].write /\ s.seen = m
          /\ s.capability = cmd[c].capability /\ s.tip = cmd[c].tip
          /\ s.outputs = cmd[c].outputs
      BY <1>1, AcceptedIs
    <2>2. Becomes(c, s)
      BY <1>4
    <2> HIDE DEF s
    <2>3. m.state # "none"
      BY <1>4 DEF Readable, State
    <2>4. Staged(s)
      BY <1>1, <1>2, <2>1
      DEF Staged, Creating, Stopping, Persisting, Restarting, TakingBack, Capturing, Landing,
          Returning, Reclaiming, Leaving, Doing, Removals
    <2>5. Recorded(s, m)
      BY <1>1, <1>2, <2>1, <2>3
      DEF Recorded, Creating, Stopping, Persisting, Restarting, Capturing, Doing
    <2>6. cmd[c].write = "ClearReturned" => cmd[c].phase = "apply" /\ Returning(cmd[c])
      BY <1>1, <1>2
      DEF Staged, Creating, Stopping, Persisting, Restarting, TakingBack, Capturing, Landing,
          Returning, Reclaiming, Leaving, Doing, Removals
    <2>7. Held(s, vm[r], mac[r], mishaps.orderly)
      BY <1>1, <1>2, <2>1, <2>6
      DEF Held, Creating, Stopping, Persisting, Capturing, Returning, Reclaiming, Leaving,
          Doing, Pending, Removals
    <2>8. Launching(cmd[c]) => Launching(s)
      BY <1>2, <2>1 DEF Launching, TakingBack, Doing
    <2> QED
      BY <1>1, <1>2, <1>3, <2>2, <2>4, <2>5, <2>7, <2>8, StepOfOne
  <1>5. CASE Becomes(c, AfterRefusal(cmd[c]))
    <2> DEFINE s == AfterRefusal(cmd[c])
    <2>1. cmd[c].write # "RecordError" => m.state # "none"
      BY <1>1, <1>2 DEF Recorded
    <2>2. Staged(s) /\ Recorded(s, m) /\ Held(s, vm[r], mac[r], mishaps.orderly)
      BY <1>1, <1>2, <2>1, AfterRefusalStage
    <2>3. s = AfterFailure(cmd[c]) /\ ~CleaningUp(cmd[c])
      BY <1>2 DEF AfterFailure, CleaningUp
    <2>4. Launching(cmd[c]) => Launching(s)
      BY <1>1, <2>3, AfterFailureLaunched
    <2>5. Becomes(c, s)
      BY <1>5
    <2> HIDE DEF s
    <2> QED
      BY <1>1, <1>2, <1>3, <2>2, <2>4, <2>5, StepOfOne
  <1> QED
    BY <1>4, <1>5 DEF ReadRecord, Accepted

\* What the command at "put" writes is about its own run, and fits its objects.
LEMMA WrittenKept ==
    ASSUME Alone, TypeOK, CommandsSound, OneAtATime, NEW c \in Commands, At(c, "put")
    PROVE  LET m == Written(cmd[c])
               r == RunOf[c]
           IN
           /\ m \in Manifest /\ m.state # "none"
           /\ Kept(m, vm[r], mac[r])
           /\ Unclaimed(m, vm[r], mishaps.orderly) => Unclaimed(record[r], vm[r], mishaps.orderly)
           /\ cmd[c].write \in {"Activate", "Resume"} => m.state = "active"
  <1> DEFINE r == RunOf[c]
             m == record[r]
             w == Written(cmd[c])
  <1>1. /\ cmd[c] \in Command /\ r \in Runs /\ m \in Manifest
        /\ vm[r] \in VM /\ mac[r] \in Mac
        /\ Staged(cmd[c]) /\ Recorded(cmd[c], m)
        /\ Held(cmd[c], vm[r], mac[r], mishaps.orderly)
        /\ Kept(m, vm[r], mac[r])
    BY Before
  <1>2. cmd[c].pc = "put"
    BY DEF At
  <1>3. cmd[c].seen = m /\ m.state # "none" /\ w \in Manifest
    BY <1>1, <1>2, WrittenType DEF Recorded, TypeOK
  <1>4. CASE cmd[c].write \in {"Activate", "Resume"}
    <2>1. w \in {Activated(m, cmd[c].capability), Resumed(m, cmd[c].capability)}
      BY <1>3, <1>4 DEF Written
    <2>2. /\ w.state = "active" /\ w.capability = cmd[c].capability
          /\ w.returned = m.returned
      BY <1>1, <2>1 DEF Activated, Resumed, Manifest
    <2>3. vm[r].offered => vm[r].told = cmd[c].capability
      BY <1>1, <1>2, <1>4 DEF Held, Pending, Doing
    <2>4. Kept(w, vm[r], mac[r])
      BY <1>1, <2>2, <2>3 DEF Kept
    <2> QED
      BY <1>3, <2>2, <2>4 DEF Unclaimed
  <1>5. CASE cmd[c].write = "Stop"
    <2>1. w = Stopped(m)
      BY <1>3, <1>5 DEF Written
    <2>2. w.state = "stopped" /\ w.capability = Nil /\ w.returned = m.returned
      BY <1>1, <2>1 DEF Stopped, Manifest
    <2>3. vm[r].container = "none"
      BY <1>1, <1>2, <1>5
      DEF Staged, Held, Creating, Stopping, Persisting, Restarting, TakingBack, Capturing,
          Landing, Returning, Reclaiming, Leaving, Doing, Removals
    <2>4. Kept(w, vm[r], mac[r])
      BY <1>1, <2>2, <2>3 DEF Kept
    <2> QED
      BY <1>3, <1>5, <2>2, <2>3, <2>4 DEF Unclaimed
  <1>6. CASE cmd[c].write = "BeginApply"
    <2>1. w = ApplyBegun(m, cmd[c].tip, cmd[c].outputs)
      BY <1>3, <1>6 DEF Written
    <2>2. m.state = "stopped"
      BY <1>2, <1>3, <1>6 DEF CommandsSound, Sound, Allowed
    <2>3. /\ w.state = "stopped" /\ w.capability = m.capability
          /\ w.returned = cmd[c].outputs
      BY <1>1, <2>1, <2>2 DEF ApplyBegun, Manifest
    <2>4. cmd[c].outputs => mac[r].archive
      BY <1>1, <1>2, <1>6 DEF Held, Doing
    <2>5. Kept(w, vm[r], mac[r])
      BY <1>1, <2>2, <2>3, <2>4 DEF Kept
    <2> QED
      BY <1>3, <1>6, <2>2, <2>3, <2>5 DEF Unclaimed
  <1>7. CASE cmd[c].write = "CompleteApply"
    <2>1. w = ApplyCompleted(m, clock)
      BY <1>3, <1>7 DEF Written
    <2>2. m.state = "stopped"
      BY <1>2, <1>3, <1>7 DEF CommandsSound, Sound, Allowed
    <2>3. /\ w.state = "imported" /\ w.capability = m.capability
          /\ w.returned = m.returned
      BY <1>1, <2>1 DEF ApplyCompleted, Manifest
    <2>4. Kept(w, vm[r], mac[r])
      BY <1>1, <2>2, <2>3 DEF Kept
    <2> QED
      BY <1>3, <1>7, <2>2, <2>3, <2>4 DEF Unclaimed
  <1>8. CASE cmd[c].write = "ClearReturned"
    <2>1. w = ReturnedCleared(m)
      BY <1>3, <1>8 DEF Written
    <2>2. /\ w.state = m.state /\ w.capability = m.capability /\ w.apply = m.apply
          /\ ~w.returned
      BY <1>1, <2>1 DEF ReturnedCleared, Manifest
    <2>3. Kept(w, vm[r], mac[r])
      BY <1>1, <1>3, <2>2 DEF Kept
    <2> QED
      BY <1>3, <1>8, <2>2, <2>3 DEF Unclaimed
  <1>9. CASE cmd[c].write \notin {"Activate", "Resume", "Stop", "BeginApply", "CompleteApply",
                                  "ClearReturned"}
    <2>1. w = m
      BY <1>3, <1>9 DEF Written
    <2> QED
      BY <1>1, <1>3, <1>9, <2>1
  <1> QED
    BY <1>4, <1>5, <1>6, <1>7, <1>8, <1>9

\* Where the command goes on after its write.
LEMMA AfterWriteStage ==
    ASSUME Alone, TypeOK, CommandsSound, OneAtATime, NEW c \in Commands, At(c, "put")
    PROVE  LET m == Written(cmd[c])
               t == AfterWrite(cmd[c], m)
               r == RunOf[c]
           IN
           Staged(t) /\ Recorded(t, m) /\ Held(t, vm[r], mac[r], mishaps.orderly)
  <1> DEFINE r == RunOf[c]
             m == record[r]
             w == Written(cmd[c])
             seen == [cmd[c] EXCEPT !.seen = w]
             t == AfterWrite(cmd[c], w)
  <1>1. /\ cmd[c] \in Command /\ r \in Runs /\ m \in Manifest
        /\ Staged(cmd[c]) /\ Recorded(cmd[c], m)
        /\ Held(cmd[c], vm[r], mac[r], mishaps.orderly)
    BY Before
  <1>2. cmd[c].pc = "put"
    BY DEF At
  <1>3. cmd[c].seen = m /\ w \in Manifest /\ w.state # "none"
    BY <1>1, <1>2, WrittenKept DEF Recorded
  <1>4. /\ seen \in Command /\ seen.phase = cmd[c].phase /\ seen.pc = cmd[c].pc
        /\ seen.seen = w /\ seen.tip = cmd[c].tip /\ seen.write = cmd[c].write
    BY <1>1, <1>3 DEF Command
  <1> HIDE DEF seen
  <1>5. /\ cmd[c].write \in {"Stop"} =>
             cmd[c].phase = "stop" /\ vm[r].container = "none"
        /\ cmd[c].write = "BeginApply" => cmd[c].phase = "apply" /\ Capturing(cmd[c])
        /\ cmd[c].write = "CompleteApply" => cmd[c].phase = "apply"
    BY <1>1, <1>2
    DEF Staged, Held, Creating, Stopping, Persisting, Restarting, TakingBack, Capturing,
        Landing, Returning, Reclaiming, Leaving, Doing, Removals
  <1>6. CASE cmd[c].write = "Stop"
    <2> DEFINE s == Entering(seen, "stop", "persist")
    <2>1. s \in Command /\ s.phase = "stop" /\ s.pc = "persist" /\ s.seen = w
      BY <1>4, EnteringIs, NamesOfSteps
    <2>2. t = s
      BY <1>6 DEF AfterWrite, seen
    <2> HIDE DEF s
    <2>3. m.state = "active" /\ Readable(m)
      BY <1>2, <1>3, <1>6 DEF CommandsSound, Sound, Allowed
    <2>4. w.state = "stopped" /\ w.apply = Nil
      BY <1>1, <1>3, <1>6, <2>3 DEF Written, Stopped, Manifest, Readable
    <2>5. Staged(s) /\ Recorded(s, w) /\ Held(s, vm[r], mac[r], mishaps.orderly)
      BY <1>5, <1>6, <2>1, <2>4
      DEF Staged, Recorded, Held, Creating, Stopping, Persisting, Restarting, Capturing,
          Landing, Returning, Reclaiming, Leaving, Doing, Pending, Removals
    <2> QED
      BY <2>2, <2>5
  <1>7. CASE cmd[c].write = "BeginApply"
    <2> DEFINE s == Goto(seen, "commit")
    <2>1. /\ s \in Command /\ s.phase = cmd[c].phase /\ s.pc = "commit" /\ s.seen = w
          /\ s.tip = cmd[c].tip
      BY <1>4, GotoIs DEF Step
    <2>2. t = s
      BY <1>7 DEF AfterWrite, seen
    <2> HIDE DEF s
    <2>3. mishaps.orderly => vm[r].container # "running" /\ cmd[c].tip = vm[r].work
      BY <1>1, <1>2, <1>5, <1>7 DEF Held
    <2>4. Staged(s) /\ Recorded(s, w) /\ Held(s, vm[r], mac[r], mishaps.orderly)
      BY <1>3, <1>5, <1>7, <2>1, <2>3, LandingStage
    <2> QED
      BY <2>2, <2>4
  <1>8. CASE cmd[c].write = "CompleteApply" /\ w.returned
    <2> DEFINE s == Goto(seen, "copyBack")
    <2>1. s \in Command /\ s.phase = cmd[c].phase /\ s.pc = "copyBack"
      BY <1>4, GotoIs DEF Step
    <2>2. t = s
      BY <1>8 DEF AfterWrite, seen
    <2> HIDE DEF s
    <2>3. Staged(s) /\ Recorded(s, w) /\ Held(s, vm[r], mac[r], mishaps.orderly)
      BY <1>3, <1>5, <1>8, <2>1, ReturningStage
    <2> QED
      BY <2>2, <2>3
  <1>9. CASE cmd[c].write = "RecordError" /\ cmd[c].phase = "persist"
    <2>1. m.state = "stopped" /\ m.apply = Nil /\ vm[r].container = "none"
      BY <1>1, <1>2, <1>9 DEF Recorded, Held, Persisting, Doing
    <2>2. w = m
      BY <1>3, <1>9 DEF Written
    <2>3. t = AfterStop(cmd[c], w)
      BY <1>9 DEF AfterWrite
    <2> QED
      BY <1>1, <2>1, <2>2, <2>3, AfterStopStage DEF TypeOK
  <1>10. CASE /\ cmd[c].write \notin {"Stop", "BeginApply"}
              /\ ~(cmd[c].write = "CompleteApply" /\ w.returned)
              /\ ~(cmd[c].write = "RecordError" /\ cmd[c].phase = "persist")
    <2>1. t = Idle
      BY <1>10 DEF AfterWrite
    <2> QED
      BY <2>1, IdleStage
  <1> QED
    BY <1>6, <1>7, <1>8, <1>9, <1>10

LEMMA WriteAlone ==
    ASSUME Alone, TypeOK, CommandsSound, OneAtATime, NEW c \in Commands,
           ReplaceRecord(c) \/ WriteUnsynced(c)
    PROVE  OneAtATime'
  <1> DEFINE r == RunOf[c]
             w == Written(cmd[c])
  <1>1. /\ cmd[c] \in Command /\ r \in Runs /\ Staged(cmd[c])
        /\ Unclaimed(record[r], vm[r], mishaps.orderly) => Launching(cmd[c])
    BY Before
  <1>2. At(c, "put") /\ UNCHANGED <<vm, mac>> /\ record' = [record EXCEPT ![r] = w]
    BY DEF ReplaceRecord, WriteUnsynced
  <1>3. record'[r] = w /\ OthersStay(c)
    BY <1>1, <1>2 DEF OthersStay, TypeOK
  <1>4. /\ w.state # "none" /\ Kept(w, vm[r], mac[r])
        /\ Unclaimed(w, vm[r], mishaps.orderly) => Unclaimed(record[r], vm[r], mishaps.orderly)
        /\ cmd[c].write \in {"Activate", "Resume"} => w.state = "active"
    BY <1>2, WrittenKept
  <1>5. ~Unclaimed(w, vm[r], mishaps.orderly)
    <2>1. CASE cmd[c].write \in {"Activate", "Resume"}
      BY <1>4, <2>1 DEF Unclaimed
    <2>2. CASE cmd[c].write \notin {"Activate", "Resume"}
      <3>1. ~Launching(cmd[c])
        BY <1>2, <2>2, QuietSteps DEF At
      <3> QED
        BY <1>1, <1>4, <3>1
    <2> QED
      BY <2>1, <2>2
  <1>6. CASE ReplaceRecord(c)
    <2> DEFINE s == AfterWrite(cmd[c], w)
    <2>1. Staged(s) /\ Recorded(s, w) /\ Held(s, vm[r], mac[r], mishaps.orderly)
      BY <1>2, AfterWriteStage
    <2>2. Becomes(c, s) /\ UNCHANGED mishaps
      BY <1>6 DEF ReplaceRecord
    <2> HIDE DEF s, w
    <2> QED
      BY <1>2, <1>3, <1>4, <1>5, <2>1, <2>2, StepOfOne
  <1>7. CASE WriteUnsynced(c)
    <2> DEFINE s == AfterRefusal(cmd[c])
    <2>1. Staged(s) /\ Recorded(s, w) /\ Held(s, vm[r], mac[r], FALSE)
      BY <1>1, <1>2, <1>4, AfterRefusalStage DEF At
    <2>2. Becomes(c, s) /\ mishaps'.orderly = FALSE
      BY <1>7 DEF WriteUnsynced, Mishap
    <2> HIDE DEF s, w
    <2> QED
      BY <1>2, <1>3, <1>4, <2>1, <2>2, StepOfOne DEF Unclaimed
  <1> QED
    BY <1>6, <1>7

-----------------------------------------------------------------------------
(***************************************************************************)
(* Mishaps, and what a run does by itself.                                 *)
(***************************************************************************)
LEMMA RefusedAlone ==
    ASSUME Alone, TypeOK, OneAtATime, NEW c \in Commands, StepIsRefused(c)
    PROVE  OneAtATime'
  <1> DEFINE r == RunOf[c]
             s == AfterFailure(cmd[c])
  <1>1. /\ cmd[c] \in Command /\ r \in Runs
        /\ Staged(cmd[c]) /\ Recorded(cmd[c], record[r])
        /\ Held(cmd[c], vm[r], mac[r], mishaps.orderly)
        /\ Kept(record[r], vm[r], mac[r])
        /\ Unclaimed(record[r], vm[r], mishaps.orderly) => Launching(cmd[c])
    BY Before
  <1>2. cmd[c].pc \in {"storage", "run", "materialize", "configure", "verify", "check",
                       "capture", "import", "commit", "dropStorage", "forget"}
    BY DEF StepIsRefused, Impossible, At
  <1>3. cmd[c].pc # "dropStorage"
    <2>1. ASSUME cmd[c].pc = "dropStorage"
          PROVE  vm[r].container = "none"
      BY <1>1, <2>1, StageOfStep DEF Held, Removals
    <2> QED
      BY <2>1 DEF StepIsRefused, Impossible, At
  <1>4. Staged(s) /\ Recorded(s, record[r]) /\ Held(s, vm[r], mac[r], mishaps.orderly)
    BY <1>1, <1>2, <1>3, AfterFailureStage
  <1>5. ~CleaningUp(cmd[c])
    BY <1>2, <1>3 DEF CleaningUp
  <1>6. Launching(cmd[c]) => Launching(s)
    BY <1>1, <1>5, AfterFailureLaunched
  <1>7. Becomes(c, s) /\ UNCHANGED <<record, vm, mac, mishaps>>
    BY DEF StepIsRefused
  <1> HIDE DEF s
  <1> QED
    BY <1>1, <1>4, <1>6, <1>7, StepOfOne DEF OthersStay

LEMMA FailsAlone ==
    ASSUME Alone, TypeOK, OneAtATime, NEW c \in Commands, StepFails(c)
    PROVE  OneAtATime'
  <1> DEFINE r == RunOf[c]
  <1>1. /\ Staged(cmd[c])
        /\ Held(cmd[c], vm[r], mac[r], mishaps.orderly)
        /\ Kept(record[r], vm[r], mac[r])
    BY Before
  <1>2. cmd[c].pc # "idle" /\ Fails(c) /\ UNCHANGED <<record, vm, mac>>
    BY DEF StepFails, At
  <1>3. cmd[c].pc \in {"dropStorage", "dropStage", "dropSsh", "persist"} =>
          vm[r].container = "none"
    BY <1>1, StageOfStep DEF Held, Removals
  <1> QED
    BY <1>1, <1>2, <1>3, FailureOfOne DEF OthersStay

LEMMA KilledAlone ==
    ASSUME Alone, TypeOK, OneAtATime, NEW c \in Commands, Killed(c)
    PROVE  OneAtATime'
  <1> DEFINE r == RunOf[c]
  <1>1. Kept(record[r], vm[r], mac[r])
    BY Before
  <1>2. /\ Becomes(c, Idle) /\ UNCHANGED <<record, vm, mac>>
        /\ mishaps'.orderly = FALSE
    BY DEF Killed, Mishap
  <1>3. Staged(Idle) /\ Recorded(Idle, record[r]) /\ Held(Idle, vm[r], mac[r], mishaps'.orderly)
    BY IdleStage
  <1> QED
    BY <1>1, <1>2, <1>3, StepOfOne DEF OthersStay, Unclaimed

\* What a run does by itself takes nothing from what a command relies on.
Calmer(v, w) ==
    /\ v.container = "none" => w.container = "none"
    /\ w.container = "running" => v.container = "running"
    /\ v.container # "running" => w.work = v.work
    /\ (w.storage = "none") = (v.storage = "none")
    /\ w.stage = v.stage /\ w.told = v.told
    /\ w.offered = v.offered /\ w.reopened = v.reopened

LEMMA CalmerHeld ==
    ASSUME NEW s, NEW v, NEW w, Calmer(v, w), NEW a, NEW calm, Held(s, v, a, calm)
    PROVE  Held(s, w, a, calm)
  BY DEF Held, Calmer

LEMMA CalmerKept ==
    ASSUME NEW m, NEW v, NEW w, Calmer(v, w), NEW a, Kept(m, v, a)
    PROVE  Kept(m, w, a)
  BY DEF Kept, Calmer

LEMMA SurroundingsCalmer ==
    ASSUME TypeOK, VmGoesDown \/ Tick \/ \E r \in Runs : AgentWorks(r) \/ ContainerExits(r)
    PROVE  /\ UNCHANGED <<record, mac, cmd>>
           /\ mishaps'.orderly => mishaps.orderly
           /\ \A r \in Runs : Calmer(vm[r], vm'[r])
  <1>1. vm \in [Runs -> VM]
    BY DEF TypeOK
  <1>2. CASE VmGoesDown
    <2>1. PICK recreated \in BOOLEAN :
            vm' = [r \in Runs |->
                     [vm[r] EXCEPT
                        !.container = IF recreated \/ @ = "none" THEN "none" ELSE "exited",
                        !.storage = IF @ = "none" THEN "none" ELSE "unmounted"]]
      BY <1>2 DEF VmGoesDown
    <2>2. ASSUME NEW r \in Runs
          PROVE  Calmer(vm[r], vm'[r])
      <3>1. vm[r] \in VM
        BY <1>1
      <3>2. /\ vm'[r].container = IF recreated \/ vm[r].container = "none"
                                  THEN "none" ELSE "exited"
            /\ vm'[r].storage = IF vm[r].storage = "none" THEN "none" ELSE "unmounted"
            /\ vm'[r].stage = vm[r].stage
            /\ vm'[r].told = vm[r].told
            /\ vm'[r].offered = vm[r].offered
            /\ vm'[r].reopened = vm[r].reopened
            /\ vm'[r].work = vm[r].work
        BY <2>1, <3>1 DEF VM
      <3> QED
        BY <3>2 DEF Calmer
    <2> QED
      BY <1>2, <2>2 DEF VmGoesDown, Mishap
  <1>3. CASE Tick
    <2>1. ASSUME NEW r \in Runs
          PROVE  Calmer(vm[r], vm'[r])
      BY <1>1, <1>3 DEF Tick, VM, Calmer
    <2> QED
      BY <1>3, <2>1 DEF Tick
  <1>4. ASSUME NEW q \in Runs, AgentWorks(q) \/ ContainerExits(q)
        PROVE  \A r \in Runs : Calmer(vm[r], vm'[r])
    BY <1>1, <1>4 DEF AgentWorks, ContainerExits, VM, Calmer
  <1>5. ASSUME NEW q \in Runs, AgentWorks(q) \/ ContainerExits(q)
        PROVE  UNCHANGED <<record, mac, cmd, mishaps>>
    BY <1>5 DEF AgentWorks, ContainerExits
  <1> QED
    BY <1>2, <1>3, <1>4, <1>5

LEMMA SurroundingsAlone ==
    ASSUME TypeOK, OneAtATime,
           VmGoesDown \/ Tick \/ \E r \in Runs : AgentWorks(r) \/ ContainerExits(r)
    PROVE  OneAtATime'
  <1>1. /\ UNCHANGED <<record, mac, cmd>>
        /\ mishaps'.orderly => mishaps.orderly
        /\ \A r \in Runs : Calmer(vm[r], vm'[r])
    BY SurroundingsCalmer
  <1>2. ASSUME NEW c \in Commands
        PROVE  /\ Staged(cmd'[c])
               /\ Recorded(cmd'[c], record'[RunOf[c]])
               /\ Held(cmd'[c], vm'[RunOf[c]], mac'[RunOf[c]], mishaps'.orderly)
    <2>1. /\ Staged(cmd[c]) /\ Recorded(cmd[c], record[RunOf[c]])
          /\ Held(cmd[c], vm[RunOf[c]], mac[RunOf[c]], mishaps.orderly)
          /\ RunOf[c] \in Runs
      BY CommandsAssumption DEF OneAtATime
    <2>2. Held(cmd[c], vm[RunOf[c]], mac[RunOf[c]], mishaps'.orderly)
      BY <1>1, <2>1, HeldWhenLessCalm
    <2>3. Held(cmd[c], vm'[RunOf[c]], mac[RunOf[c]], mishaps'.orderly)
      BY <1>1, <2>1, <2>2, CalmerHeld
    <2> QED
      BY <1>1, <2>1, <2>3
  <1>3. ASSUME NEW r \in Runs
        PROVE  Kept(record'[r], vm'[r], mac'[r]) /\ Launched(r)'
    <2>1. Kept(record[r], vm[r], mac[r]) /\ Launched(r) /\ Calmer(vm[r], vm'[r])
      BY <1>1 DEF OneAtATime
    <2>2. Kept(record[r], vm'[r], mac[r])
      BY <2>1, CalmerKept
    <2>3. Launched(r)'
      BY <1>1, <2>1 DEF Launched, Unclaimed, Calmer
    <2> QED
      BY <1>1, <2>2, <2>3
  <1> QED
    BY <1>2, <1>3 DEF OneAtATime

-----------------------------------------------------------------------------
(***************************************************************************)
(* The invariant of one command at a time.                                 *)
(***************************************************************************)
LEMMA InitAlone == Init => OneAtATime
  <1> SUFFICES ASSUME Init
               PROVE  OneAtATime
    OBVIOUS
  <1>1. \A c \in Commands : cmd[c] = Idle
    BY DEF Init
  <1>2. \A r \in Runs : Kept(record[r], vm[r], mac[r]) /\ vm[r].container = "none"
    BY DEF Init, Kept, NoRun, Nil
  <1> QED
    BY <1>1, <1>2, IdleStage DEF OneAtATime, Launched, Unclaimed

LEMMA ProceedsAlone ==
    ASSUME Alone, TypeOK, CommandsSound, OneAtATime, NEW c \in Commands, Proceeds(c)
    PROVE  OneAtATime'
  BY CreationAlone, RunContainerAlone, ConfigureAlone, TakeDownAlone, VerifyAlone,
     PersistAlone, CheckResumeAlone, CaptureAlone, ImportAlone, CommitAlone, RollbackAlone,
     CopyBackAlone, DeclineAlone, ReclaimAlone, DropAlone, DropArchiveAlone, ForgetAlone,
     ReadAlone, WriteAlone, RefusedAlone
  DEF Proceeds

LEMMA NextAlone ==
    ASSUME Alone
    PROVE  TypeOK /\ CommandsSound /\ OneAtATime /\ PlansAreCurrent /\ [Next]_vars
             => OneAtATime'
  <1> SUFFICES ASSUME TypeOK, CommandsSound, OneAtATime, PlansAreCurrent, [Next]_vars
               PROVE  OneAtATime'
    OBVIOUS
  <1>1. CASE UNCHANGED vars
    BY <1>1 DEF vars, OneAtATime, Launched
  <1>2. CASE Next
    BY <1>2, BeginsAlone, ProceedsAlone, FailsAlone, WriteAlone, KilledAlone,
       SurroundingsAlone DEF Next
  <1> QED
    BY <1>1, <1>2

-----------------------------------------------------------------------------
(***************************************************************************)
(* A plan stays current.  It is recorded over a workspace at rest; whoever *)
(* writes the record afterwards keeps the plan or ends it, and whoever     *)
(* brings a container back over it has reopened the run.                   *)
(***************************************************************************)
\* A workspace no container writes to stays as it is.
AtRest(v, w) ==
    /\ w.reopened = v.reopened
    /\ v.container # "running" => w.container # "running" /\ w.work = v.work

LEMMA ProceedsAtRest ==
    ASSUME TypeOK, NEW c \in Commands, Proceeds(c), ~RunContainer(c), NEW r \in Runs
    PROVE  AtRest(vm[r], vm'[r])
  <1> USE DEF AtRest
  <1>1. vm \in [Runs -> VM] /\ RunOf[c] \in Runs /\ vm[r] \in VM /\ vm[RunOf[c]] \in VM
    BY CommandsAssumption DEF TypeOK
  <1>2. CASE UNCHANGED vm
    BY <1>2
  <1>3. CASE CreateStage(c) \/ CreateRunStorage(c) \/ DropStage(c)
    BY <1>1, <1>3 DEF CreateStage, CreateRunStorage, DropStage, VM
  <1>4. CASE Materialize(c)
    BY <1>1, <1>4 DEF Materialize, VM
  <1>5. CASE Configure(c)
    <2>1. PICK offered \in BOOLEAN :
            vm' = [vm EXCEPT ![RunOf[c]].told = IF offered THEN issued + 1 ELSE @,
                             ![RunOf[c]].offered = offered]
      BY <1>5 DEF Configure
    <2> QED
      BY <1>1, <2>1 DEF VM
  <1>6. CASE VerifyRunStorage(c) \/ CheckResume(c) \/ CaptureResult(c)
    <2>1. vm' = [vm EXCEPT ![RunOf[c]].storage = "mounted"]
      BY <1>6 DEF VerifyRunStorage, CheckResume, CaptureResult, Mounted
    <2>2. /\ vm'[r].reopened = vm[r].reopened
          /\ vm'[r].container = vm[r].container
          /\ vm'[r].work = vm[r].work
      BY <1>1, <2>1 DEF VM
    <2> QED
      BY <2>2
  <1>7. CASE StopContainer(c) \/ RemoveContainer(c) \/ ReclaimContainer(c)
    BY <1>1, <1>7 DEF StopContainer, RemoveContainer, ReclaimContainer, VM
  <1>8. CASE DropStorage(c)
    BY <1>1, <1>8 DEF DropStorage, VM
  <1>9. CASE PrepareSsh(c) \/ Persist(c) \/ ImportResult(c) \/ CommitResult(c)
             \/ RollbackResult(c) \/ CopyBack(c) \/ DeclineApply(c) \/ DropSsh(c)
             \/ DropArchive(c) \/ Forget(c) \/ ReadRecord(c) \/ ReplaceRecord(c)
             \/ StepIsRefused(c)
    <2>1. UNCHANGED vm
      BY <1>9 DEF PrepareSsh, Persist, ImportResult, CommitResult, RollbackResult, CopyBack,
                  DeclineApply, DropSsh, DropArchive, Forget, ReadRecord, ReplaceRecord,
                  StepIsRefused
    <2> QED
      BY <1>2, <2>1
  <1> QED
    BY <1>3, <1>4, <1>5, <1>6, <1>7, <1>8, <1>9 DEF Proceeds

LEMMA NextAtRest ==
    ASSUME TypeOK, [Next]_vars, \A c \in Commands : ~RunContainer(c)
    PROVE  \A r \in Runs : AtRest(vm[r], vm'[r])
  <1>1. CASE UNCHANGED vm
    BY <1>1 DEF AtRest
  <1>2. ASSUME NEW c \in Commands, Proceeds(c)
        PROVE  \A r \in Runs : AtRest(vm[r], vm'[r])
    BY <1>2, ProceedsAtRest
  <1>3. ASSUME NEW c \in Commands,
               Begins(c) \/ StepFails(c) \/ WriteUnsynced(c) \/ Killed(c)
        PROVE  UNCHANGED vm
    BY <1>3 DEF Begins, BeginStart, BeginByStopping, BeginResume, BeginApply, BeginDiscard,
                StepFails, WriteUnsynced, Killed
  <1>4. CASE VmGoesDown \/ Tick \/ \E r \in Runs : AgentWorks(r) \/ ContainerExits(r)
    BY <1>4, SurroundingsCalmer DEF Calmer, AtRest
  <1> QED
    BY <1>1, <1>2, <1>3, <1>4 DEF Next, vars

\* A plan appears in one way: BeginApply records what it captured.
LEMMA PlanOfWrite ==
    ASSUME Alone, TypeOK, CommandsSound, OneAtATime, NEW c \in Commands,
           ReplaceRecord(c) \/ WriteUnsynced(c), NEW r \in Runs
    PROVE  \/ record'[r].apply \in {Nil, record[r].apply}
           \/ mishaps.orderly =>
                vm[r].container # "running" /\ record'[r].apply = vm[r].work
  <1> DEFINE q == RunOf[c]
             m == record[q]
             w == Written(cmd[c])
  <1>1. /\ cmd[c] \in Command /\ q \in Runs /\ m \in Manifest
        /\ Staged(cmd[c]) /\ Recorded(cmd[c], m)
        /\ Held(cmd[c], vm[q], mac[q], mishaps.orderly)
    BY Before
  <1>2. cmd[c].pc = "put" /\ record' = [record EXCEPT ![q] = w]
    BY DEF ReplaceRecord, WriteUnsynced, At
  <1>3. cmd[c].seen = m
    BY <1>1, <1>2 DEF Recorded
  <1>4. CASE r # q
    BY <1>2, <1>4 DEF TypeOK
  <1>5. CASE r = q /\ cmd[c].write = "BeginApply"
    <2>1. Capturing(cmd[c])
      BY <1>1, <1>2, <1>5
      DEF Staged, Creating, Stopping, Persisting, Restarting, TakingBack, Capturing,
          Landing, Returning, Reclaiming, Leaving, Doing, Removals
    <2>2. mishaps.orderly => vm[r].container # "running" /\ cmd[c].tip = vm[r].work
      BY <1>1, <1>2, <1>5, <2>1 DEF Held
    <2>3. w.apply = cmd[c].tip
      BY <1>1, <1>3, <1>5 DEF Written, ApplyBegun, Manifest
    <2> QED
      BY <1>1, <1>2, <1>5, <2>2, <2>3 DEF TypeOK
  <1>6. CASE r = q /\ cmd[c].write # "BeginApply"
    <2>1. w \in {Activated(m, cmd[c].capability), Stopped(m), Resumed(m, cmd[c].capability),
                 ApplyCompleted(m, clock), ReturnedCleared(m), m}
      BY <1>3, <1>6 DEF Written
    <2>2. w.apply \in {Nil, m.apply}
      BY <1>1, <2>1
      DEF Activated, Stopped, Resumed, ApplyCompleted, ReturnedCleared, Manifest
    <2> QED
      BY <1>1, <1>2, <1>6, <2>2 DEF TypeOK
  <1> QED
    BY <1>4, <1>5, <1>6

\* The steps that write a record.
Recording(c) == BeginStart(c) \/ Forget(c) \/ ReplaceRecord(c) \/ WriteUnsynced(c)

LEMMA OnlyRecordingWrites ==
    ASSUME [Next]_vars, \A c \in Commands : ~Recording(c)
    PROVE  UNCHANGED <<record, revoked>>
  <1>1. ASSUME NEW c \in Commands,
               Begins(c) \/ Proceeds(c) \/ StepFails(c) \/ WriteUnsynced(c) \/ Killed(c)
        PROVE  UNCHANGED <<record, revoked>>
    BY <1>1 DEF Recording, Begins, BeginByStopping, BeginResume, BeginApply, BeginDiscard,
                Proceeds, PrepareSsh, CreateStage, CreateRunStorage, RunContainer, Materialize,
                Configure, StopContainer, RemoveContainer, VerifyRunStorage, Persist,
                CheckResume, CaptureResult, ImportResult, CommitResult, RollbackResult,
                CopyBack, DeclineApply, ReclaimContainer, DropStorage, DropStage, DropSsh,
                DropArchive, ReadRecord, StepIsRefused, StepFails, Killed
  <1>2. CASE VmGoesDown \/ Tick \/ \E r \in Runs : AgentWorks(r) \/ ContainerExits(r)
    BY <1>2 DEF VmGoesDown, Tick, AgentWorks, ContainerExits
  <1>3. CASE UNCHANGED vars
    BY <1>3 DEF vars
  <1> QED
    BY <1>1, <1>2, <1>3 DEF Next

\* What is not calm any more never is again.
LEMMA CalmStays ==
    ASSUME TypeOK, [Next]_vars, mishaps'.orderly
    PROVE  mishaps.orderly
  <1>1. ASSUME NEW kind, Mishap(kind)
        PROVE  mishaps.orderly
    BY <1>1 DEF Mishap
  <1>2. ASSUME NEW c \in Commands, NEW s, Ends(c, s)
        PROVE  mishaps.orderly
    BY <1>1, <1>2 DEF Ends, Fails
  <1>3. ASSUME NEW c \in Commands, Begins(c)
        PROVE  UNCHANGED mishaps
    BY <1>3 DEF Begins, BeginStart, BeginByStopping, BeginResume, BeginApply, BeginDiscard
  <1>4. ASSUME NEW c \in Commands, Proceeds(c)
        PROVE  mishaps.orderly
    BY <1>1, <1>2, <1>4
    DEF Proceeds, PrepareSsh, CreateStage, CreateRunStorage, RunContainer, Materialize,
        Configure, StopContainer, RemoveContainer, VerifyRunStorage, Persist,
        CheckResume, CaptureResult, ImportResult, CommitResult, RollbackResult,
        CopyBack, DeclineApply, ReclaimContainer, DropStorage, DropStage, DropSsh,
        DropArchive, Forget, ReadRecord, ReplaceRecord, StepIsRefused
  <1>5. ASSUME NEW c \in Commands, StepFails(c) \/ WriteUnsynced(c) \/ Killed(c)
        PROVE  mishaps.orderly
    BY <1>1, <1>5 DEF StepFails, Fails, WriteUnsynced, Killed
  <1>6. CASE VmGoesDown \/ Tick \/ \E r \in Runs : AgentWorks(r) \/ ContainerExits(r)
    BY <1>6, SurroundingsCalmer
  <1>7. CASE UNCHANGED vars
    BY <1>7 DEF vars
  <1> QED
    BY <1>3, <1>4, <1>5, <1>6, <1>7 DEF Next

LEMMA NextKeepsPlans ==
    ASSUME Alone
    PROVE  TypeOK /\ CommandsSound /\ OneAtATime /\ PlansAreCurrent /\ [Next]_vars
             => PlansAreCurrent'
  <1> SUFFICES ASSUME TypeOK, CommandsSound, OneAtATime, PlansAreCurrent, [Next]_vars,
                      NEW r \in Runs, mishaps'.orderly, record'[r].apply # Nil,
                      ~vm'[r].reopened
               PROVE  vm'[r].container # "running" /\ record'[r].apply = vm'[r].work
    BY DEF PlansAreCurrent
  <1>1. mishaps.orderly
    BY CalmStays
  <1>2. ASSUME NEW c \in Commands, RunContainer(c)
        PROVE  vm'[r].container # "running" /\ record'[r].apply = vm'[r].work
    <2>1. RunOf[c] \in Runs /\ vm[RunOf[c]] \in VM /\ UNCHANGED record
      BY <1>2, CommandsAssumption DEF RunContainer, TypeOK
    <2>2. CASE r = RunOf[c]
      BY <1>2, <2>1, <2>2 DEF RunContainer, TypeOK, VM
    <2>3. CASE r # RunOf[c]
      BY <1>1, <1>2, <2>1, <2>3 DEF RunContainer, TypeOK, PlansAreCurrent
    <2> QED
      BY <2>2, <2>3
  <1>3. CASE \A c \in Commands : ~RunContainer(c)
    <2>1. AtRest(vm[r], vm'[r])
      BY <1>3, NextAtRest
    <2>2. CASE record'[r].apply = record[r].apply
      BY <1>1, <2>1, <2>2 DEF PlansAreCurrent, AtRest
    <2>3. CASE vm[r].container # "running" /\ record'[r].apply = vm[r].work
      BY <2>1, <2>3 DEF AtRest
    <2>4. ASSUME NEW c \in Commands, BeginStart(c) \/ Forget(c)
          PROVE  record'[r].apply \in {Nil, record[r].apply}
      <3>1. RunOf[c] \in Runs /\ record \in [Runs -> Manifest]
        BY CommandsAssumption DEF TypeOK
      <3>2. Created(clock).apply = Nil /\ NoRun.apply = Nil
        BY DEF Created, NoRun
      <3> QED
        BY <2>4, <3>1, <3>2 DEF BeginStart, Forget
    <2>5. ASSUME NEW c \in Commands, ReplaceRecord(c) \/ WriteUnsynced(c)
          PROVE  \/ record'[r].apply \in {Nil, record[r].apply}
                 \/ vm[r].container # "running" /\ record'[r].apply = vm[r].work
      BY <1>1, <2>5, PlanOfWrite
    <2> QED
      BY <2>2, <2>3, <2>4, <2>5, OnlyRecordingWrites DEF Recording
  <1> QED
    BY <1>2, <1>3

-----------------------------------------------------------------------------
(***************************************************************************)
(* Capabilities.  One is issued by Configure, written by the Activate or   *)
(* the Resume that follows it, and taken back by the write that ends its   *)
(* stretch.  What is about to be written was never in a record before.     *)
(***************************************************************************)
LEMMA QuietNotPending ==
    ASSUME NEW s, s.pc \notin {"get", "put"} \/ s.write \notin {"Activate", "Resume"}
    PROVE  ~Pending(s)
  BY DEF Pending, Doing

LEMMA FailingNotPending == ASSUME NEW s \in Command PROVE ~Pending(Failing(s))
  BY FailingIs, QuietNotPending

LEMMA GotoNotPending ==
    ASSUME NEW s \in Command, NEW pc \in Step \ {"get", "put"}
    PROVE  ~Pending(Goto(s, pc))
  BY GotoIs, QuietNotPending

LEMMA EnteringNotPending ==
    ASSUME NEW s \in Command, NEW phase \in Phase, NEW pc \in Step \ {"get", "put"}
    PROVE  ~Pending(Entering(s, phase, pc))
  BY EnteringIs, QuietNotPending

LEMMA WritingNotPending ==
    ASSUME NEW s \in Command, NEW operation \in Operation \ {"Activate", "Resume"}
    PROVE  ~Pending(Writing(s, operation))
  BY WritingIs, QuietNotPending

LEMMA IdleNotPending == ~Pending(Idle)
  BY IdleIs, QuietNotPending

LEMMA ReleasingNotPending == ASSUME NEW s \in Command PROVE ~Pending(Releasing(s))
  <1>1. Releasing(s).pc = "reclaim"
    BY DEF Releasing, Entering, Command
  <1> QED
    BY <1>1, QuietNotPending

LEMMA ResumingNotPending ==
    ASSUME NEW s \in Command, NEW m \in Manifest PROVE ~Pending(Resuming(s, m))
  <1>1. Resuming(s, m).pc = "check"
    BY DEF Resuming, Entering, Command
  <1> QED
    BY <1>1, QuietNotPending

LEMMA ApplyingNotPending ==
    ASSUME NEW s \in Command, NEW m \in Manifest PROVE ~Pending(Applying(s, m))
  <1>1. Applying(s, m).pc \in {"commit", "capture"}
    BY DEF Applying, Entering, Command
  <1> QED
    BY <1>1, QuietNotPending

LEMMA AfterStopNotPending ==
    ASSUME NEW s \in Command, NEW m \in Manifest PROVE ~Pending(AfterStop(s, m))
  <1>1. AfterStop(s, m) \in {Idle, Releasing(s), Applying(s, m), Resuming(s, m)}
    BY DEF AfterStop
  <1> QED
    BY <1>1, IdleNotPending, ReleasingNotPending, ApplyingNotPending, ResumingNotPending

LEMMA AfterRefusalNotPending == ASSUME NEW s \in Command PROVE ~Pending(AfterRefusal(s))
  <1>1. AfterRefusal(s) \in {Entering(s, "create", "reclaim"), Entering(s, "cleanup", "down"),
                             Goto(s, "rollback"), Idle, Failing(s)}
    BY DEF AfterRefusal
  <1> QED
    BY <1>1, EnteringNotPending, GotoNotPending, IdleNotPending, FailingNotPending
    DEF Phase, Step

LEMMA AfterRemovalNotPending == ASSUME NEW s \in Command PROVE ~Pending(AfterRemoval(s))
  <1>1. AfterRemoval(s) \in {Goto(s, "verify"), Goto(s, "run"), Failing(s)}
    BY DEF AfterRemoval
  <1> QED
    BY <1>1, GotoNotPending, FailingNotPending DEF Step

LEMMA AfterDropNotPending == ASSUME NEW s \in Command PROVE ~Pending(AfterDrop(s))
  <1>1. AfterDrop(s) \in {Goto(s, "dropStage"), Goto(s, "dropSsh"), Failing(s),
                          Goto(s, "dropArchive")}
    BY DEF AfterDrop, AfterReclaim
  <1> QED
    BY <1>1, GotoNotPending, FailingNotPending DEF Step

LEMMA AfterFailureNotPending == ASSUME NEW s \in Command PROVE ~Pending(AfterFailure(s))
  <1>1. [s EXCEPT !.failed = TRUE] \in Command /\ [s EXCEPT !.phase = "persist"] \in Command
    BY DEF Command, Phase
  <1>2. AfterFailure(s) \in {AfterRefusal(s), AfterDrop([s EXCEPT !.failed = TRUE]),
                             Failing([s EXCEPT !.phase = "persist"]), Goto(s, "reclaim"),
                             Entering(s, "cleanup", "down"), Failing(s)}
    BY DEF AfterFailure
  <1> QED
    BY <1>1, <1>2, AfterRefusalNotPending, AfterDropNotPending, FailingNotPending,
       GotoNotPending, EnteringNotPending DEF Phase, Step

LEMMA AfterWriteNotPending ==
    ASSUME NEW s \in Command, NEW m \in Manifest PROVE ~Pending(AfterWrite(s, m))
  <1>1. [s EXCEPT !.seen = m] \in Command
    BY DEF Command
  <1>2. AfterWrite(s, m) \in {Entering([s EXCEPT !.seen = m], "stop", "persist"),
                              Goto([s EXCEPT !.seen = m], "commit"),
                              Goto([s EXCEPT !.seen = m], "copyBack"),
                              AfterStop(s, m), Idle}
    BY DEF AfterWrite
  <1> QED
    BY <1>1, <1>2, EnteringNotPending, GotoNotPending, AfterStopNotPending, IdleNotPending
    DEF Phase, Step

\* A step of c leaves no capability to be written that was not before it.
NothingNewPending ==
    \A c \in Commands :
        Pending(cmd'[c]) => Pending(cmd[c]) /\ cmd'[c].capability = cmd[c].capability

LEMMA BecomesNothingPending ==
    ASSUME TypeOK, NEW c \in Commands, NEW s, Becomes(c, s),
           Pending(s) => Pending(cmd[c]) /\ s.capability = cmd[c].capability
    PROVE  NothingNewPending
  <1>1. cmd' = [cmd EXCEPT ![c] = s] /\ cmd \in [Commands -> Command]
    BY DEF Becomes, TypeOK
  <1> QED
    BY <1>1 DEF NothingNewPending

LEMMA EndsNothingPending ==
    ASSUME TypeOK, NEW c \in Commands, NEW s, Ends(c, s), ~Pending(s)
    PROVE  NothingNewPending
  <1>1. ~Pending(AfterFailure(cmd[c]))
    BY AfterFailureNotPending DEF TypeOK
  <1> QED
    BY <1>1, BecomesNothingPending DEF Ends, Fails

LEMMA BeginsNothingPending ==
    ASSUME TypeOK, NEW c \in Commands, Begins(c)
    PROVE  NothingNewPending /\ UNCHANGED issued
  <1>1. RunOf[c] \in Runs /\ record[RunOf[c]] \in Manifest
    BY CommandsAssumption DEF TypeOK
  <1>2. \A op \in Op : [Idle EXCEPT !.op = op] \in Command
    BY IdleType DEF Command
  <1>3. CASE BeginStart(c)
    <2> DEFINE s == [Idle EXCEPT !.op = "start", !.phase = "create", !.pc = "ssh",
                                 !.left = Lifetime]
    <2>1. ~Pending(s)
      BY QuietNotPending DEF Idle
    <2>2. Becomes(c, s) /\ UNCHANGED issued
      BY <1>3 DEF BeginStart
    <2> HIDE DEF s
    <2> QED
      BY <2>1, <2>2, BecomesNothingPending
  <1>4. ASSUME NEW op \in {"stop", "resume", "apply", "discard"}, BeginByStopping(c, op)
        PROVE  NothingNewPending /\ UNCHANGED issued
    <2> DEFINE s == [Idle EXCEPT !.op = op, !.phase = "stop", !.pc = "down"]
    <2>1. ~Pending(s)
      BY QuietNotPending DEF Idle
    <2>2. Becomes(c, s) /\ UNCHANGED issued
      BY <1>4 DEF BeginByStopping
    <2> HIDE DEF s
    <2> QED
      BY <2>1, <2>2, BecomesNothingPending
  <1>5. CASE BeginResume(c) \/ BeginApply(c) \/ BeginDiscard(c)
    <2>1. PICK s :
            /\ Becomes(c, s) /\ UNCHANGED issued
            /\ \/ s = Resuming([Idle EXCEPT !.op = "resume"], record[RunOf[c]])
               \/ s = Applying([Idle EXCEPT !.op = "apply"], record[RunOf[c]])
               \/ s = Releasing([Idle EXCEPT !.op = "discard"])
               \/ s = [Entering([Idle EXCEPT !.op = "apply"], "apply", "copyBack")
                         EXCEPT !.seen = record[RunOf[c]]]
      BY <1>5 DEF BeginResume, BeginApply, BeginDiscard
    <2>2. ~Pending([Entering([Idle EXCEPT !.op = "apply"], "apply", "copyBack")
                      EXCEPT !.seen = record[RunOf[c]]])
      BY QuietNotPending DEF Entering, Idle
    <2>3. ~Pending(s)
      BY <1>1, <1>2, <2>1, <2>2, ResumingNotPending, ApplyingNotPending, ReleasingNotPending
      DEF Op
    <2> QED
      BY <2>1, <2>3, BecomesNothingPending
  <1> QED
    BY <1>3, <1>4, <1>5 DEF Begins

LEMMA ProceedsNothingPending ==
    ASSUME Alone, TypeOK, OneAtATime, NEW c \in Commands, Proceeds(c), ~Configure(c)
    PROVE  NothingNewPending /\ UNCHANGED issued
  <1> DEFINE r == RunOf[c]
  <1>1. /\ cmd[c] \in Command /\ r \in Runs /\ record[r] \in Manifest /\ vm[r] \in VM
        /\ Staged(cmd[c]) /\ clock \in Nat
    BY Before DEF TypeOK
  <1>2. UNCHANGED issued
    BY DEF Proceeds, PrepareSsh, CreateStage, CreateRunStorage, RunContainer, Materialize,
           Configure, StopContainer, RemoveContainer, VerifyRunStorage, Persist, CheckResume,
           CaptureResult, ImportResult, CommitResult, RollbackResult, CopyBack, DeclineApply,
           ReclaimContainer, DropStorage, DropStage, DropSsh, DropArchive, Forget, ReadRecord,
           ReplaceRecord, StepIsRefused
  <1>3. CASE PrepareSsh(c) \/ CreateStage(c) \/ CreateRunStorage(c) \/ RunContainer(c)
             \/ Materialize(c) \/ CheckResume(c) \/ ReclaimContainer(c)
    <2>1. PICK pc \in {"stage", "storage", "run", "materialize", "configure", "down",
                       "dropStorage"} :
            Becomes(c, Goto(cmd[c], pc)) \/ Ends(c, Goto(cmd[c], pc))
      BY <1>3 DEF PrepareSsh, CreateStage, CreateRunStorage, RunContainer, Materialize,
                  CheckResume, ReclaimContainer
    <2>2. ~Pending(Goto(cmd[c], pc))
      BY <1>1, GotoNotPending DEF Step
    <2> QED
      BY <1>2, <2>1, <2>2, BecomesNothingPending, EndsNothingPending
  <1>4. CASE StopContainer(c) \/ RemoveContainer(c)
    <2>1. Ends(c, AfterRemoval(cmd[c])) \/ Ends(c, Goto(cmd[c], "remove"))
      BY <1>4 DEF StopContainer, RemoveContainer
    <2>2. ~Pending(AfterRemoval(cmd[c])) /\ ~Pending(Goto(cmd[c], "remove"))
      BY <1>1, AfterRemovalNotPending, GotoNotPending DEF Step
    <2> QED
      BY <1>2, <2>1, <2>2, EndsNothingPending
  <1>5. CASE VerifyRunStorage(c) \/ CommitResult(c) \/ CopyBack(c) \/ ImportResult(c)
    <2>1. PICK operation \in {"Stop", "CompleteApply", "ClearReturned", "BeginApply"} :
            \/ Ends(c, Writing(cmd[c], operation))
            \/ Becomes(c, Writing(cmd[c], operation))
            \/ Becomes(c, Goto(cmd[c], "rollback"))
      BY <1>5 DEF VerifyRunStorage, CommitResult, CopyBack, ImportResult
    <2>2. ~Pending(Writing(cmd[c], operation)) /\ ~Pending(Goto(cmd[c], "rollback"))
      BY <1>1, WritingNotPending, GotoNotPending DEF Operation, Step
    <2> QED
      BY <1>2, <2>1, <2>2, EndsNothingPending, BecomesNothingPending
  <1>6. CASE Persist(c)
    <2>1. ~Pending(AfterStop(cmd[c], cmd[c].seen))
      BY <1>1, AfterStopNotPending DEF Command
    <2> QED
      BY <1>2, <1>6, <2>1, BecomesNothingPending DEF Persist
  <1>7. CASE CaptureResult(c)
    <2>1. PICK outputs \in BOOLEAN :
            Becomes(c, [Goto(cmd[c], "import") EXCEPT !.tip = vm[r].work, !.outputs = outputs])
      BY <1>7 DEF CaptureResult
    <2>2. ~Pending([Goto(cmd[c], "import") EXCEPT !.tip = vm[r].work, !.outputs = outputs])
      BY <1>1, QuietNotPending DEF Goto, Command
    <2> QED
      BY <1>2, <2>1, <2>2, BecomesNothingPending
  <1>8. CASE RollbackResult(c) \/ DeclineApply(c)
    <2>1. Becomes(c, Failing(cmd[c])) \/ Becomes(c, Idle)
      BY <1>8 DEF RollbackResult, DeclineApply
    <2> QED
      BY <1>1, <1>2, <2>1, FailingNotPending, IdleNotPending, BecomesNothingPending
  <1>9. CASE DropStorage(c) \/ DropStage(c) \/ DropSsh(c) \/ Forget(c)
    <2>1. Ends(c, AfterDrop(cmd[c])) \/ Ends(c, Idle)
      BY <1>9 DEF DropStorage, DropStage, DropSsh, Forget
    <2> QED
      BY <1>1, <1>2, <2>1, AfterDropNotPending, IdleNotPending, EndsNothingPending
  <1>10. CASE DropArchive(c)
    <2> DEFINE pc == IF cmd[c].phase = "release" THEN "forget" ELSE "put"
               s == Goto(cmd[c], pc)
    <2>1. cmd[c].phase # "release" => cmd[c].write = "ClearReturned"
      BY <1>1, <1>10, StageOfStep DEF DropArchive, At
    <2>2. s.pc = pc /\ s.write = cmd[c].write
      BY <1>1, GotoIs DEF Step
    <2>3. Ends(c, s)
      BY <1>10 DEF DropArchive
    <2> HIDE DEF s
    <2>4. ~Pending(s)
      BY <2>1, <2>2, QuietNotPending
    <2> QED
      BY <1>2, <2>3, <2>4, EndsNothingPending
  <1>11. CASE ReadRecord(c)
    <2> DEFINE s == Accepted(cmd[c], record[r])
    <2>1. /\ s.write = cmd[c].write /\ s.capability = cmd[c].capability
          /\ s.pc = IF cmd[c].write = "ClearReturned" THEN "dropArchive" ELSE "put"
      BY <1>1, AcceptedIs
    <2>2. Becomes(c, s) \/ Becomes(c, AfterRefusal(cmd[c]))
      BY <1>11 DEF ReadRecord, Accepted
    <2> HIDE DEF s
    <2>3. Pending(s) => Pending(cmd[c]) /\ s.capability = cmd[c].capability
      BY <1>11, <2>1 DEF ReadRecord, At, Pending, Doing
    <2> QED
      BY <1>1, <1>2, <2>2, <2>3, AfterRefusalNotPending, BecomesNothingPending
  <1>12. CASE ReplaceRecord(c)
    <2>1. ~Pending(AfterWrite(cmd[c], Written(cmd[c])))
      BY <1>1, WrittenType, AfterWriteNotPending
    <2> QED
      BY <1>2, <1>12, <2>1, BecomesNothingPending DEF ReplaceRecord
  <1>13. CASE StepIsRefused(c)
    BY <1>1, <1>2, <1>13, AfterFailureNotPending, BecomesNothingPending DEF StepIsRefused
  <1> QED
    BY <1>3, <1>4, <1>5, <1>6, <1>7, <1>8, <1>9, <1>10, <1>11, <1>12, <1>13, Proceeds(c)
    DEF Proceeds

LEMMA MishapsNothingPending ==
    ASSUME TypeOK, NEW c \in Commands, StepFails(c) \/ WriteUnsynced(c) \/ Killed(c)
    PROVE  NothingNewPending /\ UNCHANGED issued
  <1>1. cmd[c] \in Command
    BY DEF TypeOK
  <1>2. \/ Becomes(c, AfterFailure(cmd[c])) \/ Becomes(c, AfterRefusal(cmd[c]))
        \/ Becomes(c, Idle)
    BY DEF StepFails, Fails, WriteUnsynced, Killed
  <1>3. UNCHANGED issued
    BY DEF StepFails, WriteUnsynced, Killed
  <1> QED
    BY <1>1, <1>2, <1>3, AfterFailureNotPending, AfterRefusalNotPending, IdleNotPending,
       BecomesNothingPending

LEMMA SurroundingsNothingPending ==
    ASSUME VmGoesDown \/ Tick \/ \E r \in Runs : AgentWorks(r) \/ ContainerExits(r)
    PROVE  NothingNewPending /\ UNCHANGED issued
  <1>1. UNCHANGED <<cmd, issued>>
    BY DEF VmGoesDown, Tick, AgentWorks, ContainerExits
  <1> QED
    BY <1>1 DEF NothingNewPending

\* What the command at "put" makes of its run, as the promise sees it.
LEMMA WrittenPromise ==
    ASSUME Alone, TypeOK, CommandsSound, OneAtATime, NEW c \in Commands, At(c, "put")
    PROVE  LET m == record[RunOf[c]]
               w == Written(cmd[c])
           IN
           \/ /\ Pending(cmd[c])
              /\ m.state \in {"creating", "stopped"} /\ m.capability = Nil
              /\ w.state = "active" /\ w.capability = cmd[c].capability
           \/ /\ m.state = "active"
              /\ w.state = "stopped" /\ w.capability = Nil
           \/ /\ m.state = "stopped"
              /\ w.state = "imported" /\ w.capability = m.capability
           \/ w.state = m.state /\ w.capability = m.capability
  <1> DEFINE m == record[RunOf[c]]
             w == Written(cmd[c])
  <1>1. /\ cmd[c].pc = "put" /\ cmd[c].seen = m /\ m \in Manifest
        /\ Kept(m, vm[RunOf[c]], mac[RunOf[c]])
    BY Before DEF At, Recorded
  <1>2. /\ cmd[c].write = "Activate" => m.state = "creating"
        /\ cmd[c].write = "Resume" => m.state = "stopped"
        /\ cmd[c].write = "Stop" => m.state = "active"
        /\ cmd[c].write = "CompleteApply" => m.state = "stopped"
    BY <1>1 DEF CommandsSound, Sound, Allowed
  <1>3. CASE cmd[c].write \in {"Activate", "Resume"}
    <2>1. w \in {Activated(m, cmd[c].capability), Resumed(m, cmd[c].capability)}
      BY <1>1, <1>3 DEF Written
    <2>2. w.state = "active" /\ w.capability = cmd[c].capability
      BY <1>1, <2>1 DEF Activated, Resumed, Manifest
    <2>3. Pending(cmd[c])
      BY <1>1, <1>3 DEF Pending, Doing
    <2> QED
      BY <1>1, <1>2, <1>3, <2>2, <2>3 DEF Kept
  <1>4. CASE cmd[c].write = "Stop"
    BY <1>1, <1>2, <1>4 DEF Written, Stopped, Manifest
  <1>5. CASE cmd[c].write = "CompleteApply"
    BY <1>1, <1>2, <1>5 DEF Written, ApplyCompleted, Manifest
  <1>6. CASE cmd[c].write \notin {"Activate", "Resume", "Stop", "CompleteApply"}
    <2>1. w \in {ApplyBegun(m, cmd[c].tip, cmd[c].outputs), ReturnedCleared(m), m}
      BY <1>1, <1>6 DEF Written
    <2> QED
      BY <1>1, <2>1 DEF ApplyBegun, ReturnedCleared, Manifest
  <1> QED
    BY <1>3, <1>4, <1>5, <1>6

LEMMA FreshStays ==
    ASSUME TypeOK, CapabilitiesFresh, NothingNewPending, UNCHANGED issued,
           \A r \in Runs : record'[r].capability \in {record[r].capability, Nil},
           \A k \in revoked' : k \in revoked \/ \E r \in Runs : k = record[r].capability
    PROVE  CapabilitiesFresh'
  <1>1. \A r \in Runs : record'[r].capability <= issued'
    BY DEF CapabilitiesFresh, Nil, TypeOK
  <1>2. \A k \in revoked' : k <= issued'
    BY DEF CapabilitiesFresh
  <1>3. ASSUME NEW c \in Commands, Pending(cmd'[c])
        PROVE  /\ cmd'[c].capability \in 1 .. issued'
               /\ cmd'[c].capability \notin revoked'
               /\ \A r \in Runs : record'[r].capability # cmd'[c].capability
               /\ \A d \in Commands :
                    d # c /\ Pending(cmd'[d]) => cmd'[d].capability # cmd'[c].capability
    <2>1. Pending(cmd[c]) /\ cmd'[c].capability = cmd[c].capability
      BY <1>3 DEF NothingNewPending
    <2>2. /\ cmd[c].capability \in 1 .. issued
          /\ cmd[c].capability \notin revoked
          /\ \A r \in Runs : record[r].capability # cmd[c].capability
          /\ \A d \in Commands :
               d # c /\ Pending(cmd[d]) => cmd[d].capability # cmd[c].capability
      BY <2>1 DEF CapabilitiesFresh, Unused
    <2>3. cmd[c].capability # Nil
      BY <2>2 DEF Nil, TypeOK
    <2>4. \A r \in Runs : record'[r].capability # cmd'[c].capability
      BY <2>1, <2>2, <2>3
    <2>5. \A d \in Commands :
            d # c /\ Pending(cmd'[d]) => cmd'[d].capability # cmd'[c].capability
      BY <2>1, <2>2 DEF NothingNewPending
    <2> QED
      BY <2>1, <2>2, <2>4, <2>5
  <1> QED
    BY <1>1, <1>2, <1>3 DEF CapabilitiesFresh, Unused

LEMMA ConfigureFresh ==
    ASSUME TypeOK, CapabilitiesFresh, NEW c \in Commands, Configure(c)
    PROVE  CapabilitiesFresh'
  <1>1. UNCHANGED <<record, revoked>> /\ issued' = issued + 1 /\ issued \in Nat
    BY DEF Configure, TypeOK
  <1>2. PICK s :
          /\ Becomes(c, s)
          /\ ~Pending(s) \/ s.capability = issued + 1
    <2> DEFINE i == [cmd[c] EXCEPT !.capability = issued + 1]
    <2>1. i \in Command /\ i.capability = issued + 1
      BY DEF TypeOK, Command
    <2>2. /\ ~Pending(AfterFailure(cmd[c]))
          /\ Writing(i, "Activate").capability = issued + 1
          /\ Writing(i, "Resume").capability = issued + 1
      <3>1. cmd[c] \in Command
        BY DEF TypeOK
      <3>2. "Activate" \in Operation /\ "Resume" \in Operation
        BY DEF Operation
      <3> HIDE DEF i
      <3>3. ~Pending(AfterFailure(cmd[c]))
        BY <3>1, AfterFailureNotPending
      <3>4. Writing(i, "Activate").capability = i.capability
        BY <2>1, <3>2, WritingIs
      <3>5. Writing(i, "Resume").capability = i.capability
        BY <2>1, <3>2, WritingIs
      <3> QED
        BY <2>1, <3>3, <3>4, <3>5
    <2>3. \/ Becomes(c, Writing(i, "Activate")) \/ Becomes(c, Writing(i, "Resume"))
          \/ Becomes(c, AfterFailure(cmd[c]))
      BY DEF Configure, Ends, Fails
    <2> HIDE DEF i
    <2> QED
      BY <2>2, <2>3
  <1>3. cmd'[c] = s /\ \A d \in Commands : d # c => cmd'[d] = cmd[d]
    BY <1>2 DEF Becomes, TypeOK
  <1>4. \A r \in Runs : record[r].capability \in Nat /\ record[r].capability <= issued
    BY DEF CapabilitiesFresh, TypeOK, Manifest
  <1>5. \A k \in revoked : k \in Nat /\ k <= issued
    BY DEF CapabilitiesFresh, TypeOK
  <1>6. \A d \in Commands : Pending(cmd[d]) => cmd[d].capability \in 1 .. issued
    BY DEF CapabilitiesFresh, Unused
  <1>7. ASSUME NEW d \in Commands, Pending(cmd'[d])
        PROVE  /\ cmd'[d].capability \in 1 .. issued'
               /\ cmd'[d].capability \notin revoked
               /\ \A r \in Runs : record[r].capability # cmd'[d].capability
               /\ \A e \in Commands :
                    e # d /\ Pending(cmd'[e]) => cmd'[e].capability # cmd'[d].capability
    <2>1. CASE d = c
      <3>1. cmd'[d].capability = issued + 1
        BY <1>2, <1>3, <1>7, <2>1
      <3>2. \A e \in Commands :
              e # d /\ Pending(cmd'[e]) => cmd'[e].capability # issued + 1
        BY <1>1, <1>3, <1>6, <2>1
      <3> QED
        BY <1>1, <1>4, <1>5, <3>1, <3>2
    <2>2. CASE d # c
      <3>1. cmd'[d] = cmd[d] /\ cmd[d].capability \in 1 .. issued
        BY <1>3, <1>6, <1>7, <2>2
      <3>2. /\ cmd[d].capability \notin revoked
            /\ \A r \in Runs : record[r].capability # cmd[d].capability
            /\ \A e \in Commands :
                 e # d /\ Pending(cmd[e]) => cmd[e].capability # cmd[d].capability
        BY <1>7, <3>1 DEF CapabilitiesFresh, Unused
      <3>3. Pending(cmd'[c]) => cmd'[c].capability # cmd[d].capability
        BY <1>1, <1>2, <1>3, <3>1
      <3> QED
        BY <1>1, <1>3, <3>1, <3>2, <3>3
    <2> QED
      BY <2>1, <2>2
  <1> QED
    BY <1>1, <1>4, <1>5, <1>7 DEF CapabilitiesFresh, Unused

LEMMA WriteFresh ==
    ASSUME Alone, TypeOK, CommandsSound, OneAtATime, CapabilitiesFresh, NEW c \in Commands,
           ReplaceRecord(c) \/ WriteUnsynced(c)
    PROVE  CapabilitiesFresh'
  <1> DEFINE r == RunOf[c]
             w == Written(cmd[c])
  <1>1. cmd[c] \in Command /\ r \in Runs /\ clock \in Nat
    BY CommandsAssumption DEF TypeOK
  <1>2. /\ At(c, "put") /\ UNCHANGED issued
        /\ record' = [record EXCEPT ![r] = w]
        /\ revoked' = revoked \cup (Capabilities(record[r]) \ Capabilities(w))
    BY DEF ReplaceRecord, WriteUnsynced
  <1>3. PICK s : Becomes(c, s) /\ ~Pending(s)
    BY <1>1, WrittenType, AfterWriteNotPending, AfterRefusalNotPending
    DEF ReplaceRecord, WriteUnsynced
  <1>4. NothingNewPending
    BY <1>3, BecomesNothingPending
  <1>5. record'[r] = w /\ \A q \in Runs : q # r => record'[q] = record[q]
    BY <1>1, <1>2 DEF TypeOK
  <1>6. \A k \in revoked' : k \in revoked \/ k = record[r].capability
    BY <1>2 DEF Capabilities
  <1>7. CASE w.capability \in {record[r].capability, Nil}
    <2>1. \A q \in Runs : record'[q].capability \in {record[q].capability, Nil}
      BY <1>5, <1>7
    <2> HIDE DEF w
    <2> QED
      BY <1>1, <1>2, <1>4, <1>6, <2>1, FreshStays
  <1>8. CASE Pending(cmd[c]) /\ w.capability = cmd[c].capability
    <2>1. /\ cmd[c].capability \in 1 .. issued
          /\ \A d \in Commands :
               d # c /\ Pending(cmd[d]) => cmd[d].capability # cmd[c].capability
      BY <1>8 DEF CapabilitiesFresh, Unused
    <2>2. cmd'[c] = s /\ \A d \in Commands : d # c => cmd'[d] = cmd[d]
      BY <1>3 DEF Becomes, TypeOK
    <2>3. \A q \in Runs : record'[q].capability <= issued
      BY <1>5, <1>8, <2>1 DEF CapabilitiesFresh, TypeOK
    <2>4. \A k \in revoked' : k <= issued
      BY <1>1, <1>6 DEF CapabilitiesFresh
    <2>5. ASSUME NEW d \in Commands, Pending(cmd'[d])
          PROVE  /\ cmd'[d].capability \in 1 .. issued
                 /\ cmd'[d].capability \notin revoked'
                 /\ \A q \in Runs : record'[q].capability # cmd'[d].capability
                 /\ \A e \in Commands :
                      e # d /\ Pending(cmd'[e]) => cmd'[e].capability # cmd'[d].capability
      <3>1. d # c /\ cmd'[d] = cmd[d] /\ Pending(cmd[d])
        BY <1>3, <2>2, <2>5
      <3>2. /\ cmd[d].capability \in 1 .. issued
            /\ cmd[d].capability \notin revoked
            /\ \A q \in Runs : record[q].capability # cmd[d].capability
            /\ \A e \in Commands :
                 e # d /\ Pending(cmd[e]) => cmd[e].capability # cmd[d].capability
        BY <3>1 DEF CapabilitiesFresh, Unused
      <3>3. cmd[d].capability \notin revoked'
        BY <1>1, <1>6, <3>2
      <3>4. \A q \in Runs : record'[q].capability # cmd[d].capability
        BY <1>5, <1>8, <2>1, <3>1, <3>2
      <3>5. \A e \in Commands :
              e # d /\ Pending(cmd'[e]) => cmd'[e].capability # cmd[d].capability
        BY <1>3, <2>2, <3>2
      <3> QED
        BY <3>1, <3>2, <3>3, <3>4, <3>5
    <2> QED
      BY <1>2, <2>3, <2>4, <2>5 DEF CapabilitiesFresh, Unused
  <1> QED
    BY <1>2, <1>7, <1>8, WrittenPromise

\* Only these steps write a record or take a capability back.
LEMMA NextFresh ==
    ASSUME Alone
    PROVE  TypeOK /\ CommandsSound /\ OneAtATime /\ CapabilitiesFresh /\ [Next]_vars
             => CapabilitiesFresh'
  <1> SUFFICES ASSUME TypeOK, CommandsSound, OneAtATime, CapabilitiesFresh, [Next]_vars
               PROVE  CapabilitiesFresh'
    OBVIOUS
  <1>1. ASSUME NEW c \in Commands, Configure(c)
        PROVE  CapabilitiesFresh'
    BY <1>1, ConfigureFresh
  <1>2. ASSUME NEW c \in Commands, ReplaceRecord(c) \/ WriteUnsynced(c)
        PROVE  CapabilitiesFresh'
    BY <1>2, WriteFresh
  <1>3. CASE \A c \in Commands : ~Configure(c)
    <2>1. NothingNewPending /\ UNCHANGED issued
      <3>1. CASE UNCHANGED vars
        BY <3>1 DEF vars, NothingNewPending
      <3>2. CASE Next
        BY <1>3, <3>2, BeginsNothingPending, ProceedsNothingPending, MishapsNothingPending,
           SurroundingsNothingPending DEF Next
      <3> QED
        BY <3>1, <3>2
    <2>2. ASSUME NEW c \in Commands, BeginStart(c) \/ Forget(c)
          PROVE  CapabilitiesFresh'
      <3> DEFINE r == RunOf[c]
      <3>1. r \in Runs /\ record \in [Runs -> Manifest]
        BY CommandsAssumption DEF TypeOK
      <3>2. \A q \in Runs : record'[q].capability \in {record[q].capability, Nil}
        <4>1. PICK m \in {Created(clock), NoRun} : record' = [record EXCEPT ![r] = m]
          BY <2>2 DEF BeginStart, Forget
        <4>2. NoRun.capability = Nil
          BY DEF NoRun
        <4>3. Created(clock).capability = Nil
          BY DEF Created, NoRun
        <4> QED
          BY <3>1, <4>1, <4>2, <4>3
      <3>3. \A k \in revoked' : k \in revoked \/ k = record[r].capability
        BY <2>2 DEF BeginStart, Forget, Capabilities
      <3> QED
        BY <2>1, <3>1, <3>2, <3>3, FreshStays
    <2>3. CASE UNCHANGED <<record, revoked>>
      BY <2>1, <2>3, FreshStays
    <2> QED
      BY <1>2, <2>2, <2>3, OnlyRecordingWrites DEF Recording
  <1> QED
    BY <1>1, <1>3

LEMMA InitFresh == Init => CapabilitiesFresh
  BY IdleNotPending DEF Init, CapabilitiesFresh, Unused, NoRun, Nil

-----------------------------------------------------------------------------
(***************************************************************************)
(* What holds with one command at a time on every run.                     *)
(***************************************************************************)
LEMMA AloneInvariant ==
    ASSUME Alone
    PROVE  Spec => [](TypeOK /\ CommandsSound /\ RunningHasStorage /\ OneAtATime
                        /\ PlansAreCurrent /\ CapabilitiesFresh)
  <1>1. Init => CommandsSound /\ RunningHasStorage /\ PlansAreCurrent
    BY IdleSound DEF Init, CommandsSound, RunningHasStorage, PlansAreCurrent, NoRun, Nil
  <1>2. TypeOK /\ CommandsSound /\ OneAtATime /\ PlansAreCurrent /\ [Next]_vars
          => OneAtATime' /\ PlansAreCurrent'
    BY NextAlone, NextKeepsPlans
  <1>3. TypeOK /\ CommandsSound /\ OneAtATime /\ CapabilitiesFresh /\ [Next]_vars
          => CapabilitiesFresh'
    BY NextFresh
  <1> QED
    BY <1>1, <1>2, <1>3, InitType, InitAlone, InitFresh, NextType, NextSound,
       NextKeepsStorage, PTL DEF Spec

\* Whatever fails, dies or restarts, and however many commands follow one another,
\* what a run owns in the VM and on the Mac never outlives its record, so that a
\* discard can find it.
THEOREM OwnedIsRecorded ==
    ASSUME Alone
    PROVE  Spec => []NothingOwnedWithoutRecord
  <1>1. OneAtATime => NothingOwnedWithoutRecord
    BY DEF OneAtATime, Kept, NothingOwnedWithoutRecord, Owned
  <1> QED
    BY <1>1, AloneInvariant, PTL

\* A run whose record says active and whose container runs has its own filesystem
\* under it, and, if the start or the resume that brought it there had a provider to
\* offer, was told the capability its record holds, whatever failed between.
THEOREM ActiveIsUsable ==
    ASSUME Alone
    PROVE  Spec => []ActiveRunIsUsable
  <1>1. OneAtATime /\ RunningHasStorage => ActiveRunIsUsable
    BY DEF OneAtATime, Kept, RunningHasStorage, ActiveRunIsUsable
  <1> QED
    BY <1>1, AloneInvariant, PTL

\* The archive of what a run returned stays until it reached the working tree,
\* through any number of applies, rollbacks, kills and failed writes.
THEOREM ReturnedWorkIsKept ==
    ASSUME Alone
    PROVE  Spec => []ReturnedWorkKept
  <1>1. OneAtATime => ReturnedWorkKept
    BY DEF OneAtATime, Kept, ReturnedWorkKept
  <1> QED
    BY <1>1, AloneInvariant, PTL

\* An apply that trusts the record that says stopped reads a workspace no
\* container writes to, if every process before it ran its cleanups.
THEOREM CapturedAtRest ==
    ASSUME Alone
    PROVE  Spec => []CaptureIsQuiescent
  <1>1. OneAtATime => CaptureIsQuiescent
    <2> SUFFICES ASSUME OneAtATime, mishaps.orderly, NEW c \in Commands, At(c, "import")
                 PROVE  vm[RunOf[c]].container # "running"
      BY DEF CaptureIsQuiescent
    <2>1. Staged(cmd[c]) /\ Held(cmd[c], vm[RunOf[c]], mac[RunOf[c]], mishaps.orderly)
      BY DEF OneAtATime
    <2>2. Capturing(cmd[c])
      BY <2>1, StageOfStep DEF At
    <2> QED
      BY <2>1, <2>2 DEF Held
  <1> QED
    BY <1>1, AloneInvariant, PTL

\* An apply moves the refs to all of the run's work, whether it captured it itself
\* or finishes the plan of an earlier apply, unless the run was reopened over that
\* plan; if every process before it ran its cleanups.
THEOREM ImportIsComplete ==
    ASSUME Alone
    PROVE  Spec => []NoWorkLeftBehind
  <1>1. OneAtATime => NoWorkLeftBehind
    <2> SUFFICES ASSUME OneAtATime, mishaps.orderly, NEW c \in Commands,
                        At(c, "commit"), ~vm[RunOf[c]].reopened
                 PROVE  cmd[c].tip = vm[RunOf[c]].work
      BY DEF NoWorkLeftBehind
    <2>1. Staged(cmd[c]) /\ Held(cmd[c], vm[RunOf[c]], mac[RunOf[c]], mishaps.orderly)
      BY DEF OneAtATime
    <2>2. cmd[c].phase = "apply" /\ cmd[c].pc = "commit"
      BY <2>1, StageOfStep DEF At
    <2> QED
      BY <2>1, <2>2 DEF Held
  <1> QED
    BY <1>1, AloneInvariant, PTL

\* With no command at work on a run, its container runs only if its record claims
\* it does, if every process before ran its cleanups: a start or a resume that
\* fails takes its container back.
THEOREM RunningIsActive ==
    ASSUME Alone
    PROVE  Spec => []RunningMeansActive
  <1>1. OneAtATime => RunningMeansActive
    <2> SUFFICES ASSUME OneAtATime, mishaps.orderly, NEW r \in Runs,
                        vm[r].container = "running", ~AtWork(r), record[r].state # "active"
                 PROVE  FALSE
      BY DEF RunningMeansActive
    <2>1. PICK c \in Commands : RunOf[c] = r /\ Launching(cmd[c])
      BY DEF OneAtATime, Launched, Unclaimed
    <2>2. cmd[c].pc = "idle"
      BY <2>1 DEF AtWork, At
    <2> QED
      BY <2>1, <2>2, QuietSteps
  <1> QED
    BY <1>1, AloneInvariant, PTL

-----------------------------------------------------------------------------
(***************************************************************************)
(* A run keeps its promise.  A step that writes no record promises nothing *)
(* new; each one that does is one step of RunPromise, or none.             *)
(***************************************************************************)
States == [r \in Runs |-> record[r].state]
Granted == [r \in Runs |-> record[r].capability]

LEMMA PromiseOfWrite ==
    ASSUME TypeOK, NEW r \in Runs, NEW w, record' = [record EXCEPT ![r] = w]
    PROVE  /\ States' = [States EXCEPT ![r] = w.state]
           /\ Granted' = [Granted EXCEPT ![r] = w.capability]
  <1>1. record'[r] = w /\ \A q \in Runs : q # r => record'[q] = record[q]
    BY DEF TypeOK
  <1>2. \A q \in Runs : record'[q].state = IF q = r THEN w.state ELSE record[q].state
    BY <1>1
  <1>3. \A q \in Runs :
          record'[q].capability = IF q = r THEN w.capability ELSE record[q].capability
    BY <1>1
  <1>4. [q \in Runs |-> record'[q].state]
          = [[q \in Runs |-> record[q].state] EXCEPT ![r] = w.state]
    BY <1>2
  <1>5. [q \in Runs |-> record'[q].capability]
          = [[q \in Runs |-> record[q].capability] EXCEPT ![r] = w.capability]
    BY <1>3
  <1> QED
    BY <1>4, <1>5 DEF States, Granted

LEMMA NextKeepsPromise ==
    ASSUME Alone, TypeOK, CommandsSound, OneAtATime, CapabilitiesFresh, [Next]_vars
    PROVE  [Promise!Next]_(Promise!vars)
  <1> DEFINE Stutters == UNCHANGED <<States, Granted, revoked>>
  <1>1. record \in [Runs -> Manifest]
    BY DEF TypeOK
  <1>2. Stutters => UNCHANGED Promise!vars
    BY DEF Promise!vars, States, Granted
  <1>3. ASSUME NEW c \in Commands, BeginStart(c)
        PROVE  Promise!Next
    <2> DEFINE r == RunOf[c]
    <2>1. /\ r \in Runs /\ record[r].state = "none" /\ UNCHANGED revoked
          /\ record' = [record EXCEPT ![r] = Created(clock)]
      BY <1>3, CommandsAssumption DEF BeginStart
    <2>2. Kept(record[r], vm[r], mac[r])
      BY <2>1 DEF OneAtATime
    <2>3. record[r].capability = Nil
      BY <2>1, <2>2 DEF Kept
    <2>4. Created(clock).state = "creating" /\ Created(clock).capability = Nil
      BY DEF Created, NoRun
    <2> DEFINE w == Created(clock)
    <2>5. /\ States' = [States EXCEPT ![r] = w.state]
          /\ Granted' = [Granted EXCEPT ![r] = w.capability]
      BY <2>1, PromiseOfWrite
    <2>6. /\ States' = [States EXCEPT ![r] = "creating"]
          /\ Granted' = [Granted EXCEPT ![r] = Nil]
      BY <2>4, <2>5
    <2>7. Granted' = Granted
      BY <2>1, <2>3, <2>6 DEF Granted
    <2>8. Promise!Create(r)
      BY <2>1, <2>6, <2>7 DEF Promise!Create, States, Granted
    <2> QED
      BY <2>1, <2>8 DEF Promise!Next
  <1>4. ASSUME NEW c \in Commands, Forget(c)
        PROVE  Promise!Next
    <2> DEFINE r == RunOf[c]
    <2>1. /\ r \in Runs /\ record[r].state # "none"
          /\ record' = [record EXCEPT ![r] = NoRun]
          /\ revoked' = revoked \cup Capabilities(record[r])
      BY <1>4, CommandsAssumption DEF Forget
    <2>2. NoRun.state = "none" /\ NoRun.capability = 0
      BY DEF NoRun, Nil
    <2>3. /\ States' = [States EXCEPT ![r] = "none"]
          /\ Granted' = [Granted EXCEPT ![r] = 0]
      BY <2>1, <2>2, PromiseOfWrite
    <2>4. Promise!Release(r)
      BY <2>1, <2>3
      DEF Promise!Release, Promise!TakeBack, States, Granted, Capabilities, Nil
    <2> QED
      BY <2>1, <2>4 DEF Promise!Next
  <1>5. ASSUME NEW c \in Commands, ReplaceRecord(c) \/ WriteUnsynced(c)
        PROVE  Promise!Next \/ Stutters
    <2> DEFINE r == RunOf[c]
               m == record[r]
               w == Written(cmd[c])
    <2>1. /\ r \in Runs /\ At(c, "put")
          /\ record' = [record EXCEPT ![r] = w]
          /\ revoked' = revoked \cup (Capabilities(m) \ Capabilities(w))
      BY <1>5, CommandsAssumption DEF ReplaceRecord, WriteUnsynced
    <2>2. m \in Manifest /\ Kept(m, vm[r], mac[r])
      BY <1>1, <2>1 DEF OneAtATime
    <2>3. \/ /\ Pending(cmd[c])
             /\ m.state \in {"creating", "stopped"} /\ m.capability = Nil
             /\ w.state = "active" /\ w.capability = cmd[c].capability
          \/ m.state = "active" /\ w.state = "stopped" /\ w.capability = Nil
          \/ m.state = "stopped" /\ w.state = "imported" /\ w.capability = m.capability
          \/ w.state = m.state /\ w.capability = m.capability
      BY <2>1, WrittenPromise
    <2>4. /\ States' = [States EXCEPT ![r] = w.state]
          /\ Granted' = [Granted EXCEPT ![r] = w.capability]
      BY <2>1, PromiseOfWrite
    <2> HIDE DEF w
    <2>5. w.capability = m.capability => UNCHANGED <<Granted, revoked>>
      BY <2>1, <2>4 DEF Granted, Capabilities
    <2>6. CASE /\ Pending(cmd[c])
               /\ m.state \in {"creating", "stopped"} /\ m.capability = Nil
               /\ w.state = "active" /\ w.capability = cmd[c].capability
      <3>1. /\ w.capability \in 1 .. issued
            /\ w.capability \notin revoked
            /\ \A q \in Runs : record[q].capability # w.capability
        BY <2>6 DEF CapabilitiesFresh, Unused
      <3>2. w.capability # 0 /\ Granted'[r] = w.capability
        BY <2>1, <2>4, <3>1 DEF Granted, TypeOK
      <3>3. UNCHANGED revoked
        BY <2>1, <2>6 DEF Capabilities
      <3>4. Promise!Activate(r)
        BY <2>1, <2>4, <2>6, <3>1, <3>2, <3>3 DEF Promise!Activate, States, Granted
      <3> QED
        BY <2>1, <3>4 DEF Promise!Next
    <2>7. CASE m.state = "active" /\ w.state = "stopped" /\ w.capability = Nil
      <3>1. revoked' = revoked \cup Capabilities(m)
        BY <2>1, <2>7 DEF Capabilities
      <3>2. Promise!Stop(r)
        BY <2>1, <2>4, <2>7, <3>1
        DEF Promise!Stop, Promise!TakeBack, States, Granted, Capabilities, Nil
      <3> QED
        BY <2>1, <3>2 DEF Promise!Next
    <2>8. CASE m.state = "stopped" /\ w.state = "imported" /\ w.capability = m.capability
      <3>1. Promise!Import(r)
        BY <2>1, <2>4, <2>5, <2>8 DEF Promise!Import, States, Granted
      <3> QED
        BY <2>1, <3>1 DEF Promise!Next
    <2>9. CASE w.state = m.state /\ w.capability = m.capability
      BY <2>1, <2>4, <2>5, <2>9 DEF States
    <2> QED
      BY <2>3, <2>6, <2>7, <2>8, <2>9
  <1>6. CASE UNCHANGED <<record, revoked>>
    BY <1>2, <1>6 DEF States, Granted
  <1> QED
    BY <1>2, <1>3, <1>4, <1>5, <1>6, OnlyRecordingWrites DEF Recording

LEMMA InitKeepsPromise == Init => Promise!Init
  BY DEF Init, Promise!Init, NoRun, Nil

\* One command at a time, a run keeps the promise of RunPromise whatever fails, dies
\* or restarts: RunLifecycle implements it.
THEOREM PromiseKept ==
    ASSUME Alone
    PROVE  Spec => KeepsPromise
  <1>1. TypeOK /\ CommandsSound /\ OneAtATime /\ CapabilitiesFresh /\ [Next]_vars
          => [Promise!Next]_(Promise!vars)
    BY NextKeepsPromise
  <1> QED
    BY <1>1, AloneInvariant, InitKeepsPromise, PTL DEF Spec, KeepsPromise, Promise!Spec
==============================================================================
