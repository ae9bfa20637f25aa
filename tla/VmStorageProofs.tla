--------------------------- MODULE VmStorageProofs ---------------------------
(***************************************************************************)
(* Theorems about VmStorage, for any runs, projects and VM definitions and *)
(* any number of failures, kills and power cuts.                           *)
(***************************************************************************)
EXTENDS VmStorage, TLAPS

(***************************************************************************)
(* The types, with the command's: its steps are those of its operation.    *)
(***************************************************************************)
Making == {"mkfs", "mkdir", "mount", "furnish", "chmod"}
Removing == {"remove", "rmdir", "rm"}
Starting == {"ensure", "create", "bringUp", "wait", "check"}

CmdTyped ==
    /\ cmd \in [op : {"none", "start", "resume", "reach", "drop", "rebuild"},
                at : {"idle", "helper", "use", "stop", "shutdown", "delete", "unlock"}
                     \cup Starting \cup Making \cup Removing,
                id : Ids \cup {0}, def : Definitions \cup {0}, discard : BOOLEAN]
    /\ cmd.at \in {"helper", "use"} \cup Making => cmd.op \in {"start", "resume", "reach"}
    /\ cmd.at \in {"stop"} \cup Removing => cmd.op = "drop"
    /\ cmd.at \in {"shutdown", "delete", "unlock"} => cmd.op = "rebuild"
    /\ cmd.op \in {"start", "resume", "reach", "drop"} => cmd.id \in Ids
    /\ cmd.op = "resume" => cmd.id \in Runs
    /\ cmd.op = "none" => cmd = Idle

\* The instance is down wherever a command is about to replace it.
DownTyped == cmd.at \in {"create", "delete", "unlock"} => status # "running"

Typed == TypeOK /\ CmdTyped /\ DownTyped

LEMMA EndsTyped == Ends => CmdTyped' /\ DownTyped'
  BY DEF Ends, Idle, CmdTyped, DownTyped, Starting, Making, Removing

\* What a step of the helper leaves of a command.
LEMMA GotoTyped ==
    ASSUME Typed, NEW step, Goto(step), cmd.at # "idle",
           \/ step \in Starting
           \/ step \in {"helper", "use"} \cup Making /\ cmd.op \in {"start", "resume", "reach"}
           \/ step \in {"stop"} \cup Removing /\ cmd.op = "drop"
           \/ step \in {"shutdown", "delete", "unlock"} /\ cmd.op = "rebuild"
    PROVE  CmdTyped' /\ cmd'.op = cmd.op /\ cmd'.id = cmd.id /\ cmd'.at = step
                     /\ cmd'.discard = cmd.discard
  BY DEF Typed, Goto, CmdTyped, Idle, Starting, Making, Removing

LEMMA SameCmdTyped == Typed /\ cmd' = cmd => CmdTyped'
  BY DEF Typed, CmdTyped

LEMMA StagesAre ==
    /\ NoImage .. Whole = 0 .. 4
    /\ {NoImage, Sized, Formatted, Furnished, Whole} \subseteq NoImage .. Whole
  BY DEF NoImage, Sized, Formatted, Furnished, Whole

LEMMA InitTyped == Init => Typed
  <1> SUFFICES ASSUME Init PROVE Typed
    OBVIOUS
  <1>1. TypeOK
    BY DefinitionsAssumption, StagesAre DEF Init, TypeOK
  <1>2. CmdTyped /\ DownTyped
    BY DEF Init, CmdTyped, DownTyped, Idle, Starting, Making, Removing
  <1> QED  BY <1>1, <1>2 DEF Typed

LEMMA TypedStep == Typed /\ [Next]_vars => Typed'
  <1> SUFFICES ASSUME Typed, [Next]_vars PROVE Typed'
    OBVIOUS
  <1> USE DEF Typed
  <1>1. ASSUME PowerCut \/ MacRestarts PROVE Typed'
    <2>1. TypeOK'
      <3>1. CASE ShutDown
        BY <1>1, <3>1 DEF PowerCut, MacRestarts, ShutDown, BootIsOver, TypeOK
      <3>2. ASSUME NEW to \in {"stopped", "broken"}, CutOff(to), UNCHANGED wanted PROVE TypeOK'
        BY <3>2 DEF CutOff, BootIsOver, TypeOK, stateDisk
      <3> QED  BY <1>1, <3>1, <3>2 DEF PowerCut, MacRestarts
    <2>2. DownTyped'
      BY <1>1 DEF PowerCut, MacRestarts, ShutDown, CutOff, DownTyped
    <2> QED  BY <1>1, <2>1, <2>2, SameCmdTyped DEF PowerCut, MacRestarts
  <1>2. ASSUME BootSteps \/ SetupFails PROVE Typed'
    <2>1. TypeOK'
      <3>1. CASE MountState
        BY <3>1 DEF MountState, SettingUp, TypeOK, instance, stateDisk, storage, held
      <3>2. CASE FormatState
        BY <3>2, StagesAre DEF FormatState, SettingUp, TypeOK, instance
      <3>3. CASE FinishSetup \/ SetUpWithoutState \/ SetupFails
        BY <3>3 DEF FinishSetup, SetUpWithoutState, SetupFails, SettingUp, TypeOK, instance, stateDisk,
                    storage, held
      <3> QED  BY <1>2, <3>1, <3>2, <3>3 DEF BootSteps
    <2>2. cmd' = cmd /\ status' = status
      BY <1>2 DEF BootSteps, MountState, FormatState, FinishSetup, SetUpWithoutState, SetupFails, instance
    <2> QED  BY <2>1, <2>2, SameCmdTyped DEF DownTyped
  <1>3. ASSUME NEW op \in {"start", "reach", "drop"}, NEW id \in Ids,
               NEW step \in {"ensure", "bringUp"}, Begin(op, id, FALSE, step) PROVE Typed'
    BY <1>3 DEF Begin, CmdTyped, DownTyped, TypeOK, instance, boot, stateDisk, storage, held,
                Starting, Making, Removing
  <1>4. ASSUME NEW id \in Ids, BeginResume(id) PROVE Typed'
    BY <1>4 DEF BeginResume, Begin, CmdTyped, DownTyped, TypeOK, instance, boot, stateDisk, storage,
                held, Starting, Making, Removing
  <1>5. ASSUME NEW discard \in BOOLEAN, BeginRebuild(discard) PROVE Typed'
    BY <1>5 DEF BeginRebuild, Begin, CmdTyped, DownTyped, TypeOK, instance, boot, stateDisk, storage,
                held, Starting, Making, Removing
  <1>6. ASSUME EnsureStateDisk PROVE Typed'
    <2>1. TypeOK'
      BY <1>6 DEF EnsureStateDisk, TypeOK, instance, boot, storage, held
    <2>2. CmdTyped'
      BY <1>6, GotoTyped DEF EnsureStateDisk, Starting
    <2>3. DownTyped'
      BY <1>6, GotoTyped DEF EnsureStateDisk, DownTyped, instance, Starting
    <2> QED  BY <2>1, <2>2, <2>3
  <1>7. ASSUME Create \/ CreateIsCut PROVE Typed'
    <2>1. TypeOK'
      <3>1. setup' = "none" /\ mounted' = FALSE /\ helper' = FALSE
        BY <1>7 DEF Create, CreateIsCut, TypeOK, DownTyped, boot
      <3>2. built' \in Definitions \cup {0}
        BY <1>7 DEF Create, CreateIsCut, CmdTyped
      <3> QED  BY <1>7, <3>1, <3>2 DEF Create, CreateIsCut, TypeOK, stateDisk, storage, held
    <2> QED  BY <1>7, <2>1, GotoTyped, EndsTyped DEF Create, CreateIsCut, DownTyped, Starting
  <1>8. ASSUME BringUp PROVE Typed'
    <2>1. TypeOK'
      BY <1>8 DEF BringUp, TypeOK, storage, held
    <2> QED  BY <1>8, <2>1, GotoTyped, EndsTyped DEF BringUp, DownTyped, Starting
  <1>9. ASSUME Waited \/ GivesUp \/ Admit \/ HelperRefuses \/ CommandKilled PROVE Typed'
    <2>1. TypeOK'
      BY <1>9 DEF Waited, GivesUp, Admit, HelperRefuses, CommandKilled, OnlyCmd, TypeOK, instance, boot,
                  stateDisk, storage, held
    <2>2. CASE Admit
      <3>1. CASE Ends
        BY <2>1, <3>1, EndsTyped
      <3>2. CASE Goto("stop") /\ cmd.op = "drop"
        BY <2>1, <2>2, <3>2, GotoTyped DEF Admit, DownTyped
      <3>3. CASE Goto("helper") /\ cmd.op \notin {"rebuild", "drop"}
        <4>1. cmd.op \in {"start", "resume", "reach"}
          BY <2>2, <3>3 DEF Admit, CmdTyped, Idle
        <4> QED  BY <2>1, <2>2, <3>3, <4>1, GotoTyped DEF Admit, DownTyped
      <3> QED  BY <2>2, <3>1, <3>2, <3>3 DEF Admit
    <2> QED  BY <1>9, <2>1, <2>2, GotoTyped, EndsTyped
             DEF Waited, GivesUp, HelperRefuses, CommandKilled, DownTyped, Starting
  <1>10. ASSUME NEW i \in Ids,
                Mkfs(i) \/ Furnish(i) \/ Chmod(i) PROVE Typed'
    <2>1. cmd.op \in {"start", "resume", "reach"}
      BY <1>10 DEF Mkfs, Furnish, Chmod, Makes, At, CmdTyped, Making
    <2>2. PICK step \in {"mkdir", "chmod", "use"} : Goto(step) /\ cmd.at # "idle"
      BY <1>10 DEF Mkfs, Furnish, Chmod, Makes, At
    <2>3. TypeOK'
      BY <1>10, StagesAre
      DEF Mkfs, Furnish, Chmod, Makes, TypeOK, instance, boot, stateDisk, held
    <2> QED  BY <2>1, <2>2, <2>3, GotoTyped DEF DownTyped, Making
  <1>11. ASSUME NEW i \in Ids, CreateImage(i) PROVE Typed'
    <2>1. cmd.op \in {"start", "resume", "reach"}
      BY <1>11 DEF CreateImage, At, CmdTyped
    <2>2. TypeOK'
      BY <1>11, StagesAre DEF CreateImage, TypeOK, instance, boot, stateDisk, held
    <2> QED  BY <1>11, <2>1, <2>2, GotoTyped DEF CreateImage, At, DownTyped, Making
  <1>12. ASSUME NEW i \in Ids, Mkdir(i) \/ MountNew(i) PROVE Typed'
    <2>1. cmd.op \in {"start", "resume", "reach"}
      BY <1>12 DEF Mkdir, MountNew, At, CmdTyped, Making
    <2>2. TypeOK'
      BY <1>12 DEF Mkdir, MountNew, TypeOK, instance, boot, stateDisk, held
    <2> QED  BY <1>12, <2>1, <2>2, GotoTyped DEF Mkdir, MountNew, At, DownTyped, Making
  <1>13. ASSUME NEW i \in Ids, CleanupPartial(i) PROVE Typed'
    <2>1. TypeOK'
      BY <1>13, StagesAre DEF CleanupPartial, TypeOK, instance, boot, stateDisk, held
    <2> QED  BY <1>13, <2>1, EndsTyped DEF CleanupPartial
  <1>14. ASSUME NEW i \in Ids, Verify(i) PROVE Typed'
    <2>1. TypeOK'
      BY <1>14 DEF Verify, TypeOK, instance, boot, stateDisk, held
    <2>2. cmd.op \in {"start", "resume", "reach"}
      BY <1>14 DEF Verify, At, CmdTyped
    <2> QED  BY <1>14, <2>1, <2>2, GotoTyped, EndsTyped DEF Verify, At, DownTyped
  <1>15. ASSUME NEW i \in Ids, Use(i) PROVE Typed'
    <2>1. TypeOK'
      <3>1. live' \subseteq Runs
        BY <1>15 DEF Use, TypeOK
      <3> QED  BY <1>15, <3>1 DEF Use, TypeOK, instance, boot, stateDisk, storage
    <2> QED  BY <1>15, <2>1, EndsTyped DEF Use
  <1>16. ASSUME NEW i \in Ids, StopContainer(i) \/ Unmount(i) \/ Rmdir(i) \/ RemoveImage(i)
         PROVE  Typed'
    <2>1. TypeOK'
      BY <1>16, StagesAre
      DEF StopContainer, Unmount, Rmdir, RemoveImage, TypeOK, instance, boot, stateDisk, storage, held
    <2>2. cmd.op = "drop"
      BY <1>16 DEF StopContainer, Unmount, Rmdir, RemoveImage, At, CmdTyped, Removing
    <2> QED  BY <1>16, <2>1, <2>2, GotoTyped, EndsTyped
             DEF StopContainer, Unmount, Rmdir, RemoveImage, At, DownTyped, Removing
  <1>17. ASSUME DeleteShutsDown \/ DeleteKills PROVE Typed'
    <2>1. cmd.op = "rebuild"
      BY <1>17 DEF DeleteShutsDown, DeleteKills, CmdTyped
    <2>2. TypeOK'
      <3>1. CASE DeleteShutsDown
        BY <3>1 DEF DeleteShutsDown, ShutDown, BootIsOver, TypeOK, instance, boot, stateDisk, storage, held
      <3>2. CASE DeleteKills
        BY <3>2 DEF DeleteKills, CutOff, BootIsOver, TypeOK, stateDisk
      <3> QED  BY <1>17, <3>1, <3>2
    <2>3. cmd.at # "idle" /\ Goto("delete") /\ status' # "running"
      BY <1>17 DEF DeleteShutsDown, DeleteKills, ShutDown, CutOff, instance
    <2> QED  BY <2>1, <2>2, <2>3, GotoTyped DEF DownTyped
  <1>18. ASSUME DeleteInstance \/ UnlockStateDisk PROVE Typed'
    <2>1. cmd.op = "rebuild" /\ status # "running"
      BY <1>18 DEF DeleteInstance, UnlockStateDisk, CmdTyped, DownTyped
    <2>2. TypeOK'
      <3>1. setup' = "none" /\ mounted' = FALSE
        BY <1>18, <2>1 DEF DeleteInstance, UnlockStateDisk, TypeOK, boot
      <3>2. helper' \in BOOLEAN
        BY <1>18 DEF DeleteInstance, UnlockStateDisk, TypeOK, instance
      <3> QED
        BY <1>18, <2>1, <3>1, <3>2
        DEF DeleteInstance, UnlockStateDisk, TypeOK, instance, storage, held
    <2>3. CmdTyped'
      BY <1>18, <2>1, GotoTyped DEF DeleteInstance, UnlockStateDisk, Starting
    <2>4. status' # "running"
      BY <1>18, <2>1 DEF DeleteInstance, UnlockStateDisk, instance
    <2> QED  BY <2>2, <2>3, <2>4 DEF DownTyped
  <1>19. ASSUME DefinitionChanges \/ UNCHANGED vars PROVE Typed'
    <2>1. TypeOK'
      BY <1>19 DEF DefinitionChanges, vars, TypeOK, instance, boot, stateDisk, storage, held
    <2> QED  BY <1>19, <2>1, SameCmdTyped DEF DefinitionChanges, vars, DownTyped, instance
  <1> QED
    BY <1>1, <1>2, <1>3, <1>4, <1>5, <1>6, <1>7, <1>8, <1>9, <1>10, <1>11, <1>12, <1>13, <1>14,
       <1>15, <1>16, <1>17, <1>18, <1>19
    DEF Next, CommandSteps, BeginStart, BeginReach, BeginDrop

(***************************************************************************)
(* What a command knows of the VM and of its filesystem at each of its     *)
(* steps, for as long as the VM is up.                                     *)
(***************************************************************************)
\* The VM the filesystem is used from is the one the boot script left.
BootSound ==
    /\ setup = "ready" => mounted
    /\ status = "running" /\ cmd.at \in {"helper", "use"} \cup Making /\ cmd.op \in {"start", "resume"}
         => setup = "ready"
    /\ status = "running" /\ cmd.at \in {"use"} \cup Making => mounted

\* How much of the filesystem there is.
MadeSound ==
    status = "running" =>
      /\ cmd.at \in {"mount", "furnish", "chmod", "use"} => cmd.id \in root
      /\ cmd.at \in {"furnish", "chmod", "use"} => cmd.id \in loop
      /\ cmd.at = "use" => image[cmd.id] = Whole

\* Nothing runs in what is being made or removed.
AwaySound == cmd.at \in Making \cup Removing => cmd.id \notin live

LiveSound == Typed /\ LiveRunsAreSound /\ BootSound /\ MadeSound /\ AwaySound

LEMMA InitLive == Init => LiveSound
  <1> SUFFICES ASSUME Init PROVE LiveSound
    OBVIOUS
  <1>1. LiveRunsAreSound
    BY DEF Init, LiveRunsAreSound
  <1>2. BootSound /\ MadeSound /\ AwaySound
    BY DEF Init, BootSound, MadeSound, AwaySound, Idle, Making, Removing
  <1> QED  BY <1>1, <1>2, InitTyped DEF LiveSound

\* A step from which the VM comes back down, or from which no run is in use.
LEMMA DownIsSound ==
    ASSUME Typed, status' # "running", live' = {}, setup' = "none" PROVE LiveRunsAreSound' /\ BootSound' /\ MadeSound' /\ AwaySound'
  BY DEF LiveRunsAreSound, BootSound, MadeSound, AwaySound

\* A command that waits, looks or ends knows nothing yet.
LEMMA OutsideIsSound ==
    ASSUME LiveSound, cmd'.at \in {"idle", "stop", "shutdown", "delete", "unlock"} \cup Starting,
           setup' = "ready" => mounted', LiveRunsAreSound'
    PROVE  BootSound' /\ MadeSound' /\ AwaySound'
  BY DEF BootSound, MadeSound, AwaySound, Starting, Making, Removing

LEMMA LiveStep == LiveSound /\ [Next]_vars => LiveSound'
  <1> SUFFICES ASSUME LiveSound, [Next]_vars PROVE LiveSound'
    OBVIOUS
  <1> USE DEF LiveSound
  <1>t. Typed'
    BY TypedStep
  <1>e. Ends => cmd'.at = "idle"
    BY DEF Ends, Idle
  <1>g. ASSUME NEW step, Goto(step), cmd.at # "idle"
        PROVE  cmd'.at = step /\ cmd'.op = cmd.op /\ cmd'.id = cmd.id
    BY <1>g DEF Goto, Typed, CmdTyped
  <1>1. ASSUME PowerCut \/ MacRestarts \/ DeleteKills \/ (DeleteShutsDown /\ status = "running")
        PROVE  LiveSound'
    <2>1. status' # "running" /\ live' = {} /\ setup' = "none"
      BY <1>1 DEF PowerCut, MacRestarts, DeleteKills, DeleteShutsDown, ShutDown, CutOff, BootIsOver
    <2> QED  BY <1>t, <2>1, DownIsSound
  <1>2. ASSUME BootSteps \/ SetupFails PROVE LiveSound'
    <2>1. /\ setup = "setting-up" /\ cmd' = cmd /\ status' = status /\ live' = live
      BY <1>2 DEF BootSteps, MountState, FormatState, FinishSetup, SetUpWithoutState, SetupFails,
                  SettingUp, instance, held
    <2>2. live = {}
      BY <2>1 DEF LiveRunsAreSound
    <2>3. CASE FormatState
      <3>1. ~(status = "running" /\ cmd.at \in {"use"} \cup Making)
        BY <2>3 DEF FormatState, BootSound
      <3>2. setup' = setup
        BY <2>3 DEF FormatState
      <3> QED
        BY <1>t, <2>1, <2>2, <3>1, <3>2
        DEF LiveRunsAreSound, BootSound, MadeSound, AwaySound, Making, Typed, CmdTyped
    <2>4. CASE ~FormatState
      <3>1. storage' = storage /\ (mounted => mounted') /\ (setup' = "ready" => mounted')
        BY <1>2, <2>1, <2>4 DEF BootSteps, MountState, FinishSetup, SetUpWithoutState, SetupFails, boot
      <3>2. LiveRunsAreSound'
        BY <2>1, <2>2 DEF LiveRunsAreSound
      <3>3. BootSound'
        BY <2>1, <3>1 DEF BootSound
      <3>4. MadeSound' /\ AwaySound'
        BY <2>1, <3>1 DEF MadeSound, AwaySound, storage
      <3> QED  BY <1>t, <3>2, <3>3, <3>4
    <2> QED  BY <2>3, <2>4
  <1>3. ASSUME UNCHANGED <<instance, boot, stateDisk, storage, held>>,
               cmd'.at \in {"idle", "stop", "shutdown", "delete", "unlock"} \cup Starting
        PROVE  LiveSound'
    <2>1. LiveRunsAreSound'
      BY <1>3 DEF LiveRunsAreSound, boot, storage, held
    <2> QED  BY <1>3, <1>t, <2>1, OutsideIsSound DEF BootSound, boot
  <1>4. ASSUME (\E i \in Ids : BeginStart(i) \/ BeginResume(i) \/ BeginReach(i) \/ BeginDrop(i))
               \/ (\E discard \in BOOLEAN : BeginRebuild(discard))
        PROVE  LiveSound'
    <2>1. cmd'.at \in {"ensure", "bringUp", "shutdown"}
      BY <1>4 DEF BeginStart, BeginResume, BeginReach, BeginDrop, BeginRebuild, Begin
    <2>2. UNCHANGED <<instance, boot, stateDisk, storage, held>>
      BY <1>4 DEF BeginStart, BeginResume, BeginReach, BeginDrop, BeginRebuild, Begin
    <2> QED  BY <1>3, <2>1, <2>2 DEF Starting
  <1>5. ASSUME Waited \/ GivesUp \/ HelperRefuses \/ CommandKilled PROVE LiveSound'
    BY <1>5, <1>3, <1>e, <1>g
    DEF Waited, GivesUp, HelperRefuses, CommandKilled, OnlyCmd, Starting
  <1>6. ASSUME EnsureStateDisk \/ Create \/ CreateIsCut \/ UnlockStateDisk \/ DeleteInstance
        PROVE  LiveSound'
    <2>1. UNCHANGED <<boot, storage, live>>
      BY <1>6 DEF EnsureStateDisk, Create, CreateIsCut, UnlockStateDisk, DeleteInstance, held
    <2>2. LiveRunsAreSound'
      BY <2>1 DEF LiveRunsAreSound, boot, storage
    <2>3. cmd'.at \in {"idle", "ensure", "create", "bringUp", "unlock"}
      BY <1>6, <1>e, <1>g DEF EnsureStateDisk, Create, CreateIsCut, UnlockStateDisk, DeleteInstance
    <2> QED  BY <1>t, <2>1, <2>2, <2>3, OutsideIsSound DEF BootSound, boot, Starting
  <1>7. ASSUME BringUp PROVE LiveSound'
    <2>1. cmd'.at \in {"idle", "check", "wait"}
      BY <1>7, <1>e, <1>g DEF BringUp
    <2>2. setup' = "ready" => setup = "ready"
      BY <1>7 DEF BringUp
    <2>3. LiveRunsAreSound'
      <3>1. live = {} \/ setup' = setup
        BY <1>7 DEF BringUp, LiveRunsAreSound, Typed, TypeOK
      <3> QED  BY <1>7, <3>1 DEF BringUp, LiveRunsAreSound, storage, held
    <2> QED  BY <1>7, <1>t, <2>1, <2>2, <2>3, OutsideIsSound DEF BringUp, BootSound, Starting
  <1>8. ASSUME Admit PROVE LiveSound'
    <2>0. UNCHANGED <<instance, boot, stateDisk, storage, held>>
      BY <1>8 DEF Admit, OnlyCmd
    <2>1. CASE Ends \/ Goto("stop")
      BY <1>8, <1>3, <1>e, <1>g, <2>0, <2>1 DEF Admit
    <2>2. CASE Goto("helper") /\ (HeldToBoundary \/ Unverified)
      <3>1. cmd'.at = "helper" /\ cmd'.op = cmd.op
        BY <1>8, <1>g, <2>2 DEF Admit
      <3>2. LiveRunsAreSound'
        BY <2>0 DEF LiveRunsAreSound, boot, storage, held
      <3>3. BootSound'
        BY <2>0, <2>2, <3>1 DEF BootSound, boot, HeldToBoundary, Unverified, Making
      <3>4. MadeSound' /\ AwaySound'
        BY <3>1 DEF MadeSound, AwaySound, Making, Removing
      <3> QED  BY <1>t, <3>2, <3>3, <3>4
    <2> QED  BY <1>8, <2>1, <2>2 DEF Admit
  <1>9. ASSUME NEW i \in Ids, CreateImage(i) PROVE LiveSound'
    <2>1. mounted /\ image[i] = NoImage /\ cmd.id = i /\ cmd'.at = "mkfs" /\ cmd'.id = i /\ cmd'.op = cmd.op
      BY <1>9, <1>g DEF CreateImage, OnStateDisk, Exists, At
    <2>2. i \notin live
      BY <2>1 DEF LiveRunsAreSound, NoImage, Whole
    <2>3. LiveRunsAreSound'
      BY <1>9, <2>1, <2>2 DEF CreateImage, LiveRunsAreSound, boot, held, Typed, TypeOK
    <2>4. BootSound'
      BY <1>9, <2>1 DEF CreateImage, BootSound, boot, instance, At, Making
    <2>5. MadeSound' /\ AwaySound'
      BY <1>9, <2>1, <2>2 DEF CreateImage, MadeSound, AwaySound, held, Removing
    <2> QED  BY <1>t, <2>3, <2>4, <2>5
  <1>10. ASSUME NEW i \in Ids, Mkfs(i) \/ Furnish(i) \/ Chmod(i) PROVE LiveSound'
    <2>1. PICK made \in 0 .. 4, next \in {"mkdir", "chmod", "use"} :
              /\ image' = [image EXCEPT ![i] = made]
              /\ Goto(next) /\ cmd.id = i /\ status = "running"
              /\ UNCHANGED <<instance, boot, root, loop, held>>
              /\ next # "mkdir" => i \in root \cap loop
              /\ next = "use" => made = Whole
              /\ cmd.at \in Making
      BY <1>10 DEF Mkfs, Furnish, Chmod, Makes, At, Making, MadeSound, Formatted, Furnished, Whole
    <2>2. cmd'.at = next /\ cmd'.id = i /\ cmd'.op = cmd.op
      BY <1>g, <2>1 DEF Making
    <2>3. i \notin live
      BY <2>1 DEF AwaySound
    <2>4. LiveRunsAreSound'
      BY <2>1, <2>3 DEF LiveRunsAreSound, boot, held, Typed, TypeOK
    <2>5. BootSound'
      BY <2>1, <2>2 DEF BootSound, boot, instance, Making
    <2>6. MadeSound'
      BY <2>1, <2>2 DEF MadeSound, Typed, TypeOK
    <2>7. AwaySound'
      BY <2>1, <2>2, <2>3 DEF AwaySound, held
    <2> QED  BY <1>t, <2>4, <2>5, <2>6, <2>7
  <1>11. ASSUME NEW i \in Ids, Mkdir(i) \/ MountNew(i) PROVE LiveSound'
    <2>1. PICK next \in {"mount", "furnish"} :
              /\ cmd'.at = next /\ cmd'.id = i /\ cmd'.op = cmd.op /\ cmd.id = i
              /\ cmd.at \in Making /\ status = "running"
              /\ UNCHANGED <<instance, boot, image, held>>
              /\ root \subseteq root' /\ loop \subseteq loop'
              /\ i \in root' /\ (next = "furnish" => i \in loop')
      BY <1>11, <1>g DEF Mkdir, MountNew, At, Making, MadeSound
    <2>2. LiveRunsAreSound'
      BY <2>1 DEF LiveRunsAreSound, boot, held
    <2>3. BootSound'
      BY <2>1 DEF BootSound, boot, instance, Making
    <2>4. MadeSound' /\ AwaySound'
      BY <2>1 DEF MadeSound, AwaySound, held, Making
    <2> QED  BY <1>t, <2>2, <2>3, <2>4
  <1>12. ASSUME NEW i \in Ids, CleanupPartial(i) PROVE LiveSound'
    <2>1. i \notin live
      BY <1>12 DEF CleanupPartial, AwaySound, Making
    <2>2. LiveRunsAreSound'
      BY <1>12, <2>1 DEF CleanupPartial, LiveRunsAreSound, boot, held, Typed, TypeOK
    <2> QED  BY <1>12, <1>e, <1>t, <2>2, OutsideIsSound DEF CleanupPartial, BootSound, boot
  <1>13. ASSUME NEW i \in Ids, Verify(i) PROVE LiveSound'
    <2>1. LiveRunsAreSound'
      BY <1>13 DEF Verify, LiveRunsAreSound, boot, held
    <2>2. CASE Sound(i)
      <3>1. /\ cmd'.at = "use" /\ cmd'.id = i /\ cmd'.op = cmd.op /\ cmd.at = "helper"
            /\ mounted /\ i \in root' \cap loop' /\ image'[i] = Whole
        BY <1>13, <2>2, <1>g DEF Verify, Sound, At, OnStateDisk, Whole, Formatted
      <3>2. BootSound'
        BY <1>13, <3>1 DEF Verify, BootSound, boot, instance
      <3>3. MadeSound' /\ AwaySound'
        BY <3>1 DEF MadeSound, AwaySound, Making, Removing
      <3> QED  BY <1>t, <2>1, <3>2, <3>3
    <2>3. CASE ~Sound(i)
      BY <1>13, <1>e, <1>t, <2>1, <2>3, OutsideIsSound DEF Verify, BootSound, boot
    <2> QED  BY <2>2, <2>3
  <1>14. ASSUME NEW i \in Ids, Use(i) PROVE LiveSound'
    <2>1. i \in live' /\ i \notin live => setup = "ready" /\ mounted /\ i \in root \cap loop /\ image[i] = Whole
      <3>1. cmd.op \in {"start", "resume", "reach"} /\ cmd.id = i /\ status = "running" /\ cmd.at = "use"
        BY <1>14 DEF Use, At, Typed, CmdTyped
      <3>2. i \in live' /\ i \notin live => cmd.op \in {"start", "resume"}
        BY <1>14, <3>1 DEF Use, Unverified
      <3> QED  BY <3>1, <3>2 DEF BootSound, MadeSound
    <2>2. LiveRunsAreSound'
      BY <1>14, <2>1 DEF Use, LiveRunsAreSound, boot, storage
    <2> QED  BY <1>14, <1>e, <1>t, <2>2, OutsideIsSound DEF Use, BootSound, boot
  <1>15. ASSUME NEW i \in Ids, StopContainer(i) \/ Unmount(i) \/ Rmdir(i) \/ RemoveImage(i)
         PROVE  LiveSound'
    <2>1. /\ cmd.id = i /\ status = "running" /\ UNCHANGED boot
          /\ \/ cmd'.at = "idle"
             \/ cmd'.at \in Removing /\ cmd'.id = i
          /\ live' \subseteq live /\ i \notin live'
      BY <1>15, <1>e, <1>g
      DEF StopContainer, Unmount, Rmdir, RemoveImage, At, Removing, AwaySound, held
    <2>2. \A j \in Ids \ {i} : /\ image'[j] = image[j]
                               /\ j \in root => j \in root'
                               /\ j \in loop => j \in loop'
      BY <1>15 DEF StopContainer, Unmount, Rmdir, RemoveImage, storage, Typed, TypeOK
    <2>3. LiveRunsAreSound'
      <3>1. ASSUME NEW j \in live' PROVE j \in live /\ j \in Ids \ {i}
        BY <2>1, <3>1 DEF Typed, TypeOK, Ids
      <3>2. ASSUME NEW j \in live' PROVE image'[j] = Whole /\ j \in root' \cap loop'
        BY <2>2, <3>1, <3>2 DEF LiveRunsAreSound
      <3> QED  BY <2>1, <3>1, <3>2 DEF LiveRunsAreSound, boot
    <2>4. BootSound' /\ MadeSound' /\ AwaySound'
      BY <2>1 DEF BootSound, MadeSound, AwaySound, boot, Making, Removing
    <2> QED  BY <1>t, <2>3, <2>4
  <1>16. ASSUME DeleteShutsDown, status # "running" PROVE LiveSound'
    BY <1>16, <1>3, <1>g DEF DeleteShutsDown
  <1>17. ASSUME DefinitionChanges \/ UNCHANGED vars PROVE LiveSound'
    <2>1. UNCHANGED <<instance, boot, storage, held, cmd>>
      BY <1>17 DEF DefinitionChanges, vars
    <2>2. LiveRunsAreSound'
      BY <2>1 DEF LiveRunsAreSound, boot, storage, held
    <2>3. BootSound' /\ MadeSound' /\ AwaySound'
      BY <2>1 DEF BootSound, MadeSound, AwaySound, boot, storage, held, instance
    <2> QED  BY <1>t, <2>2, <2>3
  <1> QED
    BY <1>1, <1>2, <1>4, <1>5, <1>6, <1>7, <1>8, <1>9, <1>10, <1>11, <1>12, <1>13, <1>14, <1>15,
       <1>16, <1>17
    DEF Next, CommandSteps

\* What runs is sound: no start, no resume, no retry after a failure and no boot
\* leaves a container on a filesystem that is unfinished, unmounted or elsewhere.
THEOREM ContainersRunOnWholeFilesystems == Spec => []LiveRunsAreSound
  <1>1. LiveSound => LiveRunsAreSound
    BY DEF LiveSound
  <1> QED  BY InitLive, LiveStep, <1>1, PTL DEF Spec

\* The variables keep their types, and a command the steps of its operation.
THEOREM TypeCorrect == Spec => []TypeOK
  <1>1. Typed => TypeOK
    BY DEF Typed
  <1> QED  BY InitTyped, TypedStep, <1>1, PTL DEF Spec

(***************************************************************************)
(* Work is kept.                                                           *)
(***************************************************************************)
\* Work is only ever on a labelled state disk, or on the disk of an instance that
\* predates it and that only --discard-state may take along.
KeptSound ==
    /\ Typed
    /\ stray # {} => disk = "absent" /\ status # "absent"
    /\ mounted => disk = "labelled"
    /\ disk # "labelled" => work \subseteq stray
    /\ cmd.op = "rebuild" /\ cmd.at \in {"shutdown", "delete"} /\ stray # {} => cmd.discard

LEMMA InitKept == Init => KeptSound
  <1> SUFFICES ASSUME Init PROVE KeptSound
    OBVIOUS
  <1> QED  BY InitTyped DEF Init, KeptSound, Idle

\* A cut takes only work that no shutdown has flushed.
LEMMA CutKept ==
    ASSUME NEW to \in {"stopped", "broken"}, CutOff(to), Mishap
    PROVE  /\ status' = to /\ ~mounted' /\ UNCHANGED <<disk, stray>>
           /\ work' \subseteq work
           /\ \A i \in work \ work' : NeverFlushed(i)
  BY DEF CutOff, BootIsOver, stateDisk, NeverFlushed

LEMMA KeptStep ==
    LiveSound /\ KeptSound /\ [Next]_vars =>
      /\ KeptSound'
      /\ \A i \in work \ work' : \/ cmd.op = "drop" /\ cmd.id = i
                                 \/ cmd.op = "rebuild" /\ cmd.discard /\ i \in stray
                                 \/ NeverFlushed(i)
                                 \/ Misprobed
  <1> DEFINE Went == \A i \in work \ work' : \/ cmd.op = "drop" /\ cmd.id = i
                                             \/ cmd.op = "rebuild" /\ cmd.discard /\ i \in stray
                                             \/ NeverFlushed(i)
                                             \/ Misprobed
  <1> SUFFICES ASSUME LiveSound, KeptSound, [Next]_vars PROVE KeptSound' /\ Went
    OBVIOUS
  <1>t. Typed /\ Typed'
    BY TypedStep DEF KeptSound
  <1>e. Ends => cmd'.op = "none"
    BY DEF Ends, Idle
  <1>g. ASSUME NEW step, Goto(step), cmd.at # "idle"
        PROVE  cmd'.at = step /\ cmd'.op = cmd.op /\ cmd'.id = cmd.id /\ cmd'.discard = cmd.discard
    BY <1>g, <1>t DEF Goto, Typed, CmdTyped
  <1>1. ASSUME UNCHANGED <<status, disk, stray, cmd>>, mounted' = mounted \/ ~mounted',
               work' = work
        PROVE  KeptSound' /\ Went
    BY <1>1, <1>t DEF KeptSound
  <1>2. ASSUME PowerCut \/ MacRestarts \/ SetupFails \/ FinishSetup \/ SetUpWithoutState
               \/ DefinitionChanges \/ UNCHANGED vars
        PROVE  KeptSound' /\ Went
    <2>1. CASE PowerCut
      BY <2>1, <1>t, CutKept DEF PowerCut, KeptSound
    <2>3. CASE MacRestarts
      BY <2>3, <1>t DEF MacRestarts, ShutDown, BootIsOver, KeptSound
    <2>2. CASE SetupFails \/ FinishSetup \/ SetUpWithoutState \/ DefinitionChanges \/ UNCHANGED vars
      BY <1>1, <2>2
      DEF SetupFails, FinishSetup, SetUpWithoutState, DefinitionChanges, vars, instance, boot,
          stateDisk, held
    <2> QED  BY <1>2, <2>1, <2>2, <2>3
  <1>3. ASSUME MountState \/ FormatState PROVE KeptSound' /\ Went
    <2>1. CASE MountState
      BY <2>1, <1>t DEF MountState, KeptSound, instance, stateDisk, held
    <2>2. CASE FormatState
      <3>0. /\ disk' = "labelled" /\ mounted' /\ ~mounted /\ Candidate
            /\ work' = work \cap stray
            /\ UNCHANGED <<status, stray, cmd>>
        BY <2>2 DEF FormatState, instance
      <3>1. stray # {} => disk = "absent"
        BY DEF KeptSound
      <3>2. disk # "absent"
        BY <3>0 DEF Candidate
      <3>3. KeptSound'
        BY <3>0, <3>1, <3>2, <1>t DEF KeptSound
      <3>4. ASSUME disk = "labelled" PROVE Went
        BY <3>0, <3>4 DEF Candidate, Misprobed
      <3>5. ASSUME disk # "labelled" PROVE Went
        BY <3>0, <3>5 DEF KeptSound
      <3> QED  BY <3>3, <3>4, <3>5
    <2> QED  BY <1>3, <2>1, <2>2
  <1>4. ASSUME (\E i \in Ids : BeginStart(i) \/ BeginResume(i) \/ BeginReach(i) \/ BeginDrop(i))
        PROVE  KeptSound' /\ Went
    <2>1. cmd'.op # "rebuild" /\ UNCHANGED <<instance, boot, stateDisk, held>>
      BY <1>4 DEF BeginStart, BeginResume, BeginReach, BeginDrop, Begin
    <2> QED  BY <1>t, <2>1 DEF KeptSound, instance, boot, stateDisk, held
  <1>5. ASSUME NEW discard \in BOOLEAN, BeginRebuild(discard) PROVE KeptSound' /\ Went
    <2>1. cmd'.discard = discard /\ UNCHANGED <<instance, boot, stateDisk, held>>
      BY <1>5 DEF BeginRebuild, Begin
    <2> QED  BY <1>5, <1>t, <2>1 DEF BeginRebuild, Loses, KeptSound, instance, boot, stateDisk, held
  <1>6. ASSUME EnsureStateDisk PROVE KeptSound' /\ Went
    BY <1>6, <1>t, <1>g DEF EnsureStateDisk, KeptSound, instance, boot, held
  <1>7. ASSUME Create \/ CreateIsCut \/ BringUp PROVE KeptSound' /\ Went
    <2>1. cmd'.op = "none" \/ cmd'.at \in {"bringUp", "check", "wait"}
      BY <1>7, <1>e, <1>g DEF Create, CreateIsCut, BringUp
    <2>2. /\ UNCHANGED <<mounted, disk, stray, work>>
          /\ status # "absent" => status' # "absent"
      BY <1>7 DEF Create, CreateIsCut, BringUp, boot, stateDisk, held
    <2> QED  BY <1>t, <2>1, <2>2 DEF KeptSound
  <1>8. ASSUME Waited \/ GivesUp \/ Admit \/ HelperRefuses \/ CommandKilled PROVE KeptSound' /\ Went
    <2>1. cmd'.op = "none" \/ cmd'.at \in {"check", "stop", "helper"}
      BY <1>8, <1>e, <1>g DEF Waited, GivesUp, Admit, HelperRefuses, CommandKilled
    <2>2. UNCHANGED <<instance, boot, stateDisk, held>>
      BY <1>8 DEF Waited, GivesUp, Admit, HelperRefuses, CommandKilled, OnlyCmd
    <2> QED  BY <1>t, <2>1, <2>2 DEF KeptSound, instance, boot, stateDisk, held
  <1>9. ASSUME NEW i \in Ids,
               \/ CreateImage(i) \/ Mkfs(i) \/ Mkdir(i) \/ MountNew(i) \/ Furnish(i) \/ Chmod(i)
               \/ CleanupPartial(i) \/ Verify(i) \/ StopContainer(i) \/ Unmount(i) \/ Rmdir(i)
        PROVE  KeptSound' /\ Went
    <2>1. cmd'.op = "none" \/ cmd'.at \notin {"shutdown", "delete"}
      BY <1>9, <1>e, <1>g
      DEF CreateImage, Mkfs, Mkdir, MountNew, Furnish, Chmod, Makes, CleanupPartial, Verify,
          StopContainer, Unmount, Rmdir, At
    <2>2. UNCHANGED <<status, mounted, disk, stray, work>>
      BY <1>9
      DEF CreateImage, Mkfs, Mkdir, MountNew, Furnish, Chmod, Makes, CleanupPartial, Verify,
          StopContainer, Unmount, Rmdir, OnStateDisk, instance, boot, stateDisk, held
    <2> QED  BY <1>t, <2>1, <2>2 DEF KeptSound
  <1>10. ASSUME NEW i \in Ids, Use(i) \/ RemoveImage(i) PROVE KeptSound' /\ Went
    <2>1. cmd'.op # "rebuild" \/ cmd'.at = "idle"
      BY <1>10, <1>e DEF Use, RemoveImage
    <2>2. UNCHANGED <<status, mounted, disk, stray>>
      BY <1>10 DEF Use, RemoveImage, instance, boot, stateDisk
    <2>3. CASE Use(i)
      <3>1. disk = "labelled"
        BY <2>3 DEF Use, At, LiveSound, BootSound, KeptSound
      <3> QED  BY <1>t, <2>1, <2>2, <2>3, <3>1 DEF Use, KeptSound
    <2>4. CASE RemoveImage(i)
      <3>1. cmd.op = "drop" /\ cmd.id = i
        BY <2>4, <1>t DEF RemoveImage, At, Typed, CmdTyped, Removing
      <3> QED  BY <1>t, <2>1, <2>2, <2>4, <3>1 DEF RemoveImage, KeptSound
    <2> QED  BY <1>10, <2>3, <2>4
  <1>11. ASSUME DeleteShutsDown \/ DeleteKills PROVE KeptSound' /\ Went
    <2>1. cmd'.discard = cmd.discard /\ cmd'.op = cmd.op /\ cmd.op = "rebuild"
      BY <1>11, <1>g, <1>t DEF DeleteShutsDown, DeleteKills, Typed, CmdTyped
    <2>2. CASE DeleteShutsDown
      <3>1. /\ UNCHANGED <<disk, stray, work>>
            /\ mounted' => mounted
            /\ status' = "absent" => status = "absent"
        BY <2>2
        DEF DeleteShutsDown, ShutDown, BootIsOver, instance, boot, stateDisk, held
      <3> QED  BY <2>2, <1>t, <2>1, <3>1 DEF DeleteShutsDown, KeptSound
    <2>3. CASE DeleteKills
      BY <2>3, <1>t, <2>1, CutKept DEF DeleteKills, KeptSound
    <2> QED  BY <1>11, <2>2, <2>3
  <1>12. ASSUME DeleteInstance \/ UnlockStateDisk PROVE KeptSound' /\ Went
    <2>1. cmd.op = "rebuild" /\ cmd'.at \in {"unlock", "ensure"}
      BY <1>12, <1>g, <1>t DEF DeleteInstance, UnlockStateDisk, Typed, CmdTyped
    <2> QED
      BY <1>12, <1>t, <2>1
      DEF DeleteInstance, UnlockStateDisk, KeptSound, instance, boot, held
  <1> QED
    BY <1>2, <1>3, <1>4, <1>5, <1>6, <1>7, <1>8, <1>9, <1>10, <1>11, <1>12
    DEF Next, CommandSteps, BootSteps

LEMMA SoundAndKept == Spec => [](LiveSound /\ KeptSound)
  <1>1. Init => LiveSound /\ KeptSound
    BY InitLive, InitKept
  <1>2. LiveSound /\ KeptSound /\ [Next]_vars => (LiveSound /\ KeptSound)'
    BY LiveStep, KeptStep
  <1> QED  BY <1>1, <1>2, PTL DEF Spec

\* Work goes with a drop of its run or project, with a rebuild that was told to
\* discard it, or in one of the two mishaps WorkIsKept names.
THEOREM WorkGoesOnlyWhenAsked == Spec => WorkIsKept
  <1>1. LiveSound /\ KeptSound /\ [Next]_vars =>
          [\A i \in work \ work' : \/ cmd.op = "drop" /\ cmd.id = i
                                   \/ cmd.op = "rebuild" /\ cmd.discard /\ i \in stray
                                   \/ NeverFlushed(i)
                                   \/ Misprobed]_vars
    BY KeptStep
  <1> QED  BY <1>1, SoundAndKept, PTL DEF Spec, WorkIsKept
==============================================================================
