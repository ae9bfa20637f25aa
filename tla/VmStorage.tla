------------------------------ MODULE VmStorage ------------------------------
(***************************************************************************)
(* The VM, the state disk that outlives it, and the filesystems on it: the *)
(* Lima manager's commands, the script every boot runs, the storage helper *)
(* that script installs, and pisafe vm rebuild.  The helper is a sequence  *)
(* of commands and so is a rebuild; either can be killed between two of    *)
(* them, and the VM can lose its power under both.                         *)
(*                                                                         *)
(* A filesystem is an image and the directory it is mounted at, both on    *)
(* the state disk.  Only a VM that shuts down flushes that disk; the rest  *)
(* is up to its kernel.  Lima is modelled by what the code says of it.     *)
(* One command runs at a time; a run's container outlives the command.     *)
(***************************************************************************)
EXTENDS Integers, FiniteSets

CONSTANTS
    Runs,           \* run filesystems, created once
    Projects,       \* project filesystems, ensured by every run
    Definitions,    \* VM definitions: what the template and the networks make
    MaxEvents       \* bound: failures, kills, power cuts and changes of definition

ASSUME FilesystemsAssumption == Runs \cap Projects = {}
ASSUME DefinitionsAssumption == Definitions \subseteq Nat \ {0} /\ 1 \in Definitions
ASSUME VmBoundsAssumption == MaxEvents \in Nat

VARIABLES
    status,     \* Lima's: absent, stopped, running or broken ...
    built,      \* ... the definition the instance was built from, or 0 ...
    helper,     \* ... and whether its helper is installed
    setup,      \* how far this boot's setup got
    mounted,    \* the state disk is mounted at /var/lib/pisafe
    disk,       \* the state disk: absent, blank or labelled
    lock,       \* whose name is on it: no one's, the instance's, a gone one's
    image,      \* each filesystem's image: how far its making got ...
    root,       \* ... whether its directory is there ...
    loop,       \* ... and whether it is mounted there
    unsynced,   \* filesystems made since the VM last shut down
    stray,      \* filesystems on the instance's own disk
    work,       \* filesystems that hold all the work done in them
    dirty,      \* those with work done since the VM last shut down
    live,       \* runs with a container
    cmd,        \* the command under way and the step it has reached
    wanted,     \* the definition the controller would build now
    spent       \* how many of those events so far

instance == <<status, built, helper>>
boot == <<setup, mounted>>
stateDisk == <<disk, lock>>
storage == <<image, root, loop, unsynced>>
held == <<stray, work, dirty, live>>
vars == <<instance, boot, stateDisk, storage, held, cmd, wanted, spent>>

Ids == Runs \cup Projects

\* The stages of an image, in the order create makes them.
NoImage == 0
Sized == 1
Formatted == 2
Furnished == 3
Whole == 4

Idle == [op |-> "none", at |-> "idle", id |-> 0, def |-> 0, discard |-> FALSE]
Goto(step) == cmd' = [cmd EXCEPT !.at = step]
Ends == cmd' = Idle

\* No VM yet, or one that predates the state disk and keeps its work itself.
Init ==
    /\ disk = "absent" /\ lock = "free"
    /\ \/ status = "absent" /\ setup = "none" /\ stray = {}
       \/ status = "running" /\ setup = "incomplete" /\ stray = Ids
    /\ built = 0 /\ helper = FALSE
    /\ mounted = FALSE
    /\ image = [i \in Ids |-> NoImage] /\ root = {} /\ loop = {} /\ unsynced = {}
    /\ work = stray /\ dirty = {}
    /\ live = {}
    /\ cmd = Idle
    /\ wanted = 1
    /\ spent = 0

Mishap ==
    /\ spent < MaxEvents
    /\ spent' = spent + 1

-----------------------------------------------------------------------------
(***************************************************************************)
(* The instance goes down.                                                 *)
(***************************************************************************)
\* What a boot set up lives in memory, containers included.
BootIsOver == setup' = "none" /\ mounted' = FALSE /\ loop' = {} /\ live' = {}

ShutDown ==
    /\ status' = "stopped" /\ lock' = "free"
    /\ BootIsOver
    /\ unsynced' = {} /\ dirty' = {}
    /\ UNCHANGED <<built, helper, disk, image, root, stray, work>>

\* What the kernel did not get to write back is lost, little or much: the work, or
\* the making of a filesystem from some stage on with the work in it, and its
\* directory or not.  The lock stays on the disk.
CutOff(to) ==
    /\ status' = to
    /\ BootIsOver
    /\ image' \in {made \in [Ids -> NoImage .. Whole] :
                     \A i \in Ids : IF i \in unsynced THEN made[i] <= image[i]
                                    ELSE made[i] = image[i]}
    /\ \E gone \in SUBSET (unsynced \cap root) : root' = root \ gone
    /\ \E lost \in SUBSET dirty :
         work' = work \ (lost \cup {i \in dirty : image'[i] # image[i]})
    /\ unsynced' = {} /\ dirty' = {}
    /\ UNCHANGED <<built, helper, stateDisk, stray>>

PowerCut ==
    /\ status = "running"
    /\ Mishap
    /\ \E to \in {"stopped", "broken"} : CutOff(to)
    /\ UNCHANGED <<cmd, wanted>>

MacRestarts ==
    /\ status = "running" /\ cmd = Idle
    /\ Mishap
    /\ ShutDown
    /\ UNCHANGED <<cmd, wanted>>

-----------------------------------------------------------------------------
(***************************************************************************)
(* The script every boot runs.                                             *)
(***************************************************************************)
SettingUp == status = "running" /\ setup = "setting-up"

\* The disk is known by its label.
MountState ==
    /\ SettingUp /\ ~mounted
    /\ disk = "labelled"
    /\ mounted' = TRUE
    /\ UNCHANGED <<instance, setup, stateDisk, storage, held, cmd, wanted, spent>>

\* A device is the one Lima just attached if no filesystem is found on it.  The
\* probe fails in the same way on one it cannot read, or cannot make out.
Candidate ==
    \/ disk = "blank" /\ UNCHANGED spent
    \/ disk = "labelled" /\ Mishap

\* No label was found, and one device looks new: it is formatted by force.
FormatState ==
    /\ SettingUp /\ ~mounted
    /\ Candidate
    /\ disk' = "labelled" /\ mounted' = TRUE
    /\ image' = [i \in Ids |-> NoImage] /\ root' = {} /\ loop' = {} /\ unsynced' = {}
    /\ work' = work \cap stray /\ dirty' = {}
    /\ UNCHANGED <<instance, setup, lock, stray, live, cmd, wanted>>

FinishSetup ==
    /\ SettingUp /\ mounted
    /\ helper' = TRUE
    /\ setup' = "ready"
    /\ UNCHANGED <<status, built, mounted, stateDisk, storage, held, cmd, wanted, spent>>

\* What an instance without a state disk sets up is not what this one checks for.
SetUpWithoutState ==
    /\ SettingUp /\ disk = "absent"
    /\ setup' = "incomplete"
    /\ UNCHANGED <<instance, mounted, stateDisk, storage, held, cmd, wanted, spent>>

\* A package that does not download, a device that answers too late for its label and
\* is then probed as no candidate, a check that fails.
SetupFails ==
    /\ SettingUp
    /\ Mishap
    /\ setup' = "incomplete"
    /\ UNCHANGED <<instance, mounted, stateDisk, storage, held, cmd, wanted>>

-----------------------------------------------------------------------------
(***************************************************************************)
(* The commands, and how they reach the VM.                                *)
(***************************************************************************)
Begin(op, id, discard, step) ==
    /\ cmd = Idle
    /\ cmd' = [op |-> op, at |-> step, id |-> id, def |-> wanted, discard |-> discard]
    /\ UNCHANGED <<instance, boot, stateDisk, storage, held, wanted, spent>>

\* A run is started or resumed in a VM held to its boundary; what reads, returns
\* or removes reaches the VM as it is.
BeginStart(i) == Begin("start", i, FALSE, "ensure")
BeginResume(i) == i \in Runs /\ Begin("resume", i, FALSE, "ensure")
BeginReach(i) == Begin("reach", i, FALSE, "bringUp")
BeginDrop(i) == Begin("drop", i, FALSE, "bringUp")

\* A step that changes nothing but where the command stands.
OnlyCmd == UNCHANGED <<instance, boot, stateDisk, storage, held, wanted, spent>>

\* An absent instance is built, on a state disk Lima has or is asked for.
EnsureStateDisk ==
    /\ cmd.at = "ensure"
    /\ IF status # "absent" THEN Goto("bringUp") /\ UNCHANGED disk
       ELSE Goto("create") /\ disk' = IF disk = "absent" THEN "blank" ELSE disk
    /\ UNCHANGED <<instance, boot, lock, storage, held, wanted, spent>>

Create ==
    /\ cmd.at = "create"
    /\ status' = "stopped" /\ built' = cmd.def /\ helper' = FALSE
    /\ Goto("bringUp")
    /\ UNCHANGED <<boot, stateDisk, storage, held, wanted, spent>>

CreateIsCut ==
    /\ cmd.at = "create"
    /\ Mishap
    /\ status' = "broken" /\ built' = cmd.def /\ helper' = FALSE
    /\ Ends
    /\ UNCHANGED <<boot, stateDisk, storage, held, wanted>>

\* An instance is started unless it runs; the disk is refused to it if the lock
\* names another, and a broken one is left to a rebuild.
BringUp ==
    /\ cmd.at = "bringUp"
    /\ IF status = "running"
       THEN Goto("check") /\ UNCHANGED <<status, setup, lock>>
       ELSE IF status = "stopped" /\ lock # "gone"
       THEN /\ status' = "running" /\ setup' = "setting-up"
            /\ lock' = IF disk = "absent" THEN lock ELSE "mine"
            /\ Goto("wait")
       ELSE Ends /\ UNCHANGED <<status, setup, lock>>
    /\ UNCHANGED <<built, helper, mounted, disk, storage, held, wanted, spent>>

HeldToBoundary == setup = "ready" /\ built = cmd.def
Unverified == cmd.op \in {"reach", "drop"}

\* limactl start returns when the boot script ended, or gives up after two hours.
Waited ==
    /\ cmd.at = "wait"
    /\ setup # "setting-up"
    /\ Goto("check")
    /\ OnlyCmd

GivesUp ==
    /\ cmd.at = "wait"
    /\ Mishap
    /\ Ends
    /\ UNCHANGED <<instance, boot, stateDisk, storage, held, wanted>>

\* Start holds the VM to its record; StartUnverified asks that no setup is running.
Admit ==
    /\ cmd.at = "check"
    /\ IF status = "running" /\ (HeldToBoundary \/ (Unverified /\ setup # "setting-up"))
       THEN CASE cmd.op = "rebuild" -> Ends
              [] cmd.op = "drop" -> Goto("stop")
              [] OTHER -> Goto("helper")
       ELSE Ends
    /\ OnlyCmd

-----------------------------------------------------------------------------
(***************************************************************************)
(* The storage helper.  Its script ends at the first command that fails.   *)
(***************************************************************************)
\* The helper has to be there, and the state disk under its directories.
OnStateDisk == helper /\ mounted

At(step) == status = "running" /\ cmd.at = step
Exists(i) == image[i] # NoImage \/ i \in root
\* create for a new run; ensure for a project, which creates what is not there.
Creates(i) == IF i \in Runs THEN cmd.op = "start" ELSE ~Exists(i)

HelperRefuses ==
    /\ cmd.at # "idle" /\ cmd.at \in {"helper", "remove", "rmdir", "rm", "mkfs", "mkdir", "mount",
                                     "furnish", "chmod", "use", "stop"}
    /\ \/ status # "running"
       \/ cmd.at \in {"helper", "remove"} /\ ~OnStateDisk
       \/ cmd.at = "helper" /\ Creates(cmd.id) /\ Exists(cmd.id)
    /\ Ends
    /\ OnlyCmd

CreateImage(i) ==
    /\ At("helper") /\ i = cmd.id /\ OnStateDisk
    /\ Creates(i) /\ ~Exists(i)
    /\ image' = [image EXCEPT ![i] = Sized]
    /\ unsynced' = unsynced \cup {i}
    /\ Goto("mkfs")
    /\ UNCHANGED <<instance, boot, stateDisk, root, loop, held, wanted, spent>>

Makes(i, step, made, next) ==
    /\ At(step) /\ i = cmd.id
    /\ image' = [image EXCEPT ![i] = made]
    /\ Goto(next)
    /\ UNCHANGED <<instance, boot, stateDisk, root, loop, unsynced, held, wanted, spent>>

Mkfs(i) == Makes(i, "mkfs", Formatted, "mkdir")
Mkdir(i) ==
    /\ At("mkdir") /\ i = cmd.id
    /\ root' = root \cup {i}
    /\ Goto("mount")
    /\ UNCHANGED <<instance, boot, stateDisk, image, loop, unsynced, held, wanted, spent>>
MountNew(i) ==
    /\ At("mount") /\ i = cmd.id
    /\ loop' = loop \cup {i}
    /\ Goto("furnish")
    /\ UNCHANGED <<instance, boot, stateDisk, image, root, unsynced, held, wanted, spent>>
Furnish(i) == Makes(i, "furnish", Furnished, "chmod")
Chmod(i) == Makes(i, "chmod", Whole, "use")

\* The ERR trap takes away what there is of it.
CleanupPartial(i) ==
    /\ status = "running"
    /\ i = cmd.id /\ cmd.at \in {"mkfs", "mkdir", "mount", "furnish", "chmod"}
    /\ Mishap
    /\ image' = [image EXCEPT ![i] = NoImage]
    /\ root' = root \ {i} /\ loop' = loop \ {i} /\ unsynced' = unsynced \ {i}
    /\ Ends
    /\ UNCHANGED <<instance, boot, stateDisk, held, wanted>>

\* Mutant of Sound: a filesystem that mounts is one that was made to the end.
SoundIfMountable(i) == image[i] >= Formatted /\ i \in root

\* The owner and mode of its root are the last thing create sets.
Sound(i) == image[i] = Whole /\ i \in root

\* verify mounts what can be mounted before it looks inside.
Verify(i) ==
    /\ At("helper") /\ i = cmd.id /\ OnStateDisk
    /\ ~Creates(i)
    /\ loop' = IF image[i] >= Formatted /\ i \in root THEN loop \cup {i} ELSE loop
    /\ IF Sound(i) THEN Goto("use") ELSE Ends
    /\ UNCHANGED <<instance, boot, stateDisk, image, root, unsynced, held, wanted, spent>>

\* The command goes on in the filesystem, a run in a container that stays.
Use(i) ==
    /\ At("use") /\ i = cmd.id
    /\ live' = IF i \in Runs /\ ~Unverified THEN live \cup {i} ELSE live
    /\ work' = work \cup {i} /\ dirty' = dirty \cup {i}
    /\ Ends
    /\ UNCHANGED <<instance, boot, stateDisk, storage, stray, wanted, spent>>

StopContainer(i) ==
    /\ At("stop") /\ i = cmd.id
    /\ live' = live \ {i}
    /\ Goto("remove")
    /\ UNCHANGED <<instance, boot, stateDisk, storage, stray, work, dirty, wanted, spent>>

\* Mutant of NothingThere: a filesystem is its image and its directory.
EitherMissing(i) == image[i] = NoImage \/ i \notin root

NothingThere(i) == ~Exists(i)

\* umount, rmdir, rm: each passed over where there is nothing to do.
Unmount(i) ==
    /\ At("remove") /\ i = cmd.id /\ OnStateDisk
    /\ IF NothingThere(i) THEN Ends /\ UNCHANGED loop
       ELSE Goto("rmdir") /\ loop' = loop \ {i}
    /\ UNCHANGED <<instance, boot, stateDisk, image, root, unsynced, held, wanted, spent>>
Rmdir(i) ==
    /\ At("rmdir") /\ i = cmd.id
    /\ root' = root \ {i}
    /\ Goto("rm")
    /\ UNCHANGED <<instance, boot, stateDisk, image, loop, unsynced, held, wanted, spent>>
RemoveImage(i) ==
    /\ At("rm") /\ i = cmd.id
    /\ image' = [image EXCEPT ![i] = NoImage]
    /\ work' = work \ {i} /\ dirty' = dirty \ {i} /\ unsynced' = unsynced \ {i}
    /\ Ends
    /\ UNCHANGED <<instance, boot, stateDisk, root, loop, stray, live, wanted, spent>>

-----------------------------------------------------------------------------
(***************************************************************************)
(* pisafe vm rebuild.                                                      *)
(***************************************************************************)
\* A VM that keeps its own work is deleted only with --discard-state.
Loses == status # "absent" /\ disk = "absent"
BeginRebuild(discard) ==
    /\ Loses => discard
    /\ Begin("rebuild", 0, discard, IF status = "absent" THEN "ensure" ELSE "shutdown")

\* Mutant of DeleteShutsDown: a running instance is killed and not shut down.
DeleteOutright ==
    /\ cmd.at = "shutdown"
    /\ IF status = "running" THEN CutOff("stopped")
       ELSE UNCHANGED <<instance, boot, stateDisk, storage, held>>
    /\ Goto("delete")
    /\ UNCHANGED <<wanted, spent>>

DeleteShutsDown ==
    /\ cmd.at = "shutdown"
    /\ IF status = "running" THEN ShutDown
       ELSE UNCHANGED <<instance, boot, stateDisk, storage, held>>
    /\ Goto("delete")
    /\ UNCHANGED <<wanted, spent>>

\* One that cannot shut down is killed.
DeleteKills ==
    /\ cmd.at = "shutdown" /\ status = "running"
    /\ Mishap
    /\ CutOff("stopped")
    /\ Goto("delete")
    /\ UNCHANGED wanted

DeleteInstance ==
    /\ cmd.at = "delete"
    /\ status' = "absent" /\ built' = 0 /\ helper' = FALSE
    /\ lock' = IF lock = "mine" THEN "gone" ELSE lock
    /\ work' = work \ stray /\ stray' = {}
    /\ Goto("unlock")
    /\ UNCHANGED <<boot, disk, storage, dirty, live, wanted, spent>>

\* Mutant of UnlockStateDisk: an instance that is gone is taken to hold nothing.
LockLeftOnDisk ==
    /\ cmd.at = "unlock"
    /\ Goto("ensure")
    /\ UNCHANGED <<instance, boot, stateDisk, storage, held, wanted, spent>>

UnlockStateDisk ==
    /\ cmd.at = "unlock"
    /\ lock' = "free"
    /\ Goto("ensure")
    /\ UNCHANGED <<instance, boot, disk, storage, held, wanted, spent>>

-----------------------------------------------------------------------------
CommandKilled ==
    /\ cmd # Idle
    /\ Mishap
    /\ Ends
    /\ UNCHANGED <<instance, boot, stateDisk, storage, held, wanted>>

\* pisafe is upgraded, or the Mac joins another network.
DefinitionChanges ==
    /\ spent < MaxEvents
    /\ spent' = spent + 1
    /\ \E def \in Definitions \ {wanted} : wanted' = def
    /\ UNCHANGED <<instance, boot, stateDisk, storage, held, cmd>>

CommandSteps ==
    \/ EnsureStateDisk \/ Create \/ BringUp \/ Waited \/ Admit
    \/ HelperRefuses
    \/ \E i \in Ids : \/ CreateImage(i) \/ Mkfs(i) \/ Mkdir(i) \/ MountNew(i) \/ Furnish(i)
                      \/ Chmod(i) \/ Verify(i) \/ Use(i)
                      \/ StopContainer(i) \/ Unmount(i) \/ Rmdir(i) \/ RemoveImage(i)
    \/ DeleteShutsDown \/ DeleteInstance \/ UnlockStateDisk

BootSteps == MountState \/ FormatState \/ FinishSetup \/ SetUpWithoutState

Next ==
    \/ \E i \in Ids : BeginStart(i) \/ BeginResume(i) \/ BeginReach(i) \/ BeginDrop(i)
    \/ \E discard \in BOOLEAN : BeginRebuild(discard)
    \/ CommandSteps \/ BootSteps
    \/ CreateIsCut \/ GivesUp \/ DeleteKills \/ CommandKilled
    \/ \E i \in Ids : CleanupPartial(i)
    \/ PowerCut \/ MacRestarts \/ SetupFails \/ DefinitionChanges

Spec == Init /\ [][Next]_vars

\* Commands and boots go on, and the user keeps asking for the two cures.
FairSpec ==
    /\ Spec
    /\ WF_vars(CommandSteps) /\ WF_vars(BootSteps)
    /\ SF_vars(BeginRebuild(TRUE))
    /\ \A i \in Ids : SF_vars(BeginDrop(i))

-----------------------------------------------------------------------------
(***************************************************************************)
(* Properties.                                                             *)
(***************************************************************************)
TypeOK ==
    /\ status \in {"absent", "stopped", "running", "broken"}
    /\ built \in Definitions \cup {0} /\ wanted \in Definitions
    /\ setup \in {"none", "setting-up", "incomplete", "ready"}
    /\ {helper, mounted} \subseteq BOOLEAN
    /\ disk \in {"absent", "blank", "labelled"} /\ lock \in {"free", "mine", "gone"}
    /\ image \in [Ids -> NoImage .. Whole]
    /\ {root, loop, unsynced, stray, work, dirty} \subseteq SUBSET Ids /\ live \subseteq Runs
    /\ (setup # "none" \/ mounted) => status = "running"

\* The two mishaps that take work along: the VM loses its power, or is killed, with
\* work on it that no shutdown has flushed; and a boot that cannot probe the state
\* disk formats it.
NeverFlushed(i) == Mishap /\ i \in dirty /\ status' # "running"
Misprobed == Mishap /\ ~mounted /\ mounted'

\* But for those two, work goes only where its removal was asked for.  Rebuilding a
\* VM that runs loses nothing its runs have just written, a power cut nothing from
\* before the VM last shut down, and no command that is cut short or repeated takes
\* along what another had made.
WorkIsKept ==
    [][\A i \in work \ work' :
         \/ cmd.op = "drop" /\ cmd.id = i
         \/ cmd.op = "rebuild" /\ cmd.discard /\ i \in stray
         \/ NeverFlushed(i)
         \/ Misprobed]_vars

\* A container runs only on a filesystem that was made to its end and is mounted
\* from the state disk, in a VM whose setup on this boot ended.
LiveRunsAreSound ==
    \A i \in live : /\ image[i] = Whole /\ i \in root \cap loop
                    /\ mounted /\ setup = "ready"

\* Rebuilding again ends with a VM held to the wanted boundary, wherever an earlier
\* rebuild was cut.
RebuildConverges == []<>(setup = "ready" /\ built = wanted)

\* Whatever was left half made or half removed, removing it again clears the way for
\* it to be made anew.
RemovalConverges == \A i \in Ids : []<>(~Exists(i))
==============================================================================
