---------------------------- MODULE RunLifecycle -----------------------------
(***************************************************************************)
(* The commands that create, stop, resume, apply and discard a run, as     *)
(* internal/runctl executes them.  Every command is a process of its own:  *)
(* it reads the run's record, acts on the VM and on the Mac one step at a  *)
(* time, and writes the record back.  No lock orders two commands.  A step *)
(* can fail, a command can be killed between two steps, and the VM can go  *)
(* down under all of them.                                                 *)
(*                                                                         *)
(* The record is RunRecord's.  The objects a run owns are kept beside it:  *)
(* vm[r] is what the VM holds, mac[r] what the Mac holds.  The content of  *)
(* the run's workspace is a version number the agent advances while its    *)
(* container runs; what an apply captures and lands is such a version.     *)
(***************************************************************************)
EXTENDS RunRecord

CONSTANTS
    Runs,           \* run IDs
    Commands,       \* one process per invocation of pisafe
    RunOf,          \* the run each command is about
    Mishaps,        \* which mishaps this instance allows
    MaxMishaps,     \* bound: how many of them happen
    MaxClock,       \* bound: the last tick
    MaxWork,        \* bound: versions of a workspace
    MaxIssued       \* bound: capabilities issued

ASSUME CommandsAssumption == RunOf \in [Commands -> Runs]
ASSUME MishapsAssumption ==
    /\ Mishaps \subseteq {"fail", "unclean", "unsynced", "kill", "reboot"}
    /\ MaxMishaps \in Nat
ASSUME BoundsAssumption ==
    /\ MaxClock \in Nat
    /\ MaxWork \in Nat
    /\ MaxIssued \in Nat

VARIABLES
    record,     \* the manifest of each run
    vm,         \* each run's container, storage, stage and workspace in the VM
    mac,        \* each run's SSH directory, returned archive and branch
    cmd,        \* where each command is, and what it holds in memory
    clock,
    issued,     \* capabilities generated so far
    revoked,    \* capabilities some record held and no longer holds
    mishaps     \* how many mishaps so far, and which kinds there were none of

vars == <<record, vm, mac, cmd, clock, issued, revoked, mishaps>>

Container == {"none", "exited", "running"}
Storage == {"none", "unmounted", "mounted"}

\* told is the capability the workspace's home is configured with; deadline is
\* the tick Podman ends the container at.  Two fields are history: offered says
\* whether the command that configured the home last had a provider to offer, and
\* reopened whether a container was ever started over a recorded plan.
VM ==
    [container : Container, deadline : Nat, storage : Storage,
     stage : BOOLEAN, told : Nat, work : Nat, offered : BOOLEAN, reopened : BOOLEAN]

\* copied says whether the returned archive has reached the working tree, and
\* branch is the version refs/heads/pisafe/RUN holds.
Mac == [ssh : BOOLEAN, archive : BOOLEAN, copied : BOOLEAN, branch : Nat]

\* synced says that each write so far that took effect said so; orderly, that besides
\* every process ran its cleanups and they worked.
Suffered == [count : Nat, orderly : BOOLEAN, synced : BOOLEAN]

(***************************************************************************)
(* A command in memory.  op is what the user asked for, phase the          *)
(* controller method at work, and pc its next step.  write is the store    *)
(* operation under way and seen the record it last read or wrote.          *)
(***************************************************************************)
Op == {"start", "stop", "resume", "apply", "discard"}
Phase == {"create", "stop", "persist", "resume", "cleanup", "apply", "release"}
Step == {"ssh", "stage", "storage", "run", "materialize", "configure",
         "down", "remove", "verify", "persist", "check",
         "capture", "import", "commit", "rollback", "copyBack",
         "reclaim", "dropStorage", "dropStage", "dropSsh", "dropArchive", "forget",
         "get", "put"}

Command ==
    [op : Op \cup {"none"}, phase : Phase \cup {"none"}, pc : Step \cup {"idle"},
     write : Operation \cup {"none"}, seen : Manifest,
     capability : Nat, left : Nat, tip : Nat, outputs : BOOLEAN, failed : BOOLEAN]

Idle ==
    [op |-> "none", phase |-> "none", pc |-> "idle", write |-> "none",
     seen |-> NoRun, capability |-> Nil, left |-> Nil, tip |-> Nil,
     outputs |-> FALSE, failed |-> FALSE]

Init ==
    /\ record = [r \in Runs |-> NoRun]
    /\ vm = [r \in Runs |-> [container |-> "none", deadline |-> 0, storage |-> "none",
                             stage |-> FALSE, told |-> Nil, work |-> 0,
                             offered |-> FALSE, reopened |-> FALSE]]
    /\ mac = [r \in Runs |-> [ssh |-> FALSE, archive |-> FALSE, copied |-> FALSE,
                              branch |-> Nil]]
    /\ cmd = [c \in Commands |-> Idle]
    /\ clock = 1
    /\ issued = 0
    /\ revoked = {}
    /\ mishaps = [count |-> 0, orderly |-> TRUE, synced |-> TRUE]

-----------------------------------------------------------------------------
(***************************************************************************)
(* What a command does next, as the command it becomes.                    *)
(***************************************************************************)
Goto(s, pc) == [s EXCEPT !.pc = pc]
Writing(s, operation) == [s EXCEPT !.pc = "get", !.write = operation]

\* Mutant of Failing: the error is recorded in the record as last seen.
FailingFromMemory(s) == [s EXCEPT !.pc = "put", !.write = "RecordError"]

Failing(s) == Writing(s, "RecordError")
Entering(s, phase, pc) == [s EXCEPT !.phase = phase, !.pc = pc]

At(c, pc) == cmd[c].pc = pc
Becomes(c, s) == cmd' = [cmd EXCEPT ![c] = s]

\* A resume asks what is left of the run before it does anything else.
Resuming(s, m) ==
    [Entering(s, "resume", "check") EXCEPT !.left = Remaining(m, clock)]

\* A recorded plan is finished, never redone.
Applying(s, m) ==
    IF m.apply # Nil
    THEN [Entering(s, "apply", "commit") EXCEPT !.tip = m.apply]
    ELSE Entering(s, "apply", "capture")

Releasing(s) == [Entering(s, "release", "reclaim") EXCEPT !.failed = FALSE]

(***************************************************************************)
(* Stop returned the record m.  A stop is done; the commands that stopped  *)
(* the run first go on with what they are for.                             *)
(***************************************************************************)
AfterStop(s, m) ==
    CASE s.op = "stop"    -> Idle
      [] s.op = "discard" -> Releasing(s)
      [] s.op = "apply"   -> Applying(s, m)
      [] s.op = "resume"  -> IF m.state = "stopped" /\ Remaining(m, clock) # Nil
                             THEN Resuming(s, m)
                             ELSE Idle
      [] OTHER            -> Idle

\* stopAndRemoveContainer is done: the container is gone.
AfterRemoval(s) ==
    CASE s.phase = "stop"   -> Goto(s, "verify")
      [] s.phase = "resume" -> Goto(s, "run")
      [] OTHER              -> Failing(s)

\* Mutant of AfterRefusal: a resume the store refuses leaves its container.
AfterRefusalKeepingContainer(s) ==
    CASE s.write = "Activate"    -> Entering(s, "create", "reclaim")
      [] s.write = "BeginApply"  -> Goto(s, "rollback")
      [] s.write = "RecordError" -> Idle
      [] OTHER                   -> Failing(s)

\* The store refused the operation, or could not write it.
AfterRefusal(s) ==
    CASE s.write = "Activate"    -> Entering(s, "create", "reclaim")
      [] s.write = "Resume"      -> Entering(s, "cleanup", "down")
      [] s.write = "BeginApply"  -> Goto(s, "rollback")
      [] s.write = "RecordError" -> Idle
      [] OTHER                   -> Failing(s)

\* The store wrote the record m.
AfterWrite(s, m) ==
    CASE s.write = "Stop"          -> Entering([s EXCEPT !.seen = m], "stop", "persist")
      [] s.write = "BeginApply"    -> Goto([s EXCEPT !.seen = m], "commit")
      [] s.write = "CompleteApply" /\ m.returned -> Goto([s EXCEPT !.seen = m], "copyBack")
      [] s.write = "RecordError" /\ s.phase = "persist" -> AfterStop(s, m)
      [] OTHER                     -> Idle

\* Mutant of AfterReclaim: the record goes whether or not the removals worked.
AfterReclaimAnyway(s) == IF s.phase = "create" THEN Failing(s) ELSE Goto(s, "dropArchive")

\* A failed creation keeps its record, which says what went wrong.
AfterReclaim(s) ==
    IF s.phase = "create" \/ s.failed THEN Failing(s) ELSE Goto(s, "dropArchive")

AfterDrop(s) ==
    CASE s.pc = "dropStorage" -> Goto(s, "dropStage")
      [] s.pc = "dropStage"   -> Goto(s, "dropSsh")
      [] OTHER                -> AfterReclaim(s)

-----------------------------------------------------------------------------
(***************************************************************************)
(* Failures.  What a command does when a step of it reports an error.      *)
(***************************************************************************)
Mishap(kind) ==
    /\ kind \in Mishaps
    /\ mishaps.count < MaxMishaps
    /\ mishaps' = [count |-> mishaps.count + 1,
                   orderly |-> mishaps.orderly /\ kind \in {"fail", "reboot"},
                   synced |-> mishaps.synced /\ kind # "unsynced"]

AfterFailure(s) ==
    CASE s.pc \in {"get", "put"} -> AfterRefusal(s)
      [] s.pc \in {"dropStorage", "dropStage", "dropSsh"} ->
           AfterDrop([s EXCEPT !.failed = TRUE])
      [] s.pc = "persist" -> Failing([s EXCEPT !.phase = "persist"])
      [] s.pc \in {"ssh", "stage", "storage", "run", "materialize", "configure"} ->
           IF s.phase = "create" THEN Goto(s, "reclaim") ELSE Entering(s, "cleanup", "down")
      [] OTHER -> Failing(s)

\* The deferred cleanup of a start or a resume that failed.
CleaningUp(s) ==
    \/ s.phase = "cleanup" /\ s.pc \in {"down", "remove"}
    \/ s.phase = "create" /\ s.pc \in {"reclaim", "dropStorage", "dropStage", "dropSsh"}

Fails(c) ==
    /\ Mishap(IF CleaningUp(cmd[c]) THEN "unclean" ELSE "fail")
    /\ Becomes(c, AfterFailure(cmd[c]))

\* A step can report an error although it had its effect.
Ends(c, s) ==
    \/ Becomes(c, s) /\ UNCHANGED mishaps
    \/ Fails(c)

-----------------------------------------------------------------------------
(***************************************************************************)
(* Commands begin.  Each reads the record once to decide what to do; one   *)
(* the record refuses changes nothing and is left out.                     *)
(***************************************************************************)
BeginStart(c) ==
    LET r == RunOf[c] IN
    /\ At(c, "idle")
    /\ record[r].state = "none"
    /\ vm[r].work = 0               \* run IDs are not used twice
    /\ record' = [record EXCEPT ![r] = Created(clock)]
    /\ Becomes(c, [Idle EXCEPT !.op = "start", !.phase = "create", !.pc = "ssh",
                               !.left = Lifetime])
    /\ UNCHANGED <<vm, mac, clock, issued, revoked, mishaps>>

\* Stop, discard and apply settle an active run first; resume does so only for
\* one whose container the VM no longer runs.
BeginByStopping(c, op) ==
    LET r == RunOf[c] IN
    /\ At(c, "idle")
    /\ Readable(record[r]) /\ record[r].state = "active"
    /\ op = "resume" => vm[r].container # "running"
    /\ Becomes(c, [Idle EXCEPT !.op = op, !.phase = "stop", !.pc = "down"])
    /\ UNCHANGED <<record, vm, mac, clock, issued, revoked, mishaps>>

BeginResume(c) ==
    LET m == record[RunOf[c]] IN
    /\ At(c, "idle")
    /\ Readable(m) /\ m.state = "stopped"
    /\ Remaining(m, clock) # Nil
    /\ Becomes(c, Resuming([Idle EXCEPT !.op = "resume"], m))
    /\ UNCHANGED <<record, vm, mac, clock, issued, revoked, mishaps>>

\* Mutant of BeginApply: an active run is captured without being stopped.
BeginApplyLive(c) ==
    LET m == record[RunOf[c]] IN
    /\ At(c, "idle")
    /\ Readable(m) /\ m.state \in {"active", "stopped"}
    /\ Becomes(c, Applying([Idle EXCEPT !.op = "apply"], m))
    /\ UNCHANGED <<record, vm, mac, clock, issued, revoked, mishaps>>

BeginApply(c) ==
    LET m == record[RunOf[c]] IN
    /\ At(c, "idle")
    /\ Readable(m)
    /\ \/ /\ m.state = "stopped"
          /\ Becomes(c, Applying([Idle EXCEPT !.op = "apply"], m))
       \/ /\ m.state = "imported" /\ m.returned
          /\ Becomes(c, [Entering([Idle EXCEPT !.op = "apply"], "apply", "copyBack")
                           EXCEPT !.seen = m])
    /\ UNCHANGED <<record, vm, mac, clock, issued, revoked, mishaps>>

\* Mutant of BeginDiscard: a record that cannot be read is refused.
BeginDiscardReadable(c) ==
    LET m == record[RunOf[c]] IN
    /\ At(c, "idle")
    /\ Readable(m) /\ m.state # "active"
    /\ Becomes(c, Releasing([Idle EXCEPT !.op = "discard"]))
    /\ UNCHANGED <<record, vm, mac, clock, issued, revoked, mishaps>>

\* A record that cannot be read is released without being understood.
BeginDiscard(c) ==
    LET m == record[RunOf[c]] IN
    /\ At(c, "idle")
    /\ m.state # "none"
    /\ ~(Readable(m) /\ m.state = "active")
    /\ Becomes(c, Releasing([Idle EXCEPT !.op = "discard"]))
    /\ UNCHANGED <<record, vm, mac, clock, issued, revoked, mishaps>>

-----------------------------------------------------------------------------
(***************************************************************************)
(* Steps that create a run.                                                *)
(***************************************************************************)
PrepareSsh(c) ==
    LET r == RunOf[c] IN
    /\ At(c, "ssh")
    /\ mac' = [mac EXCEPT ![r].ssh = TRUE]
    /\ Becomes(c, Goto(cmd[c], "stage"))
    /\ UNCHANGED <<record, vm, clock, issued, revoked, mishaps>>

CreateStage(c) ==
    LET r == RunOf[c] IN
    /\ At(c, "stage")
    /\ vm' = [vm EXCEPT ![r].stage = TRUE]
    /\ Ends(c, Goto(cmd[c], "storage"))
    /\ UNCHANGED <<record, mac, clock, issued, revoked>>

\* The run filesystem, its layout, and the stage moved into it.
CreateRunStorage(c) ==
    LET r == RunOf[c] IN
    /\ At(c, "storage")
    /\ vm[r].storage = "none"
    /\ vm' = [vm EXCEPT ![r].storage = "mounted"]
    /\ Ends(c, Goto(cmd[c], "run"))
    /\ UNCHANGED <<record, mac, clock, issued, revoked>>

\* podman run: the name must be free and the bind sources there.
RunContainer(c) ==
    LET r == RunOf[c] IN
    /\ At(c, "run")
    /\ vm[r].container = "none"
    /\ vm[r].storage = "mounted"
    /\ vm' = [vm EXCEPT ![r].container = "running", ![r].deadline = clock + cmd[c].left,
                        ![r].reopened = @ \/ record[r].apply # Nil]
    /\ Ends(c, Goto(cmd[c], IF cmd[c].phase = "create" THEN "materialize" ELSE "configure"))
    /\ UNCHANGED <<record, mac, clock, issued, revoked>>

\* The repository is built in the workspace and both copies of the stage go.
Materialize(c) ==
    LET r == RunOf[c] IN
    /\ At(c, "materialize")
    /\ vm[r].container = "running"
    /\ vm' = [vm EXCEPT ![r].stage = FALSE, ![r].work = 1]
    /\ Ends(c, Goto(cmd[c], "configure"))
    /\ UNCHANGED <<record, mac, clock, issued, revoked>>

\* Mutant of Configure: a resume does not configure the run's models again.
ConfigureOnce(c) ==
    LET r == RunOf[c] IN
    /\ At(c, "configure")
    /\ vm[r].container = "running"
    /\ issued < MaxIssued
    /\ issued' = issued + 1
    /\ vm' = [vm EXCEPT ![r].told = IF cmd[c].phase = "create" THEN issued + 1 ELSE @,
                        ![r].offered = TRUE]
    /\ Ends(c, Writing([cmd[c] EXCEPT !.capability = issued + 1],
                          IF cmd[c].phase = "create" THEN "Activate" ELSE "Resume"))
    /\ UNCHANGED <<record, mac, clock, revoked>>

\* A fresh capability is generated, and written into the run's home if the command
\* has a provider to offer: a home configured before keeps what it was told.
Configure(c) ==
    LET r == RunOf[c] IN
    /\ At(c, "configure")
    /\ vm[r].container = "running"
    /\ issued < MaxIssued
    /\ issued' = issued + 1
    /\ \E offered \in BOOLEAN :
         vm' = [vm EXCEPT ![r].told = IF offered THEN issued + 1 ELSE @,
                          ![r].offered = offered]
    /\ Ends(c, Writing([cmd[c] EXCEPT !.capability = issued + 1],
                          IF cmd[c].phase = "create" THEN "Activate" ELSE "Resume"))
    /\ UNCHANGED <<record, mac, clock, revoked>>

(***************************************************************************)
(* Steps that take a container down.  A stop, a resume that finds a        *)
(* container in its way and the cleanup of a failed resume share them.     *)
(***************************************************************************)
StopContainer(c) ==
    LET r == RunOf[c] IN
    /\ At(c, "down")
    /\ \/ /\ vm[r].container = "none"
          /\ Ends(c, AfterRemoval(cmd[c]))
          /\ UNCHANGED vm
       \/ /\ vm[r].container # "none"
          /\ vm' = [vm EXCEPT ![r].container = "exited"]
          /\ Ends(c, Goto(cmd[c], "remove"))
    /\ UNCHANGED <<record, mac, clock, issued, revoked>>

RemoveContainer(c) ==
    LET r == RunOf[c] IN
    /\ At(c, "remove")
    /\ vm' = [vm EXCEPT ![r].container = "none"]
    /\ Ends(c, AfterRemoval(cmd[c]))
    /\ UNCHANGED <<record, mac, clock, issued, revoked>>

\* Verifying a run's storage mounts it, once per boot of the VM.
Mounted(r) == vm' = [vm EXCEPT ![r].storage = "mounted"]

VerifyRunStorage(c) ==
    LET r == RunOf[c] IN
    /\ At(c, "verify")
    /\ vm[r].storage # "none"
    /\ Mounted(r)
    /\ Ends(c, Writing(cmd[c], "Stop"))
    /\ UNCHANGED <<record, mac, clock, issued, revoked>>

\* Caches published and sessions promoted: neither is the run's own.
Persist(c) ==
    /\ At(c, "persist")
    /\ Becomes(c, AfterStop(cmd[c], cmd[c].seen))
    /\ UNCHANGED <<record, vm, mac, clock, issued, revoked, mishaps>>

CheckResume(c) ==
    LET r == RunOf[c] IN
    /\ At(c, "check")
    /\ vm[r].storage # "none"
    /\ Mounted(r)
    /\ Ends(c, Goto(cmd[c], IF vm[r].container = "none" THEN "run" ELSE "down"))
    /\ UNCHANGED <<record, mac, clock, issued, revoked>>

(***************************************************************************)
(* Steps that import a run's work.                                         *)
(***************************************************************************)
\* A helper container reads the workspace as it is now.
CaptureResult(c) ==
    LET r == RunOf[c] IN
    /\ At(c, "capture")
    /\ vm[r].storage # "none"
    /\ Mounted(r)
    /\ \E outputs \in BOOLEAN :
         Becomes(c, [Goto(cmd[c], "import") EXCEPT !.tip = vm[r].work, !.outputs = outputs])
    /\ UNCHANGED <<record, mac, clock, issued, revoked, mishaps>>

\* Objects are fetched and verified, the returned archive is kept.  What fails
\* after that rolls the import back.
ImportResult(c) ==
    LET r == RunOf[c] IN
    /\ At(c, "import")
    /\ mac[r].branch = Nil
    /\ mac' = [mac EXCEPT ![r].archive = @ \/ cmd[c].outputs]
    /\ \/ Becomes(c, Writing(cmd[c], "BeginApply")) /\ UNCHANGED mishaps
       \/ Mishap("fail") /\ Becomes(c, Goto(cmd[c], "rollback"))
    /\ UNCHANGED <<record, vm, clock, issued, revoked>>

CommitResult(c) ==
    LET r == RunOf[c] IN
    /\ At(c, "commit")
    /\ mac[r].branch \in {Nil, cmd[c].tip}
    /\ mac' = [mac EXCEPT ![r].branch = cmd[c].tip]
    /\ Ends(c, Writing(cmd[c], "CompleteApply"))
    /\ UNCHANGED <<record, vm, clock, issued, revoked>>

RollbackResult(c) ==
    LET r == RunOf[c] IN
    /\ At(c, "rollback")
    /\ mac' = [mac EXCEPT ![r].branch = IF @ = cmd[c].tip THEN Nil ELSE @]
    /\ Becomes(c, Failing(cmd[c]))
    /\ UNCHANGED <<record, vm, clock, issued, revoked, mishaps>>

\* Mutant of CopyBack: the archive goes before it is written.
CopyBackDroppingFirst(c) ==
    LET r == RunOf[c] IN
    /\ At(c, "copyBack")
    /\ mac[r].archive
    /\ mac' = [mac EXCEPT ![r].archive = FALSE]
    /\ Becomes(c, Writing(cmd[c], "ClearReturned"))
    /\ UNCHANGED <<record, vm, clock, issued, revoked, mishaps>>

CopyBack(c) ==
    LET r == RunOf[c] IN
    /\ At(c, "copyBack")
    /\ mac[r].archive
    /\ mac' = [mac EXCEPT ![r].copied = TRUE]
    /\ Becomes(c, Writing(cmd[c], "ClearReturned"))
    /\ UNCHANGED <<record, vm, clock, issued, revoked, mishaps>>

\* A replay the run could not complete, or a conflict with the working tree, is
\* an answer and not a failed apply: nothing is recorded.
DeclineApply(c) ==
    /\ At(c, "capture") \/ At(c, "copyBack")
    /\ Becomes(c, Idle)
    /\ UNCHANGED <<record, vm, mac, clock, issued, revoked, mishaps>>

(***************************************************************************)
(* Steps that reclaim what a run owns.  The container goes first and by    *)
(* force; the three removals after it are all attempted whatever the       *)
(* others did; the record goes last, and only if all of them worked.       *)
(***************************************************************************)
ReclaimContainer(c) ==
    LET r == RunOf[c] IN
    /\ At(c, "reclaim")
    /\ vm' = [vm EXCEPT ![r].container = "none"]
    /\ Ends(c, Goto(cmd[c], "dropStorage"))
    /\ UNCHANGED <<record, mac, clock, issued, revoked>>

\* A mounted filesystem a container still uses cannot be unmounted.
DropStorage(c) ==
    LET r == RunOf[c] IN
    /\ At(c, "dropStorage")
    /\ vm[r].container # "running"
    /\ vm' = [vm EXCEPT ![r].storage = "none", ![r].told = Nil, ![r].offered = FALSE]
    /\ Ends(c, AfterDrop(cmd[c]))
    /\ UNCHANGED <<record, mac, clock, issued, revoked>>

DropStage(c) ==
    LET r == RunOf[c] IN
    /\ At(c, "dropStage")
    /\ vm' = [vm EXCEPT ![r].stage = FALSE]
    /\ Ends(c, AfterDrop(cmd[c]))
    /\ UNCHANGED <<record, mac, clock, issued, revoked>>

DropSsh(c) ==
    LET r == RunOf[c] IN
    /\ At(c, "dropSsh")
    /\ mac' = [mac EXCEPT ![r].ssh = FALSE]
    /\ Ends(c, AfterDrop(cmd[c]))
    /\ UNCHANGED <<record, vm, clock, issued, revoked>>

\* Both Forget and ClearReturned remove the archive before they write.
DropArchive(c) ==
    LET r == RunOf[c] IN
    /\ At(c, "dropArchive")
    /\ mac' = [mac EXCEPT ![r].archive = FALSE]
    /\ Ends(c, Goto(cmd[c], IF cmd[c].phase = "release" THEN "forget" ELSE "put"))
    /\ UNCHANGED <<record, vm, clock, issued, revoked>>

Capabilities(m) == {m.capability} \ {Nil}

Forget(c) ==
    LET r == RunOf[c] IN
    /\ At(c, "forget")
    /\ record[r].state # "none"
    /\ record' = [record EXCEPT ![r] = NoRun]
    /\ revoked' = revoked \cup Capabilities(record[r])
    /\ Ends(c, Idle)
    /\ UNCHANGED <<vm, mac, clock, issued>>

-----------------------------------------------------------------------------
(***************************************************************************)
(* A store operation reads the record, checks it, and replaces it by what  *)
(* it made of the one it read.  Another command may write in between.      *)
(***************************************************************************)
ReadRecord(c) ==
    LET m == record[RunOf[c]] IN
    /\ At(c, "get")
    /\ IF Readable(m) /\ Allowed(cmd[c].write, m, clock)
       THEN Becomes(c, [cmd[c] EXCEPT !.seen = m,
                                      !.pc = IF cmd[c].write = "ClearReturned"
                                             THEN "dropArchive" ELSE "put"])
       ELSE Becomes(c, AfterRefusal(cmd[c]))
    /\ UNCHANGED <<record, vm, mac, clock, issued, revoked, mishaps>>

Written(s) ==
    CASE s.write = "Activate"      -> Activated(s.seen, s.capability)
      [] s.write = "Stop"          -> Stopped(s.seen)
      [] s.write = "Resume"        -> Resumed(s.seen, s.capability)
      [] s.write = "BeginApply"    -> ApplyBegun(s.seen, s.tip, s.outputs)
      [] s.write = "CompleteApply" -> ApplyCompleted(s.seen, clock)
      [] s.write = "ClearReturned" -> ReturnedCleared(s.seen)
      [] OTHER                     -> s.seen

ReplaceRecord(c) ==
    LET r == RunOf[c]
        m == Written(cmd[c])
    IN
    /\ At(c, "put")
    /\ record' = [record EXCEPT ![r] = m]
    /\ revoked' = revoked \cup (Capabilities(record[r]) \ Capabilities(m))
    /\ Becomes(c, AfterWrite(cmd[c], m))
    /\ UNCHANGED <<vm, mac, clock, issued, mishaps>>

-----------------------------------------------------------------------------
(***************************************************************************)
(* Mishaps.                                                                *)
(***************************************************************************)
\* A step fails without effect.
StepFails(c) ==
    /\ ~At(c, "idle") /\ ~At(c, "copyBack")
    /\ Fails(c)
    /\ UNCHANGED <<record, vm, mac, clock, issued, revoked>>

\* A write whose directory cannot be synced has replaced the record by then, and
\* fails all the same.
WriteUnsynced(c) ==
    LET r == RunOf[c]
        m == Written(cmd[c])
    IN
    /\ At(c, "put")
    /\ Mishap("unsynced")
    /\ record' = [record EXCEPT ![r] = m]
    /\ revoked' = revoked \cup (Capabilities(record[r]) \ Capabilities(m))
    /\ Becomes(c, AfterRefusal(cmd[c]))
    /\ UNCHANGED <<vm, mac, clock, issued>>

(***************************************************************************)
(* A step whose precondition does not hold fails too: the name podman run  *)
(* needs is taken, the storage is gone, the container no longer runs, no   *)
(* capability can be generated (past MaxIssued), the branch is taken, or   *)
(* the record to forget is not there.                                      *)
(***************************************************************************)
Impossible(c) ==
    LET r == RunOf[c] IN
    \/ At(c, "storage") /\ vm[r].storage # "none"
    \/ At(c, "run") /\ (vm[r].container # "none" \/ vm[r].storage # "mounted")
    \/ (At(c, "materialize") \/ At(c, "configure")) /\ vm[r].container # "running"
    \/ At(c, "configure") /\ issued = MaxIssued
    \/ (At(c, "verify") \/ At(c, "check") \/ At(c, "capture")) /\ vm[r].storage = "none"
    \/ At(c, "import") /\ mac[r].branch # Nil
    \/ At(c, "commit") /\ mac[r].branch \notin {Nil, cmd[c].tip}
    \/ At(c, "dropStorage") /\ vm[r].container = "running"
    \/ At(c, "forget") /\ record[r].state = "none"

StepIsRefused(c) ==
    /\ Impossible(c)
    /\ Becomes(c, AfterFailure(cmd[c]))
    /\ UNCHANGED <<record, vm, mac, clock, issued, revoked, mishaps>>

\* The process dies where it stands: nothing deferred runs.
Killed(c) ==
    /\ ~At(c, "idle")
    /\ Mishap("kill")
    /\ Becomes(c, Idle)
    /\ UNCHANGED <<record, vm, mac, clock, issued, revoked>>

\* The VM restarts, or is recreated around its state disk: no container runs,
\* a recreated VM knows of none, and no run's storage is mounted.
VmGoesDown ==
    /\ Mishap("reboot")
    /\ \E recreated \in BOOLEAN :
         vm' = [r \in Runs |->
                  [vm[r] EXCEPT
                     !.container = IF recreated \/ @ = "none" THEN "none" ELSE "exited",
                     !.storage = IF @ = "none" THEN "none" ELSE "unmounted"]]
    /\ UNCHANGED <<record, mac, cmd, clock, issued, revoked>>

-----------------------------------------------------------------------------
(***************************************************************************)
(* What the run does by itself.                                            *)
(***************************************************************************)
AgentWorks(r) ==
    /\ vm[r].container = "running"
    /\ vm[r].work \in 1 .. (MaxWork - 1)
    /\ vm' = [vm EXCEPT ![r].work = @ + 1]
    /\ UNCHANGED <<record, mac, cmd, clock, issued, revoked, mishaps>>

ContainerExits(r) ==
    /\ vm[r].container = "running"
    /\ vm' = [vm EXCEPT ![r].container = "exited"]
    /\ UNCHANGED <<record, mac, cmd, clock, issued, revoked, mishaps>>

\* Podman kills a container at its deadline, whether or not pisafe runs.
Tick ==
    /\ clock < MaxClock
    /\ clock' = clock + 1
    /\ vm' = [r \in Runs |->
                IF vm[r].container = "running" /\ vm[r].deadline <= clock + 1
                THEN [vm[r] EXCEPT !.container = "exited"]
                ELSE vm[r]]
    /\ UNCHANGED <<record, mac, cmd, issued, revoked, mishaps>>

-----------------------------------------------------------------------------
Begins(c) ==
    \/ BeginStart(c)
    \/ \E op \in {"stop", "resume", "apply", "discard"} : BeginByStopping(c, op)
    \/ BeginResume(c) \/ BeginApply(c) \/ BeginDiscard(c)

Proceeds(c) ==
    \/ PrepareSsh(c) \/ CreateStage(c) \/ CreateRunStorage(c) \/ RunContainer(c)
    \/ Materialize(c) \/ Configure(c)
    \/ StopContainer(c) \/ RemoveContainer(c) \/ VerifyRunStorage(c) \/ Persist(c)
    \/ CheckResume(c)
    \/ CaptureResult(c) \/ ImportResult(c) \/ CommitResult(c) \/ RollbackResult(c)
    \/ CopyBack(c) \/ DeclineApply(c)
    \/ ReclaimContainer(c) \/ DropStorage(c) \/ DropStage(c) \/ DropSsh(c)
    \/ DropArchive(c) \/ Forget(c)
    \/ ReadRecord(c) \/ ReplaceRecord(c)
    \/ StepIsRefused(c)

Next ==
    \/ \E c \in Commands :
         \/ Begins(c) \/ Proceeds(c)
         \/ StepFails(c) \/ WriteUnsynced(c) \/ Killed(c)
    \/ \E r \in Runs : AgentWorks(r) \/ ContainerExits(r)
    \/ VmGoesDown
    \/ Tick

Spec == Init /\ [][Next]_vars

\* The user keeps asking for a discard.
AsksForDiscard(c) == BeginDiscard(c) \/ BeginByStopping(c, "discard")

\* A command under way goes on.
FairSpec ==
    /\ Spec
    /\ \A c \in Commands : WF_vars(Proceeds(c)) /\ SF_vars(AsksForDiscard(c))

-----------------------------------------------------------------------------
(***************************************************************************)
(* Properties.                                                             *)
(***************************************************************************)
TypeOK ==
    /\ record \in [Runs -> Manifest]
    /\ vm \in [Runs -> VM]
    /\ mac \in [Runs -> Mac]
    /\ cmd \in [Commands -> Command]
    /\ clock \in Nat
    /\ issued \in Nat
    /\ revoked \in SUBSET Nat
    /\ mishaps \in Suffered

AtWork(r) == \E c \in Commands : RunOf[c] = r /\ ~At(c, "idle")

Owned(r) ==
    \/ vm[r].container # "none"
    \/ vm[r].storage # "none"
    \/ vm[r].stage
    \/ mac[r].ssh
    \/ mac[r].archive

\* One command at a time, a run keeps the promise of RunPromise whatever fails,
\* dies or restarts: it never goes back to a state it left, and no capability is
\* honoured in two of its active stretches.
Promise == INSTANCE RunPromise WITH
    state <- [r \in Runs |-> record[r].state],
    capability <- [r \in Runs |-> record[r].capability],
    spent <- revoked

KeepsPromise == Promise!Spec

\* Whatever fails or dies, nothing a run owns outlives its record: a leftover
\* always has a record that names it, and a discard that finds it.
NothingOwnedWithoutRecord ==
    \A r \in Runs : Owned(r) => record[r].state # "none"

\* A run recorded active, with a container running and no command at work on
\* it, can be used: its workspace is the run's own filesystem, and if the command
\* that started it had a provider to offer, its home is configured with the
\* capability the broker accepts for it.
ActiveRunIsUsable ==
    \A r \in Runs :
        (record[r].state = "active" /\ vm[r].container = "running" /\ ~AtWork(r))
        => /\ vm[r].offered => vm[r].told = record[r].capability
           /\ vm[r].storage = "mounted"

\* A record becomes unreadable in one way only: a resume of a run whose apply
\* was recorded and not completed.
OnlyResumedPlanIsUnreadable ==
    \A r \in Runs :
        (record[r].state # "none" /\ ~Readable(record[r]))
        => record[r].state = "active" /\ record[r].apply # Nil

\* Every record the store holds can be read back by it.
RecordsReadable ==
    \A r \in Runs : record[r].state # "none" => Readable(record[r])

\* Returned work is never dropped before it reached the working tree, as long as
\* the run has not been discarded.
ReturnedWorkKept ==
    \A r \in Runs :
        (record[r].returned /\ vm[r].storage # "none")
        => mac[r].archive \/ mac[r].copied

\* What an apply captured is still all of the run's work when it moves the refs to
\* it, in the apply that captured it and in every later one that finishes its plan:
\* nothing the run wrote is left behind, if every process before ran its cleanups.
\* A run reopened over its plan is not covered: the plan lands as it was captured.
NoWorkLeftBehind ==
    mishaps.orderly => \A c \in Commands :
        (At(c, "commit") /\ ~vm[RunOf[c]].reopened) => cmd[c].tip = vm[RunOf[c]].work

\* A workspace is captured only while nothing writes to it, if every process
\* before ran its cleanups: an apply trusts the record that says stopped.
CaptureIsQuiescent ==
    mishaps.orderly => \A c \in Commands : At(c, "import") => vm[RunOf[c]].container # "running"

\* With no command at work on a run, its container runs only if its record
\* claims it does, if every process before ran its cleanups.
RunningMeansActive ==
    mishaps.orderly => \A r \in Runs :
        (vm[r].container = "running" /\ ~AtWork(r)) => record[r].state = "active"

\* A running container has its run's filesystem under it, whoever else is at
\* work on the run.
RunningHasStorage ==
    \A r \in Runs : vm[r].container = "running" => vm[r].storage = "mounted"

\* The activation of a start took effect and reported an error: the start took
\* back all it had made, and the record says active.  The stop that a discard
\* begins with finds no filesystem and fails, every time.
Stranded(r) == ~mishaps.synced /\ record[r].state = "active" /\ vm[r].storage = "none"

\* A discard the user keeps asking for releases the run in the end, whatever state
\* a start, a crash or an earlier discard left it in.  The one run it never
\* releases is one that such a write has stranded for good.
DiscardReleases ==
    \A r \in Runs :
        \/ []<>(record[r].state = "none" /\ ~Owned(r))
        \/ <>[]Stranded(r)
==============================================================================
