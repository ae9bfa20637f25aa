# A verification of pisafe

TLA+ models of pisafe's core logic, model-checked with TLC on small instances and, where it says so below, proved with TLAPS for every value of the constants.

pisafe runs a coding agent on a Mac inside a container inside a Lima VM. A user starts a *run* from a Git checkout, connects to it, stops it, resumes it, applies what it produced to the checkout and discards it. Nothing schedules these commands: each invocation is a process, and what the processes share is files on the Mac, the VM and the user's repositories.

- [The system](#the-system)
- [Plan](#plan)
- [Modules](#modules)
- [Bounds](#bounds)
- [Runs](#runs)
- [Findings](#findings)
- [Fairness](#fairness)
- [Proofs](#proofs)
- [Only model-checked](#only-model-checked)
- [Not modelled](#not-modelled)

## The system

Paths are under `src/internal/` unless they start with `cmd/`.

| component | state it keeps | operations | what makes it correct |
|---|---|---|---|
| run records (`runstate/store.go`) | one JSON manifest per run: state, capability, stop and expiry, recorded apply, returned files, cache snapshot, last error | Create (hard link, exclusive), Activate, Resume, Stop, BeginApply, CompleteApply, RecordError, Remove: each reads, checks, writes a temporary file and renames it | the state machine is never left; a capability is honoured in one active stretch; what is written can be read back |
| run lifecycle (`runctl/`) | none of its own | Create, Stop, Resume, Apply, Discard: sequences of VM calls, record writes and deferred cleanups | what a run owns always has a record; an apply captures a quiescent workspace and all of it; a discard releases the run in the end |
| import (`gitstage/apply.go`) | `refs/pisafe/incoming/RUN` and `refs/heads/pisafe/RUN` in each repository; the plan in the record | ImportApply, CommitApply, RollbackApply | submodules before the superproject; a recorded plan can be replayed; all or nothing |
| project stores (`runstate` projects, `runctl/cache.go`, `gc.go`, `project.go`) | a record per checkout; a filesystem per project with cache generations and session transcripts | select, publish, evict a generation; promote and adopt transcripts; reset, drop, rebind; gc | a run's generation stays while the run may use it; a store always has a record; transcripts are not lost; the store of a missing checkout goes, after the window |
| profile (`profile/`, `cli/extension.go`, `cli/tool.go`) | `extensions.json`, `updates.json`, `tools.json`, package trees and links in the VM | install, update, remove an extension or a tool | what the records name is there; a failing command leaves the profile as it was |
| included files and copy-back (`gitstage/inputs.go`, `outputs.go`) | the selection and its digests in the stage; the returned archive on the Mac | Select, archive, restore, capture, CopyBack | a file the user changed meanwhile is not overwritten; all or nothing |
| staging (`gitstage/gitstage.go`, `runstart/`) | bundle and patch per repository, the stage directory | Prepare, recheckHeads, Materialize, FinalizeTracked | the run's history is based on what was staged, from one instant |
| storage helper, VM manager (`lima/config.go`, `lima/manager.go`, `cli/vm.go`) | disk images and mounts in the VM; the instance, its lock, the setup file | create, verify, remove a filesystem; Ensure, Start, Delete, rebuild | no data without its mount; a half-finished creation is cleaned or detected |
| broker (`broker/`) and credentials (`apikey/`, `chatgpt/`, `keychain/`) | in-flight count per run; the provider's key or rotating token | authorise each request against the records, relay, refresh | an active run's capability only; the cap holds; a rotating token is used once |
| backup (`backup/`, `cli/backup.go`, `runctl/backup.go`) | a directory of transcripts per project, and a manifest | write, restore | a finished backup has what the stores had; a restore only adds, and brings all of it back |
| run image, SSH directories, copies, identifiers, editor settings | files each of them owns | build, prepare, copy, derive, edit | see PROJECT.json |

How they interact. A command of `cli` builds a controller of `runctl`, which calls the record store and, over `limactl shell`, scripts in the VM (`lima/transport.go`). `runctl` calls `gitstage` on the user's repository for an apply, and the guest helper in the container for the capture. Stopping and resuming a run call into the project store's promotion, publication and eviction. gc and the project commands read run records to decide what to take. The broker reads run records on every request. All of it is read-act-write on shared state with no lock: the in-process mutexes are in `broker/server.go`, `apikey/source.go` and `chatgpt/source.go` only.

What is hard here:

- *interleaving*: two commands about one run, a gc beside a start, a rebind beside a resume, and the user's own `git` beside an apply;
- *crash and interruption*: SIGINT cancels the context and runs the deferred cleanups, a kill does not, and either can fall between any two steps;
- *partial failure*: every step is a remote call that can fail; a file replacement can report an error after it took effect (`safefile`: the directory sync after the rename); cleanups can fail too;
- *restart of the VM*: containers stop, filesystems are no longer mounted, a recreated VM knows no container;
- *time*: a run's container has a deadline, days pass for gc;
- *stale state*: most commands act for seconds or minutes on a record they read first.

PROJECT.json lists each hazard at its line, with the properties that cover it or the reason none does.

## Plan

Done, in order of importance:

1. **The life of a run**: RunRecord, RunLifecycle, RunPromise (its abstract specification), RunLifecycleProofs.
2. **The import**: ApplyImport, AtomicImport (its abstract specification), ApplyImportProofs.
3. **The project stores**: ProjectStores, with the backup and the restore of transcripts, and ProjectStoresProofs.
4. **The profile**: Profile, ProfileProofs, with the profile half of a restore.
5. **What crosses from the checkout and back**: Staging (history and tracked files), IncludedFiles (the files Git does not carry), StagingProofs, IncludedFilesProofs.
6. **The VM and its disks**: VmStorage, VmStorageProofs.
7. **The broker and its credentials**: Broker, BrokerProofs.

To do, in order:

8. *RunCopy* (`runcopy/`, `runctl/copy.go`): a copy in or out of a run that overlaps its stop, and the archive's limits.

Every safety property the passing runs check, and both refinements, are theorems; what a proof would still add is said where a theorem needs an assumption (see *Assumptions* below).

ProjectStores reduces a run to what the stores tell apart, ApplyImport reduces a run's record to the import's part of it, VmStorage a container to the filesystem it stands on, Broker a record to what authorises a request. They are views of the same commands rather than one product, whose state space TLC could not enumerate. Each names the steps the others detail.

## Modules

### RunRecord, RunLifecycle, RunPromise

RunRecord is the manifest and the store's operations as functions from record to record: what each accepts and what it writes (`runstate/store.go`). RunLifecycle executes the commands. State:

| variable | code |
|---|---|
| `record[r]` | `runs/RUN.json`; state `"none"` when there is none |
| `vm[r]` | the run's container, its deadline, its filesystem (none, unmounted, mounted), its stage directory, the capability its home was configured with, and the version of its workspace; as history, whether the command that configured the home last had a provider to offer, and whether a container was started over a recorded plan |
| `mac[r]` | the run's SSH directory, `RUN.returned.tar`, whether it was copied back, and the superproject's `refs/heads/pisafe/RUN` |
| `cmd[c]` | a process: its command, the controller method at work, its next step, the store operation under way and the record it last read or wrote |
| `clock`, `issued`, `revoked`, `mishaps` | ticks, capabilities generated, capabilities that left a record, and the mishaps so far |

Each action is one call that changes state: `Begin*` the checks a command makes first, `PrepareSsh` .. `Configure` the body of `Create` (`Configure` issues a capability whether or not there is a provider to offer, and writes it into the home only if there is), `StopContainer` .. `Persist` the stop, `CaptureResult` .. `CopyBack` the apply, `ReclaimContainer` .. `Forget` the discard. A store operation is two actions, `ReadRecord` (read and check) and `ReplaceRecord` (rename), since another process can write in between. `AfterFailure` is the deferred cleanups and error recording of the method at work. `StepFails` is a step that fails with nothing done, `WriteUnsynced` a replacement that took effect and reports an error, "unclean" a cleanup that fails, `Killed` a process that dies, `VmGoesDown` a restart or a recreation of the VM. An interrupted command (SIGINT) is a step that fails: the context is cancelled and the deferred cleanups run, under a context of their own.

RunPromise says what a run promises with no record, VM or process in it: the states a run goes through, a capability exactly while active, a new one each time, none honoured twice. RunLifecycle implements it through `Promise == INSTANCE RunPromise WITH ...`.

### ApplyImport, AtomicImport

`gitstage/apply.go` over N repositories (submodules 1..N-1, the superproject N) driven by `runctl/apply.go`. `branch` and `temp` are the two refs in each repository, `objects` the commits it holds, `state`, `plan` and `landed` the import's part of the record, `tree[v]` the commit each repository has in version v of the run's result. The run may go on between two attempts (`RunWorks`: a new version), the user may create and delete a branch of the run's name, and `git gc` prunes what no ref reaches. AtomicImport is what an apply promises: one result is chosen, its repositories move once each, the superproject last.

### ProjectStores

| variable | code |
|---|---|
| `run[r]`, `up`, `damaged` | a run as the stores see it; the runs whose container runs; the runs whose record cannot be read |
| `store[p]` | a project's record (`recorded`, `missing`: the stamp of a sweep), and its filesystem: made, mounted, the published generations and which is the newest, the transcripts |
| `absent[p]` | how long the checkout has been gone |
| `backup` | the backup directory: the projects its manifest names, the transcripts it has of each |
| `cmd[c]` | a process: its step, what it listed, planned or has left to do |

Actions follow `runctl/controller.go` and `lifecycle.go` (Register .. Activate, Launch, TakeBack), `cache.go` (SelectSnapshot, ListHeld, Publish, Evict), the scripts of `lima/transport.go` they call (Promote among them), `project.go` (Empty, Adopt, RemoveStore, ForgetStore), `gc.go` (BeginCollect, SweepRun, SweepStore, Stamp), and `cli/backup.go` with `runctl/backup.go` (NextProject, Archive, WriteManifest, Put). A backup ensures each recorded store and copies out what its directory shows; the manifest comes last and names what the directory holds, from this backup or an earlier one. A cache is a set of generations and the newest of them: an eviction keeps one generation beside those that are held (`DefaultCacheGenerations`), so no other age counts. Ages of absence are days, counted up to `Retention`.

### Profile

| variable | code |
|---|---|
| `record[p]` | `extensions.json` and `tools.json`: the release each package is pinned to, and the commands of a tool |
| `tree[p]` | the package's directory in the VM, as the release it was built from |
| `bin[x]` | the directory of links on a run's PATH: the tool each command resolves to |
| `cmd[c]` | a process: its command, its step, the packages left of its list, and the record as it read it and will write it |

`Begin*` read a record and check what the command needs; `NextUpdate`, `NextRestore` and `ListIsDone` are the lists of `extension update` and `restore`; `FetchPackage` and `PlaceTree` are `installPackageScript` (a tree moves away, another moves in; a failure or a kill between the two leaves none), `ClaimTool` and `Unclaim` are `claimTool`, `LinkBinaries` and `SwapLinks` the rebuild of the links, `WriteRecord` the replacement of the record. A removal of a tool goes links, record, tree; of an extension record, tree; a reset records, trees, links. What a release of a tool provides is a constant, which lets a release collide with another tool, claim the name of one, or claim nothing.

### Staging

`gitstage.go` (Prepare), `baseline.go` and the capture in the guest, over the superproject, 0, and its submodules, 1 to `Subs`.

| variable | code |
|---|---|
| `head`, `links`, `work` | on the Mac: each HEAD's tree, the submodule commits the superproject's HEAD records, the tracked working trees |
| `stage` | the stage package: what was read of each HEAD, what each bundle carries, each patch |
| `line`, `on`, `sub`, `tree`, `carried` | in the run: the superproject's branches and the one that is checked out, what each submodule has checked out, the working trees, the repositories with a baseline commit |
| `scratch`, `choice`, `prepared` | what a capture leaves about in the run; what the apply does with the baseline; what a capture hands over |

A preparation reads every HEAD, then bundles and diffs one repository after the other, then reads every HEAD again (`ReadHead`, `BundleHead`, `DiffFromHead`, `RecheckHead`); the user edits, commits and goes back to an earlier commit between any two of them. `Materialize` makes the run's history and its baseline commits. The agent edits, commits, takes commits back and switches branch. A capture commits what is left over, and without the baseline replays the rest in a detached worktree; `CaptureFails` and `CaptureKilled` leave its ref, worktree and registration behind, `Captured` begins by clearing them. A tree is a set of changes, a commit its maker, its tree and (in the superproject) what it records for the submodules.

### IncludedFiles

`inputs.go`, `outputs.go` and the guest's side, over a few paths.

| variable | code |
|---|---|
| `host`, `tracked` | what the working tree has at each path (a file's content, a link, nothing, something special, or something in the way of its directory), and what its repository tracks |
| `listed`, `roots`, `inputs`, `bundled`, `archive` | the listing the user chooses from, the chosen names, what each path held at selection, what the bundles carry, what the archive carries |
| `run`, `committed`, `outputs` | the workspace; what the run tracks; what it handed back |
| `todo`, `forced` | the paths still to archive or to write, in the order of the code: files before links, overridden conflicts last |
| `before`, `edited`, `raced` | history variables: the tree when it was first copied back to, the paths the user edited since, and those edited since the copy-back was planned |

`Select` makes the checks of the selection (credentials by name, links that lead out, the limits on count and size), `ArchiveInput` reads each path when it is reached and not when it was selected, `CopyBack` is the plan (what is missing, what is unchanged, what conflicts), `Written` one path of it. `CopyIsCut` is a failure or a kill between two of them; copying back again starts from a new plan.

### VmStorage

| variable | code |
|---|---|
| `status`, `built`, `helper` | Lima's view of the instance, the definition it was built from, and whether its boot script has installed the helper |
| `setup`, `mounted` | how far this boot's script got; the state disk is at `/var/lib/pisafe` |
| `disk`, `lock` | the state disk, and whose name Lima has on it |
| `image[i]`, `root`, `loop`, `unsynced` | each filesystem's image by the stage of its making, its directory, its mount, and whether a power cut may still undo its making |
| `stray`, `work`, `dirty`, `live` | filesystems on an instance's own disk (from before there was a state disk), filesystems that hold all the work done in them, those with work done since the VM last shut down, runs with a container |
| `cmd` | the command under way and its step |

The helper's `create`, `ensure` and `remove` are one action per command in the script (`config.go`), a boot one per stage, `vm rebuild` stop, delete, unlock, create and wait (`manager.go`, `cli/vm.go`). `CreateIsCut`, `GivesUp`, `DeleteKills` and `CommandKilled` are failures and kills between them, `CleanupPartial` is a start's own clean-up. Only a VM that shuts down flushes the state disk: a power cut, or a delete that kills, may take any of the work and the making of filesystems since. A device is formatted when no filesystem is found on it, and `blkid --probe` that cannot read a device, or cannot make it out, ends as one that finds nothing (`Candidate`). Lima is modelled by what the code says of it: what a boot attaches, when it locks a disk, and that it does not start an instance whose disk is locked by another.

### Broker

| variable | code |
|---|---|
| `record[r]` | the part of a run's record the broker reads on every request |
| `serving`, `catalog`, `inFlight`, `request[q]` | the broker, the upstreams it was started with, its count per run, and each request: arrived, authorised, waiting for credentials, relaying |
| `lock`, `cached`, `keyCached`, `refreshed` | the sources: who holds the subscription's mutex, what each has loaded, and what a refresh answered with before it is saved |
| `login`, `key`, `named`, `command` | the keychain and the provider's record, and a keyed login or logout between its two steps |
| `live`, `aged`, `issued`, `slip` | the provider: which refresh tokens it accepts and which access tokens are about to expire; a history of a lost answer or saving |

`Authorize` and `Acquire` are ServeHTTP's two looks before a relay, `KeyAuth` and `SubscriptionAuth` the sources, `Refresh`, `RefreshFails` and `Persist` the rotation of a token (asked for, answered, saved, used), `RelayEnds` every way out. `BrokerEnds` is a broker that exits or is killed wherever it is. Logins and logouts are other processes and write the keychain beside it.

## Bounds

Every unbounded counter has a constant that bounds it, in the guard of the action that advances it: `MaxClock` ticks, `MaxWork` versions of a workspace, `MaxIssued` capabilities (past it none can be generated, which the code treats as a failing step), `MaxVersion` versions of a result, `Retention` days, `MaxArchives` backups and restores, `MaxEdits` and `MaxTurns` of the user and the agent, `MaxEvents` failures, kills, power cuts and changes of definition of a VM, `MaxCapabilities` and `MaxTokens` issued, `MaxMishaps` mishaps of the kinds `Mishaps` allows. A cache has at most one generation per key.

Why the bounds are enough.

- Runs share nothing in RunLifecycle but the counter of capabilities, so one run shows what a run can meet. Two ticks, the first within a run's lifetime and the second past it, let a run be stopped and resumed with something left, end at its deadline, and be refused once it has expired. Three capabilities are a start, a resume that fails after it was issued one, and a resume that succeeds. Two mishaps let one failure hit the recovery from another.
- In ApplyImport a submodule and the superproject are the least with an order between them; three versions let a fetch meet a ref an earlier attempt left, twice. The order among submodules, however many, is proved.
- In ProjectStores two projects are what a rebind needs, two keys let a publication evict, and two runs let one hold a generation another replaces; the symmetry is over runs, keys and projects, which the module only compares. The sweeps and the backups need no second of any: what they relate is a project, its checkout and the backup. Two archives are a backup and its restore, or a backup into the directory of an earlier one. The safety of several projects beside backups is proved.
- In Profile two tools are what a conflict needs; one of the two command names is also a tool's, which a reader of the record refuses; the tools can stand side by side at some releases and not at others, and one release claims nothing; an extension and a tool differ in the steps they take, so one extension is enough beside them.
- In Staging one submodule is the least at which a stage has two instants; two edits let the user move HEAD and go back, two turns let the agent commit and take back or switch.
- In IncludedFiles two paths under one directory, one of them named like a credential and also a root of its own, with a limit of two files and one byte each, exercise every refusal; two edits are one before a copy-back and one during it.
- In VmStorage one run and one project are the two ways a filesystem is made; two events are a changed definition, which makes a rebuild due, and a power cut in that rebuild, or a power cut that meets what a kill left.
- In Broker two requests, one run and a cap of one contend for a slot and for a credential; two capabilities are a resume; three tokens are a login, its rotation, and a login or another rotation beside it. The view leaves out how many of the issued tokens nobody holds; requests are interchangeable.

Deadlock is checked except where the story really ends: in RunLifecycle a discarded run's ID is not used again, so when the clock and the mishaps are spent nothing is left to do; in IncludedFiles neither is there when the edits and turns are spent and the copy is done or refused. In the other modules the user or the clock can always act.

## Runs

States are distinct states, on two workers.

| run | instance | checks | states |
|---|---|---|---|
| lifecycle_solo | 1 run, 1 process, any sequence of commands, 2 ticks, 3 capabilities, 2 mishaps of any kind, with fairness | NothingOwnedWithoutRecord, ActiveRunIsUsable, OnlyResumedPlanIsUnreadable, ReturnedWorkKept, KeepsPromise, DiscardReleases; while every process ran its cleanups, CaptureIsQuiescent, NoWorkLeftBehind, RunningMeansActive | 838,286 |
| lifecycle_resumed_plan | 1 run, 1 process, 1 failing step | RecordsReadable, **violated** | |
| apply_solo | 1 submodule and the superproject, 3 versions, 1 process, 3 mishaps, with fairness | BranchesComeSubmodulesFirst, ImportedIsWhole, PlanStaysReplayable, LandsAtomically, ApplyConverges | 58,138 |
| stores_solo | 2 projects, 2 runs, 2 keys, 1 process, 1 mishap of any kind | StoresAreNamed, RunsHaveStores, HeldGenerationsExist, CacheStaysUsable | 2,142,014 |
| stores_sweep | 1 project, 1 run, 1 process, 2 days, 2 mishaps, 2 backups or restores, with fairness | MissingStoreReclaimed, BackupBringsBack | 59,831 |
| stores_rebind | 2 projects, 1 restart of the VM | TranscriptsKept, **violated** | |
| profile_solo | 1 extension, 2 tools, 3 releases, 2 commands, 1 process, 2 mishaps, with fairness | NoCommandClaimedTwice, CommandsMeanOneTool, PinnedTreesStay, RestoreOnlyAdds, ResetEmpties | 330,162 |
| profile_claim | the same, no mishap | ToolTreesStay, **violated** | |
| staging_solo | 1 submodule, 2 edits of the user, 2 turns of the agent, 1 mishap, with fairness | StagedAsSeen, ReturnsTheRunsWork, CaptureConverges | 390,124 |
| included_solo | 2 paths, 2 contents and a link, 2 edits, 1 turn, 1 mishap, with fairness | KeepsTheMacsWork, CompletesToMerge, CopyConverges | 733,742 |
| vm_storage | 1 run, 1 project, 2 events, with fairness | LiveRunsAreSound, WorkIsKept, RebuildConverges, RemovalConverges | 231,741 |
| broker_serve | 2 requests, 1 run, a cap of 1, 2 capabilities, 3 tokens | SlotsAreCounted, OnlyLiveRunsAreServed, LoginSurvives, KeysAreNamed | 1,654,584 |

Three properties of lifecycle_solo are about the behaviours in which steps fail and the VM restarts, but no process was killed and no cleanup failed (`mishaps.orderly`): they need the deferred cleanups. A resume killed after `podman run` leaves a container under a record that says stopped (RunningMeansActive fails), and an apply then trusts the record (CaptureIsQuiescent fails). NoWorkLeftBehind also needs that nobody writes between the capture and the refs; it covers the apply that captured and every later one that replays its plan, and leaves out a run that was reopened over its plan, whose plan lands as it was captured (see *Findings*).

Four more properties name the exception the code has. ActiveRunIsUsable asks for the capability only where the command that configured the home had a provider to offer. DiscardReleases excepts a run that an unsynced activation has stranded for good (`Stranded`). PinnedTreesStay excepts a replacement that fails or dies between its two renames, and only that step of it. WorkIsKept excepts what no shutdown has flushed when the VM is cut off, and a boot that cannot probe the state disk.

PlanStaysReplayable is about the behaviours in which no write that took effect reported an error (`mishaps.unsynced`); LoginSurvives about those in which no answer of a rotation, and no saving, was lost.

The runs of RunLifecycle, ApplyImport, ProjectStores and Profile have one command at work at a time. Two commands about one run break most of what lifecycle_solo checks: a discard beside a start leaves what the start allocates without a record, and RecordError of one command writes back the record another has changed, reviving a revoked capability. OnlyResumedPlanIsUnreadable and RunningHasStorage survive any number of them, and that is proved rather than run; so is NoCommandClaimedTwice, and everything about Broker, where processes overlap in the run too. The rest is proved under the same restriction the runs have, but for any number of runs, repositories or packages: `Alone` lets the commands about different runs interleave as they like.

## Findings

Each is a violation run whose trace TLC prints.

- **lifecycle_resumed_plan**: an apply fails in CommitApply after its plan was recorded; the user resumes the run. `Resume` keeps the plan in a record it writes active, which `validateStoredManifest` refuses: from then on every command but discard fails on the record.
- **stores_rebind**: after a restart of the VM the old project's filesystem is not mounted; `RebindProject` finds no transcripts to adopt, and then removes the filesystem that has them.
- **profile_claim**: a tool is installed, and installed again at a release that claims another tool's command, or none. `claimTool` has put the new tree over the installed one by the time it refuses, and takes the package's directory out: the record and the links still name it. Every rebuild of the links then fails (`test -x`), so other tools cannot be installed or removed until this one is removed or installed again; with two tools in that state neither can be removed, and only a reset or an install that is accepted helps.

Met while reading, and not the subject of a run.

*Runs.* Resuming after a restart of the VM fails when the project's filesystem is not mounted (`runctl/lifecycle.go:122`). What is left of a run is computed before a transfer and used after it (`runctl/lifecycle.go:110`). An activation that reports an error after it took effect is taken back like any failed start and stays recorded active: the stop a discard begins with finds no filesystem to verify and fails, every time, so no command releases the run, though `runctl/lifecycle.go:230` says that a failure always leaves something to retry against and `runctl/controller.go:159` that every removal is idempotent and releasing what was never allocated never a wrong answer. A run that is resumed after the last provider was logged out is issued a new capability and told nothing: its home keeps the old entry, with the capability the stop revoked, where the comment at `runctl/controller.go:345` has no entry at all. An apply that fails after its plan was recorded, followed by a resume that fails once the agent has worked, leaves a plan older than the workspace, and the next apply lands it.

*Applies.* Two overlapping applies of one run both find no branch; one lands it, and the other, whose BeginApply is refused, rolls back by deleting the branch the first created, since both have the same commits (`runctl/apply.go:81`). A plan whose write reported an error after it took effect is rolled back, and can no longer be replayed once git has collected. An import refused between its fetch into the superproject and the journal leaves a temporary ref (`gitstage/apply.go:448`).

*Stores.* A run still being created holds no generation, so a reset or an eviction can take the one it was given (`runctl/cache.go:93`). Drop or gc beside a start removes the record of a filesystem the start then creates. A run's transcript that was already promoted is not promoted again, so what a resumed run adds to it stays in the run (`lima/transport.go:370`). A checkout goes, is stamped missing, comes back and goes again: the stamp is only cleared by what registers the project, so a sweep reclaims the store before the window has passed since it went (`runctl/gc.go:105`).

*Backups.* The comment on `backup.Write` (`backup/backup.go:183`) says that a directory an export did not finish filling holds no manifest; a second backup into the same directory leaves the first one's until it ends. A VM that restarts between `EnsureProjectStorage` and the archive makes a backup report an unread store as empty, which is what the comment at `cli/backup.go:143` means to exclude. A restore registers a project again and so clears its stamp: a user who keeps restoring keeps the store of a checkout that is gone (`MaxArchives` bounds how often).

*Profile.* Two commands about extensions (or tools) each write back the record they read before minutes of fetching, so the pin of the first to end is lost (`cli/extension.go:127`). `ParseTools` keeps the names of packages and of commands in one table, so a tool with a command of another tool's name is installed and recorded, and the record can no longer be read (`profile/profile.go:481`). A tree moves away before the new one moves in, so a run that starts between the two renames finds nothing, and if the second rename fails or is never reached the record names a tree that is not there until the next install: the comments at `lima/transport.go:176`, that such a run finds one or the other rather than nothing, and at `cli/extension.go:231`, that what the record names is always something already there, do not hold then.

*Staging.* An agent that switches branch in the superproject hands back a final commit that is not imported. The comment at `gitstage/gitstage.go:375`, that a stage is never assembled from two different states, is about HEADs: a HEAD that moved and came back, or an edit between two repositories' patches, is not seen. On a conflict of a replay without the baseline the run is not left exactly as it was: what was not committed is by then. A capture that is asked again after a failure reports no final commit of its own.

*Included files.* A file the user deleted on the Mac comes back with a copy-back (`gitstage/outputs.go:222`). The digest recorded of an included file is of the moment of its selection, while the archive is of a later one and checks only the size, so a change of the same size crosses under the old digest (`gitstage/inputs.go:44`). A file that grows while it is archived is cut at the size it was selected with, where the comment says it fails. A change of the executable bit alone is not copied back. A file edited between the plan of a copy-back and its write is overwritten.

*VM.* The boot script formats, by force, the one device on which `blkid --probe` exits with an error, and a probe that cannot read a disk exits like one that finds nothing (`lima/config.go:247`); the comment below it has that no filesystem and no partition table is what identifies the new disk. Nothing but a shutdown flushes the state disk, so a power cut takes what runs wrote since the last one as far as the VM's kernel had not got to it. `Delete` killed before it unlocks the state disk leaves the lock, and the next delete returns early, so it is the second rebuild after it that heals (`lima/manager.go:258`). A rebuild that discards a VM from before the state disk and is killed after the delete is followed by one that does not forget the lost runs and prints that every run kept its workspace.

*Broker.* A login or a logout beside a running broker is undone by the broker's next refresh, which writes its own credential (`chatgpt/source.go:43`), though `cli/login.go:230` says the token is gone from this Mac. The token endpoint is asked with no timeout and under the source's mutex: every request for that upstream waits for it. A token that could not be saved leaves the broker with one that is ended until it is restarted. A keyed source keeps an old key until then too. Two processes, a login and a logout of one key, can together leave a key no record names.

## Fairness

- `WF_vars(Proceeds(c))`: a process that has started goes on until it ends, unless it fails or is killed. Mishaps are bounded and have no fairness.
- `SF_vars(AsksForDiscard(c))` and `SF_vars(BeginApply(c))`: the user asks again whenever it is possible again and again; without it nothing calls the command. Strong, because between two attempts other commands may keep the process busy.
- `SF_vars(BeginReset(c))`: the user asks for `profile reset` again, for ResetEmpties.
- `SF_vars(Day)`, `SF_vars(BeginCollect(c))`: days pass, and the user runs `pisafe gc` now and then. Day is disabled while a command is at work (no command takes a day), so weak fairness would let commands hold time back for ever.
- Staging: `WF_vars(Captured)`, a capture that has begun ends; `SF_vars(BeginCapture("keep"))`, the user asks for an apply again, with the baseline, since a replay without it may conflict each time.
- IncludedFiles: `WF_vars(Written)`, and `SF_vars(CopyBack(FALSE))`: the user asks again without overriding anything.
- VmStorage: `WF_vars(CommandSteps)` and `WF_vars(BootSteps)`; `SF_vars(BeginRebuild(TRUE))` and `SF_vars(BeginDrop(i))`, the two cures a user is told of.
- Broker has none, and no liveness: the token endpoint is asked with no timeout, so nothing in the code makes a refresh, and the requests that wait behind it, end.

The code has no background process but the broker: a liveness property of pisafe is about a user who keeps asking, and says that asking is enough.

## Proofs

tlapm checks every leaf of eight modules. Where a model's TypeOK is not in a run it is because it is proved.

RunLifecycleProofs, for any runs, any commands (two may be about one run), any mishaps and bounds:

- `TypeCorrect`: TypeOK is inductive by itself. The store's operations return manifests (lemmas on RunRecord), and `AfterFailure`, `Applying` and the like return commands.
- `StorageUnderContainer`: RunningHasStorage. A container starts only on mounted storage, a filesystem is dropped only under a container that does not run, and a restart ends containers as it unmounts. Inductive with TypeOK, and the argument depends on no order between commands: each step's own guard carries it.
- `UnreadableOnlyByResumedPlan`: OnlyResumedPlanIsUnreadable. Inductive once strengthened to what a command holds in memory (`CommandsSound`): a command about to write has read a record that was readable, or an active one with a plan, and the operation was allowed on it.

And with at most one command at a time about each run (`Alone`; see *Runs* for what two about one run break), any number of runs side by side:

- `OwnedIsRecorded` (NothingOwnedWithoutRecord), `ActiveIsUsable` (ActiveRunIsUsable), `ReturnedWorkIsKept` (ReturnedWorkKept), `CapturedAtRest` (CaptureIsQuiescent), `ImportIsComplete` (NoWorkLeftBehind), `RunningIsActive` (RunningMeansActive). None is inductive. They are parts of one invariant, `OneAtATime` (with `PlansAreCurrent`: a recorded plan is all of the run's work, unless the run was reopened over it), over what each command is doing (`Staged`: the stages a command goes through, by step and by what comes after it), what its run's record says at that stage (`Recorded`), what is in the VM and on the Mac (`Held`), and what is true of a run whatever is at work on it (`Kept`, `Launched`). It needs OnlyResumedPlanIsUnreadable, and that a capability is issued once (`CapabilitiesFresh`): one a command is about to write is in no run's record, in no other command's memory, and not revoked. What is true only while every cleanup ran is conditional on `mishaps.orderly` in the invariant, as in the properties.
- `PromiseKept`: KeepsPromise, `Spec => Promise!Spec` for the refinement mapping the run uses: initial states map to initial states, and every step to a step of RunPromise or to a stutter, from the same invariant.

ApplyImportProofs, for any number of repositories and versions, with one process (`Solo`; two overlapping applies do break ImportedIsWhole, see above):

- `TypeCorrect`: TypeOK, strengthened by `Formed`: an applier at work has a version and a repository.
- `ImportedRunsAreWhole` and `SubmodulesLandFirst`: ImportedIsWhole and BranchesComeSubmodulesFirst. Neither is inductive: whether the superproject's branch may be created depends on which submodules the process has passed, and a rollback must not meet a branch that a completed plan needs. The invariant, `Lands`, adds to the types what the record and the branches say of each other (`Recorded`) and what is true of the branches at each step of the process (`Placed`): at `commit` place i, every moved repository before i has its branch; while a journal is undone there is no plan that completed.
- `ImplementsAtomicImport`: LandsAtomically, `Spec => Import!Spec`: initial states map to initial states and every step to a Choose, a Move, a Finish or a stutter, from the same invariant.
- `PlansStayReplayable`: PlanStaysReplayable. The invariant (`Kept`) says what keeps a commit from git's collection: what a ref reaches is in the repository (`Held`), and, while no write that took effect has reported an error, a ref reaches what the recorded plan names in each repository it still has to move, and what an import has fetched so far before there is a plan (`Assured`). A temporary ref goes only where the branch has taken its place, or where there is no plan.

ProjectStoresProofs, for any projects, runs, keys and windows, any mishaps and any number of backups, with one command at a time (`Solo`):

- `TypeCorrect`, `NoStoreIsLost` (StoresAreNamed), `NoRunLosesItsStore` (RunsHaveStores), `NoRunLosesItsGeneration` (HeldGenerationsExist), `BackupsComeBack` (BackupBringsBack). All are parts of one invariant, `Sound`: the types, what stores and records say of each other (`StoresSound`, `RunsSound`), and what a command relies on at each of its steps (`Placed`), in five parts: a command that makes a store has recorded it (`PlacedStore`), one about a run has it in the state the step is for (`PlacedRun`), an eviction spares every generation that is held, and is skipped when a record could not be read (`PlacedEviction`), what a removal takes is no run's (`PlacedRemoval`), what a backup or a restore has behind it is copied (`PlacedCopy`). Most steps leave stores and records as they are, or change one of them in a way a single lemma covers.
- `CachesStayUsable`: CacheStaysUsable, from the same invariant: the newest generation is in the cache, and every eviction keeps it.

ProfileProofs, for any packages, releases and commands; the first two for any number of processes, the others for one at a time (`Solo`):

- `TypeCorrect`: TypeOK, strengthened by `Formed`: a process about to put a tree in place knows of which package and release.
- `ClaimsAreFair`: NoCommandClaimedTwice. A record is written whole from memory, so the invariant (`FairClaims`) is about what every process remembers as well as about the record: a process adds to a record in which no command was claimed twice only what is not in conflict with it, and a write mixes the extensions of one with the tools of another. It holds however stale the memory is.
- `CommandsAreTheirHolders` (CommandsMeanOneTool), `PinnedExtensionsStay` (PinnedTreesStay) and `RestoresOnlyAdd` (RestoreOnlyAdds). The invariant (`OneByOne`) adds to CommandsMeanOneTool what a process at each step knows (`Placed`): what it remembers of the packages it is not about is what the record says (`Remembers`), what a restore is about is not recorded (`Adds`), what is about to be taken away is not (`Removes`), and, while links are made again, no command has one holder in memory and another on disk (`Relinks`), so that a kill between any two steps leaves no link that means another tool. PinnedTreesStay also needs that an extension about to be recorded has its tree (`PlacedFirst`).

StagingProofs, for any submodules, changes and bounds:

- `TypeCorrect`: TypeOK, strengthened to how far a stage has been assembled at each step (`Grown`).
- `StagesAreSnapshots`: StagedAsSeen. The invariant (`StageSound`) says of each repository a patch was made of that bundle and patch together make a tree it had since the preparation began, if its HEAD has not left and come back; a recheck turns that into the stage.
- `CapturesReturnTheWork`: ReturnsTheRunsWork. The invariant (`WorkSound`) says that on the Mac every change is the user's (`MacsChanges`); that past its first commit nothing in the run's history changes what the user had changed, and that only its second commit can be the baseline, which records each submodule without one where it was staged (`RunsHistory`); that the submodules before the one a capture has reached were handed over as they stand (`SubmodulesPacked`); and that the tip is the work, from the moment it is taken (`TipTaken`). Without the baseline the tip is what a rebase makes of the history, defined by recursion on its length. That the recursion defines something (`PicksExist`), and what it computes (`ReplayIsTheRest`: no baseline, what the user had changed as it was staged, every change of the agent's, every submodule pointer the baseline did not move), is proved for histories of any length, by the least length at which it would fail.

IncludedFilesProofs, for any paths, names, contents, limits and bounds:

- `TypeCorrect`: TypeOK.
- `CopyBackKeepsTheMacsWork`: KeepsTheMacsWork. The invariant (`PlanSound`) says of what a copy-back has yet to write that the path holds what the plan saw, or was edited since.
- `AttemptsAddUpToOneCopy`: CompletesToMerge. The invariant (`CopySound`) relates what each path holds, half way through any attempt, to what the first attempt found and what the run returned: untouched, or already the merge.

VmStorageProofs, for any runs, projects, definitions and mishaps:

- `TypeCorrect`: TypeOK, strengthened by the steps of each operation.
- `ContainersRunOnWholeFilesystems`: LiveRunsAreSound. The invariant (`LiveSound`) adds what holds of a boot that has not ended, of an image at each step of its making, and of a filesystem that is being taken away.
- `WorkGoesOnlyWhenAsked`: WorkIsKept, from `LiveSound` and `KeptSound`: strays exist only on an instance from before the state disk, a disk without its label holds no work, a disk that is mounted has its label, and a rebuild that gets as far as deleting an instance with strays was told to discard them.

BrokerProofs, for any runs, requests, caps, capabilities and tokens, with requests, logins and the broker's end interleaved as they come:

- `TypeCorrect` and `EverySlotComesBack`: SlotsAreCounted, inductive with the types and with where the holder of the source's mutex stands. The arithmetic is over the cardinality of a set of requests.
- `ServedRunsWereLive`: OnlyLiveRunsAreServed, from capabilities being issued once: a record that has a request's capability had it when the request came.
- `StoredLoginWorks`: LoginSurvives, strengthened to what a broker has loaded, and is refreshing, beside what is stored.
- `StoredKeysAreNamed`: KeysAreNamed, with the step a login or logout is at.

### Assumptions

Those the modules name on their constants (how many repositories, where mishaps come from, what is finite), which TLC evaluates in the runs, and `Solo` or `Alone` where a theorem says so: one process, or one command about each run. The code has no lock that gives either; they say that a user waits for a command about a run, or about the profile, before giving the next one. Without them the properties are false, as *Runs* says, and the theorems that do without them are the ones that hold however commands overlap.

The induction theorems of the library cannot be used (they take an operator as a parameter). The one place that needs induction over data, the replay of a history, uses that the naturals are well-founded instead (`NaturalsHaveLeast`).

## Only model-checked

Liveness, which is beyond the prover: DiscardReleases, ApplyConverges, MissingStoreReclaimed, ResetEmpties, CaptureConverges, CopyConverges, RebuildConverges, RemovalConverges. The properties of the three violation runs are false of the code, and TLC shows how.

## Not modelled

Copies in and out of a run, the run image, editor settings, and the interactive and listing commands, with the reason of each in PROJECT.json. Rendering, argument parsing, printing, the content of keys, archives and images are left out for good: no property here is about them. Of the project stores: project records that cannot be read, and a removal that stops half way in the VM. Of the profile: the offers and the listing, a removal or a reset that stops half way through a tree, and two commands at the very same staging name. Of the included files: modes. Of the broker: the bytes it relays, and what a browser does in a login. Lima, podman, git, the keychain and the provider are external: they appear as what the code does with them. A run's deadline is in the model (`vm[r].deadline`), but how long a step takes is not, so nothing bounds how late a container may end.
