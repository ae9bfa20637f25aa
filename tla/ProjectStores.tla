---------------------------- MODULE ProjectStores ----------------------------
(***************************************************************************)
(* The store a project's runs share: a filesystem in the VM holding its    *)
(* dependency caches and its session transcripts, and a record on the Mac  *)
(* naming the checkout it belongs to.  Runs mount it, and hand back to it  *)
(* what they produced when they stop; commands empty, drop and rebind it;  *)
(* a sweep reclaims the store of a checkout that is gone; a backup copies  *)
(* the transcripts out, and a restore puts them back.                      *)
(*                                                                         *)
(* A run is reduced to what the stores tell apart: its state, its project, *)
(* the cache generation it mounts and the key it publishes, and whether it *)
(* has produced anything.  A generation is named by its key, a transcript  *)
(* by its run.  RunLifecycle has the rest of a run's life.                 *)
(***************************************************************************)
EXTENDS Naturals

CONSTANTS
    Projects,       \* checkouts, by the key of their path
    Runs,           \* run IDs
    Keys,           \* cache keys: the digests of a project's lockfile
    Processes,      \* invocations of pisafe
    Retention,      \* days an imported run, or a missing checkout, is kept
    Mishaps,        \* which mishaps this instance allows
    MaxMishaps,     \* bound: how many of them happen
    MaxArchives     \* bound: how often the user backs up or restores

ASSUME RetentionAssumption == Retention \in Nat \ {0}
ASSUME MishapsAssumption ==
    /\ Mishaps \subseteq {"fail", "kill", "reboot", "damage", "return"}
    /\ MaxMishaps \in Nat
ASSUME ArchivesAssumption == MaxArchives \in Nat

VARIABLES
    run,        \* each run: its record, and what its own filesystem holds
    up,         \* the runs whose container runs
    damaged,    \* the runs whose record this version cannot read
    store,      \* each project's store: its record and its filesystem
    absent,     \* each checkout: the days it has been gone
    backup,     \* the backup directory: its manifest and its transcripts
    archives,   \* the backups and restores the user asked for
    cmd,        \* where each process is, and what it holds in memory
    mishaps

copies == <<backup, archives>>
vars == <<run, up, damaged, store, absent, copies, cmd, mishaps>>

Nil == "nil"                \* no run, no project, no cache generation
Never == Retention + 1      \* no stamp; a checkout that is there

\* Days, counted up to Retention.
Age == 0 .. Retention

Older(age) == IF age < Retention THEN age + 1 ELSE age

\* worked says that the run wrote a transcript and filled its cache.
Run ==
    [state : {"unused", "creating", "active", "stopped", "imported", "gone"},
     project : Projects \cup {Nil}, key : Keys \cup {Nil}, snapshot : Keys \cup {Nil},
     worked : BOOLEAN, age : Age]

\* cache holds the published generations; of their ages only which is the newest
\* counts, since it is the one an eviction keeps and a start falls back on.
Store ==
    [recorded : BOOLEAN, missing : Age \cup {Never},
     exists : BOOLEAN, mounted : BOOLEAN,
     cache : SUBSET Keys, newest : Keys \cup {Nil}, sessions : SUBSET Runs]

\* A backup that was never finished has no manifest, which names no project.
Backup == [manifest : SUBSET Projects, files : [Projects -> SUBSET Runs]]

Op == {"start", "stop", "resume", "import", "discard", "reset", "drop", "rebind", "collect",
       "backup", "restore"}
Step == {"register", "ensure", "select", "create", "launch", "activate", "unwind",
         "takedown", "record", "list", "publish", "evict", "promote",
         "relaunch", "reactivate", "takeback", "import", "reclaim", "forget",
         "empty", "adopt", "remove", "forgetStore", "sweep",
         "each", "archive", "put"}

\* held and unreadable are what publishCaches listed; sweep is a gc's plan; left are
\* the projects a backup or a restore has before it, and kept those a backup will name.
Process ==
    [op : Op \cup {Nil}, pc : Step \cup {"idle"}, run : Runs \cup {Nil},
     from : Projects \cup {Nil}, to : Projects \cup {Nil},
     key : Keys \cup {Nil}, snapshot : Keys \cup {Nil},
     held : SUBSET Keys, unreadable : SUBSET Runs,
     left : SUBSET Projects, kept : SUBSET Projects,
     sweep : [runs : SUBSET Runs, stores : SUBSET Projects, stamps : SUBSET Projects]]

NoPlan == [runs |-> {}, stores |-> {}, stamps |-> {}]

Idle ==
    [op |-> Nil, pc |-> "idle", run |-> Nil, from |-> Nil, to |-> Nil, key |-> Nil,
     snapshot |-> Nil, held |-> {}, unreadable |-> {}, left |-> {}, kept |-> {},
     sweep |-> NoPlan]

NoRun ==
    [state |-> "unused", project |-> Nil, key |-> Nil, snapshot |-> Nil,
     worked |-> FALSE, age |-> 0]

NoStore ==
    [recorded |-> FALSE, missing |-> Never, exists |-> FALSE, mounted |-> FALSE,
     cache |-> {}, newest |-> Nil, sessions |-> {}]

Init ==
    /\ run = [r \in Runs |-> NoRun]
    /\ up = {}
    /\ damaged = {}
    /\ store = [p \in Projects |-> NoStore]
    /\ absent = [p \in Projects |-> Never]
    /\ backup = [manifest |-> {}, files |-> [p \in Projects |-> {}]]
    /\ archives = 0
    /\ cmd = [c \in Processes |-> Idle]
    /\ mishaps = 0

-----------------------------------------------------------------------------
(***************************************************************************)
(* What the records say.  A record that cannot be read names no project    *)
(* and no generation.                                                      *)
(***************************************************************************)
Recorded(r) == run[r].state \notin {"unused", "gone"}
Listed == {r \in Runs : Recorded(r)} \ damaged
RunsOf(p) == {r \in Listed : run[r].project = p}
InUse(p) == RunsOf(p) # {}

HoldsGeneration(r) == run[r].state \in {"active", "stopped"} /\ run[r].snapshot # Nil
Holders(p) == {r \in RunsOf(p) : HoldsGeneration(r)}
HeldGenerations(p) == {run[r].snapshot : r \in Holders(p)}

\* Mutant of Free: records that cannot be read are not asked about.
FreeOfListed(p) == ~InUse(p)

\* A store can be disturbed when no record refers to it, and no record is there
\* of which that is not known.
Free(p) == ~InUse(p) /\ damaged = {}

(***************************************************************************)
(* What a sweep would do, from the records and the presence of checkouts.  *)
(***************************************************************************)
Expired(age) == age = Retention

Abandoned == {p \in Projects : store[p].recorded /\ ~InUse(p) /\ absent[p] # Never}

\* Mutant of Plan: every sweep dates the absence anew.
PlanRestamping ==
    LET stores == {p \in Abandoned : damaged = {} /\ Expired(store[p].missing)}
    IN  [runs   |-> {r \in Listed : run[r].state = "imported" /\ Expired(run[r].age)},
         stores |-> stores,
         stamps |-> Abandoned \ stores]

Plan ==
    LET stores == {p \in Abandoned : damaged = {} /\ Expired(store[p].missing)}
    IN  [runs   |-> {r \in Listed : run[r].state = "imported" /\ Expired(run[r].age)},
         stores |-> stores,
         stamps |-> {p \in Abandoned \ stores : store[p].missing = Never}]

-----------------------------------------------------------------------------
(***************************************************************************)
(* Where a command goes.                                                   *)
(***************************************************************************)
At(c, pc) == cmd[c].pc = pc
Goto(s, pc) == [s EXCEPT !.pc = pc]
Becomes(c, s) == cmd' = [cmd EXCEPT ![c] = s]

\* Stop is done, and everything it hands over has been tried.
AfterStop(s) ==
    CASE s.op = "resume"  -> Goto(s, "relaunch")
      [] s.op = "import"  -> Goto(s, "import")
      [] s.op = "discard" -> Goto(s, "reclaim")
      [] OTHER            -> Idle

\* A sweep goes on with the rest of its plan whatever became of one entry.
Finished(s) == IF s.op = "collect" THEN Goto(s, "sweep") ELSE Idle

\* Mutant of AfterFailure: a store that could not be removed is forgotten.
AfterFailureForgetting(s) ==
    CASE s.pc \in {"list", "publish", "evict"} -> Goto(s, "promote")
      [] s.pc = "promote"                      -> AfterStop(s)
      [] s.pc \in {"launch", "activate"}       -> Goto(s, "unwind")
      [] s.pc \in {"relaunch", "reactivate"}   -> Goto(s, "takeback")
      [] s.pc = "remove"                       -> Goto(s, "forgetStore")
      [] OTHER                                 -> Finished(s)

(***************************************************************************)
(* A step reports an error.  What a stop hands over is tried part by part; *)
(* a start or a resume past the point where it has a container takes it    *)
(* back; anything else gives up.                                           *)
(***************************************************************************)
AfterFailure(s) ==
    CASE s.pc \in {"list", "publish", "evict"}    -> Goto(s, "promote")
      [] s.pc = "promote"                         -> AfterStop(s)
      [] s.pc \in {"launch", "activate"}          -> Goto(s, "unwind")
      [] s.pc \in {"relaunch", "reactivate"}      -> Goto(s, "takeback")
      [] OTHER                                    -> Finished(s)

-----------------------------------------------------------------------------
(***************************************************************************)
(* Commands begin.                                                         *)
(***************************************************************************)
Begins(c, s) ==
    /\ At(c, "idle")
    /\ Becomes(c, s)
    /\ UNCHANGED <<run, up, damaged, store, absent, copies, mishaps>>

BeginStart(c) ==
    \E r \in Runs, p \in Projects, k \in Keys :
        /\ run[r].state = "unused"
        /\ \A d \in Processes : cmd[d].run # r      \* IDs are not used twice
        /\ absent[p] = Never
        /\ Begins(c, [Idle EXCEPT !.op = "start", !.pc = "register",
                                  !.run = r, !.to = p, !.key = k])

\* An active run is stopped before it is imported or discarded; one whose
\* container has ended is stopped before it is resumed.
BeginByStopping(c, op) ==
    \E r \in Listed :
        /\ run[r].state = "active"
        /\ op = "resume" => r \notin up
        /\ Begins(c, [Idle EXCEPT !.op = op, !.pc = "takedown", !.run = r])

BeginResume(c) ==
    \E r \in Listed :
        /\ run[r].state = "stopped"
        /\ Begins(c, [Idle EXCEPT !.op = "resume", !.pc = "relaunch", !.run = r])

BeginImport(c) ==
    \E r \in Listed :
        /\ run[r].state = "stopped"
        /\ Begins(c, [Idle EXCEPT !.op = "import", !.pc = "import", !.run = r])

BeginDiscard(c) ==
    \E r \in Runs :
        /\ Recorded(r)
        /\ run[r].state = "active" => r \in damaged
        /\ Begins(c, [Idle EXCEPT !.op = "discard", !.pc = "reclaim", !.run = r])

BeginReset(c) ==
    \E p \in Projects :
        /\ Holders(p) = {} /\ damaged = {}
        /\ Begins(c, [Idle EXCEPT !.op = "reset", !.pc = "empty", !.from = p])

BeginDrop(c) ==
    \E p \in Projects :
        /\ Free(p) /\ store[p].recorded
        /\ Begins(c, [Idle EXCEPT !.op = "drop", !.pc = "remove", !.from = p])

\* The user stands in the checkout that takes the history.
BeginRebind(c) ==
    \E p, q \in Projects :
        /\ p # q /\ absent[q] = Never
        /\ Free(p) /\ Free(q)
        /\ store[p].recorded /\ ~store[q].recorded
        /\ Begins(c, [Idle EXCEPT !.op = "rebind", !.pc = "register", !.from = p, !.to = q])

\* What the records name is what a backup copies, and what its manifest names is
\* what a restore brings back.
BeginArchiving(c, op, projects) ==
    /\ At(c, "idle")
    /\ archives < MaxArchives
    /\ archives' = archives + 1
    /\ Becomes(c, [Idle EXCEPT !.op = op, !.pc = "each", !.left = projects])
    /\ UNCHANGED <<run, up, damaged, store, absent, backup, mishaps>>

BeginBackup(c) == BeginArchiving(c, "backup", {p \in Projects : store[p].recorded})

BeginRestore(c) ==
    backup.manifest # {} /\ BeginArchiving(c, "restore", backup.manifest)

BeginCollect(c) == Begins(c, [Idle EXCEPT !.op = "collect", !.pc = "sweep", !.sweep = Plan])

-----------------------------------------------------------------------------
(***************************************************************************)
(* Steps of a start, a rebind and a restore: the record of a store goes in *)
(* before its filesystem.  Registering a project clears its stamp.         *)
(***************************************************************************)
Goes(c, s) == Becomes(c, s) /\ UNCHANGED <<damaged, absent, copies, mishaps>>

Register(c) ==
    LET p == cmd[c].to IN
    /\ At(c, "register")
    /\ store' = [store EXCEPT ![p].recorded = TRUE, ![p].missing = Never]
    /\ Goes(c, Goto(cmd[c], "ensure"))
    /\ UNCHANGED <<run, up>>

\* What a command wants of the filesystem it ensured.
AfterEnsure(op) ==
    CASE op = "rebind"  -> "adopt"
      [] op = "backup"  -> "archive"
      [] op = "restore" -> "put"
      [] OTHER          -> "select"

Ensure(c) ==
    LET p == cmd[c].to IN
    /\ At(c, "ensure")
    /\ store' = [store EXCEPT ![p].exists = TRUE, ![p].mounted = TRUE]
    /\ Goes(c, Goto(cmd[c], AfterEnsure(cmd[c].op)))
    /\ UNCHANGED <<run, up>>

\* The exact generation, else the newest one, which is none in an empty cache.
Selected(s, key) == IF key \in s.cache THEN key ELSE s.newest

SelectSnapshot(c) ==
    /\ At(c, "select")
    /\ Goes(c, [Goto(cmd[c], "create") EXCEPT
                  !.snapshot = Selected(store[cmd[c].to], cmd[c].key)])
    /\ UNCHANGED <<run, up, store>>

Create(c) ==
    LET s == cmd[c] IN
    /\ At(c, "create")
    /\ run' = [run EXCEPT ![s.run] = [state |-> "creating", project |-> s.to, key |-> s.key,
                                      snapshot |-> s.snapshot, worked |-> FALSE, age |-> 0]]
    /\ Goes(c, Goto(s, "launch"))
    /\ UNCHANGED <<up, store>>

\* A container's overlays need the project's filesystem, and the generation the
\* run selected, to be there.
CanMount(r) ==
    LET s == store[run[r].project] IN
    s.mounted /\ (run[r].snapshot # Nil => run[r].snapshot \in s.cache)

\* podman run, of a start and of a resume.
Launch(c) ==
    LET r == cmd[c].run IN
    /\ At(c, "launch") \/ At(c, "relaunch")
    /\ CanMount(r)
    /\ up' = up \cup {r}
    /\ Goes(c, Goto(cmd[c], IF At(c, "launch") THEN "activate" ELSE "reactivate"))
    /\ UNCHANGED <<run, store>>

\* What a write of a run's record needs: that the record can be read.
Activate(c) ==
    LET r == cmd[c].run IN
    /\ At(c, "activate") \/ At(c, "reactivate")
    /\ r \notin damaged
    /\ run' = [run EXCEPT ![r].state = "active"]
    /\ Goes(c, Idle)
    /\ UNCHANGED <<up, store>>

\* The cleanup of a start or a resume that failed.
TakeBack(c) ==
    LET r == cmd[c].run IN
    /\ At(c, "unwind") \/ At(c, "takeback")
    /\ up' = up \ {r}
    /\ run' = [run EXCEPT ![r].worked = At(c, "takeback") /\ @]
    /\ Goes(c, Idle)
    /\ UNCHANGED store

-----------------------------------------------------------------------------
(***************************************************************************)
(* Steps of a stop: the container goes, the record says so, and what the   *)
(* run produced is handed to its project.                                  *)
(***************************************************************************)
TakeDown(c) ==
    /\ At(c, "takedown")
    /\ up' = up \ {cmd[c].run}
    /\ Goes(c, Goto(cmd[c], "record"))
    /\ UNCHANGED <<run, store>>

RecordStop(c) ==
    LET r == cmd[c].run IN
    /\ At(c, "record")
    /\ r \notin damaged
    /\ run' = [run EXCEPT ![r].state = "stopped"]
    /\ Goes(c, Goto(cmd[c], "list"))
    /\ UNCHANGED <<up, store>>

ListHeld(c) ==
    /\ At(c, "list")
    /\ Goes(c, [Goto(cmd[c], "publish") EXCEPT
                  !.held = HeldGenerations(run[cmd[c].run].project),
                  !.unreadable = damaged])
    /\ UNCHANGED <<run, up, store>>

\* A generation is never rewritten, and a run that filled nothing publishes
\* nothing.  Writing one needs the project's filesystem.
Publishes(r) ==
    run[r].worked /\ ~(store[run[r].project].mounted
                       /\ run[r].key \in store[run[r].project].cache)

Publish(c) ==
    LET r == cmd[c].run
        p == run[r].project
    IN
    /\ At(c, "publish")
    /\ Publishes(r) => store[p].mounted
    /\ store' = IF Publishes(r)
                THEN [store EXCEPT ![p].cache = @ \cup {run[r].key},
                                   ![p].newest = run[r].key]
                ELSE store
    /\ Goes(c, Goto(cmd[c], IF cmd[c].unreadable = {} THEN "evict" ELSE "promote"))
    /\ UNCHANGED <<run, up>>

\* Mutant of Kept: only the newest generation is kept.
KeptByAge(s, held) == s.cache \cap {s.newest}

\* Mutant of Kept: only the generations that are held are kept.
KeptIfHeld(s, held) == s.cache \cap held

\* An eviction keeps the newest generation (DefaultCacheGenerations is one) and
\* whatever a run may mount.
Kept(s, held) == s.cache \cap (held \cup {s.newest})

Evict(c) ==
    LET p == run[cmd[c].run].project IN
    /\ At(c, "evict")
    /\ store' = IF store[p].mounted
                THEN [store EXCEPT ![p].cache = Kept(store[p], cmd[c].held)]
                ELSE store
    /\ Goes(c, Goto(cmd[c], "promote"))
    /\ UNCHANGED <<run, up>>

\* A transcript the store has is left as it is.
Promote(c) ==
    LET r == cmd[c].run
        p == run[r].project
    IN
    /\ At(c, "promote")
    /\ store[p].mounted
    /\ store' = [store EXCEPT ![p].sessions =
                   IF run[r].worked THEN @ \cup {r} ELSE @]
    /\ Goes(c, AfterStop(cmd[c]))
    /\ UNCHANGED <<run, up>>

RecordImport(c) ==
    LET r == cmd[c].run IN
    /\ At(c, "import")
    /\ r \notin damaged
    /\ run' = [run EXCEPT ![r].state = "imported", ![r].age = 0]
    /\ Goes(c, Idle)
    /\ UNCHANGED <<up, store>>

\* What a run owns goes, and then its record.
Reclaim(c) ==
    LET r == cmd[c].run IN
    /\ At(c, "reclaim")
    /\ up' = up \ {r}
    /\ run' = [run EXCEPT ![r].worked = FALSE]
    /\ Goes(c, Goto(cmd[c], "forget"))
    /\ UNCHANGED store

Forget(c) ==
    LET r == cmd[c].run IN
    /\ At(c, "forget")
    /\ run' = [run EXCEPT ![r] = [NoRun EXCEPT !.state = "gone"]]
    /\ damaged' = damaged \ {r}
    /\ Becomes(c, Finished(cmd[c]))
    /\ UNCHANGED <<up, store, absent, copies, mishaps>>

-----------------------------------------------------------------------------
(***************************************************************************)
(* Steps on a whole store.  What is not mounted has nothing to empty, and  *)
(* nothing to adopt.                                                       *)
(***************************************************************************)
Empty(c) ==
    LET p == cmd[c].from IN
    /\ At(c, "empty")
    /\ store' = IF store[p].mounted
                THEN [store EXCEPT ![p].cache = {}, ![p].newest = Nil]
                ELSE store
    /\ Goes(c, Idle)
    /\ UNCHANGED <<run, up>>

Adopt(c) ==
    LET p == cmd[c].from
        q == cmd[c].to
    IN
    /\ At(c, "adopt")
    /\ store[q].mounted
    /\ store' = [store EXCEPT ![q].sessions =
                   IF store[p].mounted THEN @ \cup store[p].sessions ELSE @]
    /\ Goes(c, Goto(cmd[c], "remove"))
    /\ UNCHANGED <<run, up>>

\* A filesystem a container is stacked on cannot be unmounted.
Busy(p) == \E r \in up : run[r].project = p

\* The filesystem goes before the record that names it.
RemoveStore(c) ==
    LET p == cmd[c].from IN
    /\ At(c, "remove")
    /\ ~Busy(p)
    /\ store' = [store EXCEPT ![p].exists = FALSE, ![p].mounted = FALSE,
                              ![p].cache = {}, ![p].newest = Nil, ![p].sessions = {}]
    /\ Goes(c, Goto(cmd[c], "forgetStore"))
    /\ UNCHANGED <<run, up>>

ForgetStore(c) ==
    LET p == cmd[c].from IN
    /\ At(c, "forgetStore")
    /\ store' = [store EXCEPT ![p].recorded = FALSE, ![p].missing = Never]
    /\ Goes(c, Finished(cmd[c]))
    /\ UNCHANGED <<run, up>>

(***************************************************************************)
(* A sweep carries out its plan: runs, then stores, then stamps.           *)
(***************************************************************************)
SweepRun(c) ==
    LET s == cmd[c] IN
    /\ At(c, "sweep")
    /\ \E r \in s.sweep.runs :
         Goes(c, [Goto(s, "reclaim") EXCEPT !.run = r, !.sweep.runs = @ \ {r}])
    /\ UNCHANGED <<run, up, store>>

SweepStore(c) ==
    LET s == cmd[c] IN
    /\ At(c, "sweep") /\ s.sweep.runs = {}
    /\ \E p \in s.sweep.stores :
         Goes(c, [Goto(s, "remove") EXCEPT !.from = p, !.sweep.stores = @ \ {p}])
    /\ UNCHANGED <<run, up, store>>

Stamp(c) ==
    LET s == cmd[c] IN
    /\ At(c, "sweep") /\ s.sweep.runs = {} /\ s.sweep.stores = {}
    /\ \E p \in s.sweep.stamps :
         /\ store' = IF store[p].recorded THEN [store EXCEPT ![p].missing = 0] ELSE store
         /\ Goes(c, [s EXCEPT !.sweep.stamps = @ \ {p}])
    /\ UNCHANGED <<run, up>>

Swept(c) ==
    /\ At(c, "sweep") /\ cmd[c].sweep = NoPlan
    /\ Goes(c, Idle)
    /\ UNCHANGED <<run, up, store>>

-----------------------------------------------------------------------------
(***************************************************************************)
(* A backup and a restore take one project after the other.                *)
(***************************************************************************)
NextProject(c) ==
    LET s == cmd[c] IN
    /\ At(c, "each")
    /\ \E p \in s.left :
         Goes(c, [s EXCEPT !.pc = IF s.op = "backup" THEN "ensure" ELSE "register",
                           !.to = p, !.left = @ \ {p}])
    /\ UNCHANGED <<run, up, store>>

\* Mutant of Archived: a project that has nothing new is not named.
ArchivedIfNew(p, sent) == sent \ backup.files[p] # {}

\* A project is named for what the backup holds of it, whenever that was copied.
Archived(p, sent) == backup.files[p] \cup sent # {}

\* A filesystem that is not mounted sends nothing, and nothing fails.  The copy taken
\* first of a transcript is the one kept.
Archive(c) ==
    LET s == cmd[c]
        p == s.to
        sent == IF store[p].mounted THEN store[p].sessions ELSE {}
    IN
    /\ At(c, "archive")
    /\ backup' = [backup EXCEPT !.files[p] = @ \cup sent]
    /\ Becomes(c, [Goto(s, "each") EXCEPT !.kept = IF Archived(p, sent) THEN @ \cup {p} ELSE @])
    /\ UNCHANGED <<run, up, damaged, store, absent, archives, mishaps>>

\* The manifest is written last.
WriteManifest(c) ==
    LET s == cmd[c] IN
    /\ At(c, "each") /\ s.op = "backup" /\ s.left = {}
    /\ backup' = [backup EXCEPT !.manifest = s.kept]
    /\ Becomes(c, Idle)
    /\ UNCHANGED <<run, up, damaged, store, absent, archives, mishaps>>

\* A restore only adds.
Put(c) ==
    LET p == cmd[c].to IN
    /\ At(c, "put")
    /\ store[p].mounted
    /\ store' = [store EXCEPT ![p].sessions = @ \cup backup.files[p]]
    /\ Goes(c, Goto(cmd[c], "each"))
    /\ UNCHANGED <<run, up>>

Restored(c) ==
    /\ At(c, "each") /\ cmd[c].op = "restore" /\ cmd[c].left = {}
    /\ Goes(c, Idle)
    /\ UNCHANGED <<run, up, store>>

-----------------------------------------------------------------------------
(***************************************************************************)
(* Mishaps.                                                                *)
(***************************************************************************)
Mishap(kind) ==
    /\ kind \in Mishaps
    /\ mishaps < MaxMishaps
    /\ mishaps' = mishaps + 1

StepFails(c) ==
    /\ cmd[c].pc \notin {"idle", "unwind", "takeback", "sweep"}
    /\ Mishap("fail")
    /\ Becomes(c, AfterFailure(cmd[c]))
    /\ UNCHANGED <<run, up, damaged, store, absent, copies>>

\* A step whose precondition does not hold is refused.
Impossible(c) ==
    LET r == cmd[c].run IN
    \/ (At(c, "launch") \/ At(c, "relaunch")) /\ ~CanMount(r)
    \/ cmd[c].pc \in {"activate", "reactivate", "record", "import"} /\ r \in damaged
    \/ At(c, "publish") /\ Publishes(r) /\ ~store[run[r].project].mounted
    \/ At(c, "promote") /\ ~store[run[r].project].mounted
    \/ (At(c, "adopt") \/ At(c, "put")) /\ ~store[cmd[c].to].mounted
    \/ At(c, "remove") /\ Busy(cmd[c].from)

StepIsRefused(c) ==
    /\ Impossible(c)
    /\ Goes(c, AfterFailure(cmd[c]))
    /\ UNCHANGED <<run, up, store>>

\* The process dies where it stands: nothing deferred runs.
Killed(c) ==
    /\ ~At(c, "idle")
    /\ Mishap("kill")
    /\ Becomes(c, Idle)
    /\ UNCHANGED <<run, up, damaged, store, absent, copies>>

\* The VM restarts: no container runs, and no project's filesystem is mounted.
Reboot ==
    /\ Mishap("reboot")
    /\ up' = {}
    /\ store' = [p \in Projects |-> [store[p] EXCEPT !.mounted = FALSE]]
    /\ UNCHANGED <<run, damaged, absent, copies, cmd>>

\* A run's record becomes one this version of pisafe cannot read.
Damage(r) ==
    /\ Recorded(r) /\ r \notin damaged
    /\ Mishap("damage")
    /\ damaged' = damaged \cup {r}
    /\ UNCHANGED <<run, up, store, absent, copies, cmd>>

-----------------------------------------------------------------------------
(***************************************************************************)
(* What happens by itself.                                                 *)
(***************************************************************************)
AgentWorks(r) ==
    /\ r \in up
    /\ run' = [run EXCEPT ![r].worked = TRUE]
    /\ UNCHANGED <<up, damaged, store, absent, copies, cmd, mishaps>>

ContainerEnds(r) ==
    /\ r \in up
    /\ up' = up \ {r}
    /\ UNCHANGED <<run, damaged, store, absent, copies, cmd, mishaps>>

CheckoutGoes(p) ==
    /\ absent[p] = Never
    /\ absent' = [absent EXCEPT ![p] = 0]
    /\ UNCHANGED <<run, up, damaged, store, copies, cmd, mishaps>>

CheckoutReturns(p) ==
    /\ absent[p] # Never
    /\ Mishap("return")
    /\ absent' = [absent EXCEPT ![p] = Never]
    /\ UNCHANGED <<run, up, damaged, store, copies, cmd>>

\* No command takes a day.
Day ==
    /\ \A c \in Processes : At(c, "idle")
    /\ run' = [r \in Runs |-> IF run[r].state = "imported"
                              THEN [run[r] EXCEPT !.age = Older(@)] ELSE run[r]]
    /\ store' = [p \in Projects |-> IF store[p].missing \in Age
                                    THEN [store[p] EXCEPT !.missing = Older(@)] ELSE store[p]]
    /\ absent' = [p \in Projects |-> IF absent[p] \in Age THEN Older(absent[p]) ELSE absent[p]]
    /\ UNCHANGED <<up, damaged, copies, cmd, mishaps>>

-----------------------------------------------------------------------------
Commands(c) ==
    \/ BeginStart(c)
    \/ \E op \in {"stop", "resume", "import", "discard"} : BeginByStopping(c, op)
    \/ BeginResume(c) \/ BeginImport(c) \/ BeginDiscard(c)
    \/ BeginReset(c) \/ BeginDrop(c) \/ BeginRebind(c) \/ BeginCollect(c)
    \/ BeginBackup(c) \/ BeginRestore(c)

Proceeds(c) ==
    \/ Register(c) \/ Ensure(c) \/ SelectSnapshot(c) \/ Create(c)
    \/ Launch(c) \/ Activate(c) \/ TakeBack(c)
    \/ TakeDown(c) \/ RecordStop(c) \/ ListHeld(c) \/ Publish(c) \/ Evict(c) \/ Promote(c)
    \/ RecordImport(c) \/ Reclaim(c) \/ Forget(c)
    \/ Empty(c) \/ Adopt(c) \/ RemoveStore(c) \/ ForgetStore(c)
    \/ SweepRun(c) \/ SweepStore(c) \/ Stamp(c) \/ Swept(c)
    \/ NextProject(c) \/ Archive(c) \/ WriteManifest(c) \/ Put(c) \/ Restored(c)
    \/ StepIsRefused(c)

Next ==
    \/ \E c \in Processes : Commands(c) \/ Proceeds(c) \/ StepFails(c) \/ Killed(c)
    \/ \E r \in Runs : AgentWorks(r) \/ ContainerEnds(r) \/ Damage(r)
    \/ \E p \in Projects : CheckoutGoes(p) \/ CheckoutReturns(p)
    \/ Reboot
    \/ Day

Spec == Init /\ [][Next]_vars

\* Commands under way go on, days pass, and the user runs a sweep now and then.
FairSpec ==
    /\ Spec
    /\ SF_vars(Day)
    /\ \A c \in Processes : WF_vars(Proceeds(c)) /\ SF_vars(BeginCollect(c))

-----------------------------------------------------------------------------
(***************************************************************************)
(* Properties.                                                             *)
(***************************************************************************)
TypeOK ==
    /\ run \in [Runs -> Run]
    /\ up \subseteq Runs
    /\ damaged \subseteq Runs
    /\ store \in [Projects -> Store]
    /\ absent \in [Projects -> Age \cup {Never}]
    /\ backup \in Backup
    /\ archives \in Nat
    /\ cmd \in [Processes -> Process]
    /\ mishaps \in Nat

\* No filesystem is ever without the record that says which checkout it is of.
StoresAreNamed == \A p \in Projects : store[p].exists => store[p].recorded

\* A run that has a record has its project's store: whatever commands remove a
\* store, and whichever records they cannot read, none takes it from a run.
RunsHaveStores == \A r \in Runs : Recorded(r) => store[run[r].project].exists

\* The generation an active or a stopped run mounts, or will when it resumes, is
\* in its project's cache: no eviction, reset or removal took it.
HeldGenerationsExist ==
    \A r \in Runs : HoldsGeneration(r) => run[r].snapshot \in store[run[r].project].cache

\* Once a generation was published there is one to start from, until the cache
\* is emptied on purpose.
CacheStaysUsable ==
    [][\A p \in Projects :
         store[p].cache # {} /\ store'[p].cache = {}
         => \E c \in Processes : cmd[c].from = p /\ (At(c, "empty") \/ At(c, "remove"))]_vars

\* A transcript a project has leaves it only with the store, on the user's word or
\* on a sweep's, or for the checkout the history moved to.
TranscriptsKept ==
    [][\A p \in Projects :
         LET lost == store[p].sessions \ store'[p].sessions IN
         lost # {} => \E c \in Processes :
                        /\ At(c, "remove") /\ cmd[c].from = p
                        /\ cmd[c].op = "rebind" => lost \subseteq store[cmd[c].to].sessions]_vars

\* What a backup that is about to be finished holds is what the stores have, but for
\* one whose filesystem went away meanwhile, and it will name each; what a restore
\* that is about to end leaves in the stores is what the backup has for them.
BackupBringsBack ==
    \A c \in Processes : At(c, "each") /\ cmd[c].left = {} =>
        /\ cmd[c].op = "backup" =>
             \A p \in Projects : store[p].mounted =>
                 /\ store[p].sessions \subseteq backup.files[p]
                 /\ store[p].sessions # {} => p \in cmd[c].kept
        /\ cmd[c].op = "restore" =>
             \A p \in backup.manifest : backup.files[p] \subseteq store[p].sessions

\* The store of a checkout that is gone for good, of which only imported runs are
\* left, is reclaimed in the end.
OnlyImportedRuns(p) ==
    \A r \in Runs : (Recorded(r) /\ run[r].project = p) => run[r].state = "imported"

MissingStoreReclaimed ==
    \A p \in Projects :
        [](absent[p] # Never /\ OnlyImportedRuns(p) /\ damaged = {}) ~> ~store[p].recorded
==============================================================================
