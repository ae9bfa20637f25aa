------------------------------- MODULE Profile -------------------------------
(***************************************************************************)
(* The profile every run mounts: the packages installed in it, the records *)
(* that name them, and the directory of commands on a run's PATH.          *)
(* Extensions and tools are installed the same way, each in a namespace of *)
(* its own.  Runs mount the profile itself, so what a command does to it   *)
(* is seen at once; no lock orders two commands, and each writes back,     *)
(* whole, the record it read before it fetched anything.                   *)
(*                                                                         *)
(* A package is at a release.  The tree of a package, in a directory named *)
(* after it, is the release it was built from.  A package installed both   *)
(* as an extension and as a tool is two packages here.                     *)
(*                                                                         *)
(* A file is replaced in one step here.  Two commands that write one       *)
(* record, or install one package, at the very same time share a staging   *)
(* name; what that can do is left out.                                     *)
(***************************************************************************)
EXTENDS Naturals

CONSTANTS
    Extensions,     \* packages that can be installed as extensions
    Tools,          \* packages that can be installed as tools
    Releases,
    Binaries,       \* names of commands; a tool's name can be one of them
    Provides,       \* the commands each release of a tool has
    Processes,      \* invocations of pisafe
    Mishaps,        \* which mishaps this instance allows
    MaxMishaps      \* bound: how many of them happen

ASSUME PackagesAssumption == Extensions \cap Tools = {}
ASSUME NilAssumption == "nil" \notin Releases \cup Tools
ASSUME ProvidesAssumption == Provides \in [Tools -> [Releases -> SUBSET Binaries]]
ASSUME ProfileMishapsAssumption == Mishaps \subseteq {"fail", "kill"} /\ MaxMishaps \in Nat

VARIABLES
    record,     \* extensions.json and tools.json: what is pinned, and to what
    tree,       \* the release each package's directory holds
    bin,        \* the tool each command in the directory of links resolves to
    cmd,        \* where each process is, and what it holds in memory
    mishaps     \* mishaps so far

vars == <<record, tree, bin, cmd, mishaps>>

Packages == Extensions \cup Tools
Nil == "nil"                \* no release, no package
ReleaseOrNil == Releases \cup {Nil}

\* The namespace of a package: a record is written for one of them.
Kin(p) == IF p \in Tools THEN Tools ELSE Extensions

\* An extension claims no command; a package that claims none is not a tool.
Pin == [release : Releases, binaries : SUBSET Binaries]
Absent == [release |-> Nil, binaries |-> {}]

PinsOf(packages) ==
    {pins \in [packages -> Pin \cup {Absent}] :
        \A p \in packages \cap Tools : pins[p].binaries = {} => pins[p] = Absent}

Op == {"install", "update", "restore extensions", "restore tools", "remove", "reset"}
Step == {"next", "read tools", "fetch", "place", "claim", "unclaim", "link", "swap",
         "record", "remove", "clear extensions", "clear tools", "empty"}

\* seen is the record as read, and as it will be written; todo is what is left of
\* a command about several packages.
Process ==
    [op : Op \cup {Nil}, pc : Step \cup {"idle"}, todo : SUBSET Packages,
     package : Packages \cup {Nil}, release : ReleaseOrNil, seen : PinsOf(Packages)]

Nothing == [p \in Packages |-> Absent]

Idle ==
    [op |-> Nil, pc |-> "idle", todo |-> {}, package |-> Nil, release |-> Nil,
     seen |-> Nothing]

Init ==
    /\ record = Nothing
    /\ tree = [p \in Packages |-> Nil]
    /\ bin = [b \in Binaries |-> Nil]
    /\ cmd = [c \in Processes |-> Idle]
    /\ mishaps = 0

-----------------------------------------------------------------------------
(***************************************************************************)
(* What the records say.                                                   *)
(***************************************************************************)
Installed(pins, p) == pins[p] # Absent

\* A reader refuses two tools that claim one name, and takes the name of a tool
\* for one it claims.
Readable(pins) ==
    \A p, q \in Tools :
        (p # q /\ Installed(pins, p) /\ Installed(pins, q))
        => pins[p].binaries \cap (pins[q].binaries \cup {q}) = {}

\* Mutant of Conflicts: only a tool that provides all of the commands is in the way.
ConflictsInAll(pins, p, binaries) ==
    \E q \in Tools \ {p} : binaries # {} /\ binaries \subseteq pins[q].binaries

\* A tool never conflicts with the release of itself it replaces.
Conflicts(pins, p, binaries) ==
    \E q \in Tools \ {p} : pins[q].binaries \cap binaries # {}

\* The directory of links holds exactly what the record names.
Links(pins) ==
    [b \in Binaries |->
        IF \E p \in Tools : b \in pins[p].binaries
        THEN CHOOSE p \in Tools : b \in pins[p].binaries
        ELSE Nil]

Has(p, b) == tree[p] # Nil /\ b \in Provides[p][tree[p]]

\* What the installed tree of a tool claims.
Found(p) == {b \in Binaries : Has(p, b)}

-----------------------------------------------------------------------------
At(c, pc) == cmd[c].pc = pc
Becomes(c, s) == cmd' = [cmd EXCEPT ![c] = s]
Goto(s, pc) == [s EXCEPT !.pc = pc]

Fetching(s, p, v) == [s EXCEPT !.pc = "fetch", !.package = p, !.release = v]

\* A command is through with a package: the next one of its list, if it has one.
Through(s) ==
    IF s.op \in {"update", "restore extensions", "restore tools"}
    THEN [s EXCEPT !.pc = "next", !.todo = @ \ {s.package}]
    ELSE Idle

\* A package that will not install leaves the others of a restore alone; a record
\* that cannot be written ends the half of the restore it is of.
Restoring(s) == s.op \in {"restore extensions", "restore tools"}

AfterFailure(s) ==
    CASE s.pc = "claim"                                         -> Goto(s, "unclaim")
      [] s.pc \in {"fetch", "place", "unclaim"} /\ Restoring(s) -> Through(s)
      [] s.op = "restore extensions" /\ s.pc = "record"         -> Goto(s, "read tools")
      [] OTHER                                                  -> Idle

Mishap(kind) ==
    /\ kind \in Mishaps
    /\ mishaps < MaxMishaps
    /\ mishaps' = mishaps + 1

-----------------------------------------------------------------------------
(***************************************************************************)
(* The commands.  Each reads the record it will write before it acts.      *)
(***************************************************************************)
Reading(op) == [Idle EXCEPT !.op = op, !.seen = record]

BeginInstall(c) ==
    /\ At(c, "idle")
    /\ \E p \in Packages, v \in Releases :
         /\ p \in Tools => Readable(record)
         /\ Becomes(c, Fetching(Reading("install"), p, v))
    /\ UNCHANGED <<record, tree, bin, mishaps>>

BeginUpdate(c) ==
    /\ At(c, "idle")
    /\ \E names \in SUBSET Extensions \ {{}} :
         Becomes(c, [Reading("update") EXCEPT !.pc = "next", !.todo = names])
    /\ UNCHANGED <<record, tree, bin, mishaps>>

BeginRestore(c) ==
    /\ At(c, "idle")
    /\ \E held \in SUBSET Extensions :
         Becomes(c, [Reading("restore extensions") EXCEPT !.pc = "next", !.todo = held])
    /\ UNCHANGED <<record, tree, bin, mishaps>>

\* Mutant of BeginRemove: the tree of an extension goes before its record.
BeginRemoveTreeFirst(c) ==
    /\ At(c, "idle")
    /\ \E p \in Packages :
         /\ Installed(record, p)
         /\ p \in Tools => Readable(record)
         /\ Becomes(c, [Reading("remove") EXCEPT !.package = p, !.pc = "remove"])
    /\ UNCHANGED <<record, tree, bin, mishaps>>

BeginRemove(c) ==
    /\ At(c, "idle")
    /\ \E p \in Packages :
         /\ Installed(record, p)
         /\ p \in Tools => Readable(record)
         /\ Becomes(c, [Reading("remove") EXCEPT
                          !.package = p, !.seen[p] = Absent,
                          !.pc = IF p \in Tools THEN "link" ELSE "record"])
    /\ UNCHANGED <<record, tree, bin, mishaps>>

\* Mutant of BeginReset: a profile is reset once its tool record was read.
BeginResetReadable(c) ==
    /\ At(c, "idle")
    /\ Readable(record)
    /\ Becomes(c, [Idle EXCEPT !.op = "reset", !.pc = "clear extensions"])
    /\ UNCHANGED <<record, tree, bin, mishaps>>

\* A reset reads no record.
BeginReset(c) ==
    /\ At(c, "idle")
    /\ Becomes(c, [Idle EXCEPT !.op = "reset", !.pc = "clear extensions"])
    /\ UNCHANGED <<record, tree, bin, mishaps>>

-----------------------------------------------------------------------------
(***************************************************************************)
(* The list of an update, and of a restore.                                *)
(***************************************************************************)
\* The record in memory is the one the packages before were pinned in.
NextUpdate(c) ==
    /\ At(c, "next") /\ cmd[c].op = "update"
    /\ \E p \in cmd[c].todo :
         LET s == [cmd[c] EXCEPT !.package = p] IN
         IF ~Installed(s.seen, p) THEN Becomes(c, Idle)
         ELSE \E v \in Releases :
                Becomes(c, IF v = s.seen[p].release THEN Through(s) ELSE Fetching(s, p, v))
    /\ UNCHANGED <<record, tree, bin, mishaps>>

\* Mutant of NextRestore: what is installed is put back as it was.
NextRestoreOverwriting(c) ==
    /\ At(c, "next") /\ Restoring(cmd[c])
    /\ \E p \in cmd[c].todo, v \in Releases : Becomes(c, Fetching(cmd[c], p, v))
    /\ UNCHANGED <<record, tree, bin, mishaps>>

\* What is installed is left alone, whatever it is pinned to.
NextRestore(c) ==
    /\ At(c, "next") /\ Restoring(cmd[c])
    /\ \E p \in cmd[c].todo, v \in Releases :
         Becomes(c, IF Installed(cmd[c].seen, p)
                    THEN Through([cmd[c] EXCEPT !.package = p])
                    ELSE Fetching(cmd[c], p, v))
    /\ UNCHANGED <<record, tree, bin, mishaps>>

ListIsDone(c) ==
    /\ At(c, "next") /\ cmd[c].todo = {}
    /\ Becomes(c, IF cmd[c].op = "restore extensions" THEN Goto(cmd[c], "read tools") ELSE Idle)
    /\ UNCHANGED <<record, tree, bin, mishaps>>

\* The tools of a backup are restored after its extensions.
ReadTools(c) ==
    /\ At(c, "read tools")
    /\ IF Readable(record)
       THEN \E held \in SUBSET Tools :
              Becomes(c, [Reading("restore tools") EXCEPT !.pc = "next", !.todo = held])
       ELSE Becomes(c, Idle)
    /\ UNCHANGED <<record, tree, bin, mishaps>>

-----------------------------------------------------------------------------
(***************************************************************************)
(* Installing a package: its tree is fetched beside its place, the tree    *)
(* there moves away, and the new one moves in.                             *)
(***************************************************************************)
FetchPackage(c) ==
    /\ At(c, "fetch")
    /\ tree' = [tree EXCEPT ![cmd[c].package] = Nil]
    /\ Becomes(c, Goto(cmd[c], "place"))
    /\ UNCHANGED <<record, bin, mishaps>>

\* The record to be written has the extension at the release that was resolved; a
\* tool's commands are yet to be read from the tree.
PlaceTree(c) ==
    LET s == cmd[c] IN
    /\ At(c, "place")
    /\ tree' = [tree EXCEPT ![s.package] = s.release]
    /\ Becomes(c, IF s.package \in Tools THEN Goto(s, "claim")
                  ELSE [s EXCEPT !.pc = "record",
                                 !.seen[s.package] = [release |-> s.release, binaries |-> {}]])
    /\ UNCHANGED <<record, bin, mishaps>>

MayClaim(pins, p, binaries) == binaries # {} /\ ~Conflicts(pins, p, binaries)

\* Mutant of Claimed: the record is written before the links are rebuilt.
ClaimedRecordFirst(s, binaries) ==
    [s EXCEPT !.pc = "record", !.seen[s.package] = [release |-> s.release, binaries |-> binaries]]

Claimed(s, binaries) ==
    [s EXCEPT !.pc = "link", !.seen[s.package] = [release |-> s.release, binaries |-> binaries]]

ClaimTool(c) ==
    LET s == cmd[c] IN
    /\ At(c, "claim")
    /\ Becomes(c, IF MayClaim(s.seen, s.package, Found(s.package))
                  THEN Claimed(s, Found(s.package))
                  ELSE Goto(s, "unclaim"))
    /\ UNCHANGED <<record, tree, bin, mishaps>>

\* A tool that was refused is taken back out.
Unclaim(c) ==
    /\ At(c, "unclaim")
    /\ tree' = [tree EXCEPT ![cmd[c].package] = Nil]
    /\ Becomes(c, AfterFailure(cmd[c]))
    /\ UNCHANGED <<record, bin, mishaps>>

-----------------------------------------------------------------------------
(***************************************************************************)
(* The directory of links is rebuilt whole: every link is checked against  *)
(* the tree it names, the old directory moves away, the new one moves in.  *)
(***************************************************************************)
LinksResolve(pins) == \A q \in Tools : \A b \in pins[q].binaries : Has(q, b)

LinkBinaries(c) ==
    /\ At(c, "link")
    /\ LinksResolve(cmd[c].seen)
    /\ bin' = [b \in Binaries |-> Nil]
    /\ Becomes(c, Goto(cmd[c], "swap"))
    /\ UNCHANGED <<record, tree, mishaps>>

LinkIsRefused(c) ==
    /\ At(c, "link")
    /\ ~LinksResolve(cmd[c].seen)
    /\ Becomes(c, AfterFailure(cmd[c]))
    /\ UNCHANGED <<record, tree, bin, mishaps>>

SwapLinks(c) ==
    /\ At(c, "swap")
    /\ bin' = Links(cmd[c].seen)
    /\ Becomes(c, IF cmd[c].op = "reset" THEN Idle ELSE Goto(cmd[c], "record"))
    /\ UNCHANGED <<record, tree, mishaps>>

\* The record is replaced whole, from memory.
WriteRecord(c) ==
    LET s == cmd[c] IN
    /\ At(c, "record")
    /\ record' = [p \in Packages |-> IF p \in Kin(s.package) THEN s.seen[p] ELSE record[p]]
    /\ Becomes(c, IF s.op = "remove" THEN Goto(s, "remove") ELSE Through(s))
    /\ UNCHANGED <<tree, bin, mishaps>>

RemovePackage(c) ==
    /\ At(c, "remove")
    /\ tree' = [tree EXCEPT ![cmd[c].package] = Nil]
    /\ Becomes(c, Idle)
    /\ UNCHANGED <<record, bin, mishaps>>

-----------------------------------------------------------------------------
(***************************************************************************)
(* Reset: the records are emptied before the trees they name.              *)
(***************************************************************************)
Clears(packages) == record' = [p \in Packages |-> IF p \in packages THEN Absent ELSE record[p]]

ClearExtensions(c) ==
    /\ At(c, "clear extensions")
    /\ Clears(Extensions)
    /\ Becomes(c, Goto(cmd[c], "clear tools"))
    /\ UNCHANGED <<tree, bin, mishaps>>

ClearTools(c) ==
    /\ At(c, "clear tools")
    /\ Clears(Tools)
    /\ Becomes(c, Goto(cmd[c], "empty"))
    /\ UNCHANGED <<tree, bin, mishaps>>

EmptyProfile(c) ==
    /\ At(c, "empty")
    /\ tree' = [p \in Packages |-> Nil]
    /\ bin' = [b \in Binaries |-> Nil]
    /\ Becomes(c, Goto(cmd[c], "link"))
    /\ UNCHANGED <<record, mishaps>>

-----------------------------------------------------------------------------
(***************************************************************************)
(* Mishaps.                                                                *)
(***************************************************************************)
\* A step reports an error with nothing done.  A tree that has moved away is
\* dropped with the one that did not move in.
StepFails(c) ==
    /\ ~At(c, "idle")
    /\ At(c, "next") => cmd[c].op = "update"
    /\ Mishap("fail")
    /\ Becomes(c, AfterFailure(cmd[c]))
    /\ UNCHANGED <<record, tree, bin>>

Killed(c) ==
    /\ ~At(c, "idle")
    /\ Mishap("kill")
    /\ Becomes(c, Idle)
    /\ UNCHANGED <<record, tree, bin>>

-----------------------------------------------------------------------------
Begins(c) ==
    \/ BeginInstall(c) \/ BeginUpdate(c) \/ BeginRestore(c) \/ BeginRemove(c) \/ BeginReset(c)

Proceeds(c) ==
    \/ NextUpdate(c) \/ NextRestore(c) \/ ListIsDone(c) \/ ReadTools(c)
    \/ FetchPackage(c) \/ PlaceTree(c) \/ ClaimTool(c) \/ Unclaim(c)
    \/ LinkBinaries(c) \/ LinkIsRefused(c) \/ SwapLinks(c)
    \/ WriteRecord(c) \/ RemovePackage(c)
    \/ ClearExtensions(c) \/ ClearTools(c) \/ EmptyProfile(c)

Next == \E c \in Processes : Begins(c) \/ Proceeds(c) \/ StepFails(c) \/ Killed(c)

Spec == Init /\ [][Next]_vars

\* A command under way goes on, and the user keeps asking for a reset.
FairSpec ==
    /\ Spec
    /\ \A c \in Processes : WF_vars(Proceeds(c)) /\ SF_vars(BeginReset(c))

-----------------------------------------------------------------------------
(***************************************************************************)
(* Properties.                                                             *)
(***************************************************************************)
TypeOK ==
    /\ record \in PinsOf(Packages)
    /\ tree \in [Packages -> ReleaseOrNil]
    /\ bin \in [Binaries -> Tools \cup {Nil}]
    /\ cmd \in [Processes -> Process]
    /\ mishaps \in Nat

\* No two recorded tools claim one command, however installs, removals and
\* restores interleave: each writes a record it checked, if a stale one.
NoCommandClaimedTwice ==
    \A p, q \in Tools : p # q => record[p].binaries \cap record[q].binaries = {}

\* A command on a run's PATH never runs another tool than the one recorded as
\* its holder, wherever an install, a removal or a reset was cut.
CommandsMeanOneTool ==
    \A b \in Binaries, q \in Tools :
        (bin[b] # Nil /\ b \in record[q].binaries) => bin[b] = q

\* A tree has moved out of the way of the release of p that is about to move in.
Replacing(c, p) == At(c, "place") /\ cmd[c].package = p

\* What the record names is there, or is being replaced.
ThereOrReplaced(p) ==
    Installed(record, p) => (tree[p] # Nil \/ \E c \in Processes : Replacing(c, p))

\* No extension the record names loses its tree, and none is recorded that has no
\* tree: runs that start would be told to load it.  The one way there is a replacement
\* that fails or dies between the two renames that make it.
PinnedTreesStay ==
    [][\A p \in Extensions :
         (ThereOrReplaced(p) /\ ~ThereOrReplaced(p)')
         => mishaps' > mishaps /\ \E c \in Processes : Replacing(c, p)]_vars

\* The tree of a package p that is recorded goes only to make room for another
\* release of it.
KeptUnlessReplaced(p) ==
    (Installed(record, p) /\ tree[p] # Nil /\ tree'[p] = Nil)
    => \E c \in Processes : At(c, "fetch") /\ cmd[c].package = p

\* No tool the record still names, and a link still points at, goes but to make room
\* for another release of it.
ToolTreesStay == [][\A p \in Tools : KeptUnlessReplaced(p)]_vars

\* A restore only adds: what is recorded, and the tree of it, stay as they are.
RestoreOnlyAdds ==
    [][\A p \in Packages :
         (Installed(record, p) /\ <<record[p], tree[p]>>' # <<record[p], tree[p]>>)
         => \E c \in Processes : cmd[c].op \notin {Nil, "restore extensions", "restore tools"}]_vars

\* A reset is the way out of every state: asked for again and again, it leaves
\* nothing, even of a profile whose record cannot be read or names what is gone.
ResetEmpties ==
    []<>(record = Nothing /\ \A p \in Packages : tree[p] = Nil /\ \A b \in Binaries : bin[b] = Nil)
==============================================================================
