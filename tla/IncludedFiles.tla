---------------------------- MODULE IncludedFiles ----------------------------
(***************************************************************************)
(* The files the user includes: what Git does not carry into a run, chosen *)
(* by name, archived on the Mac, put into the workspace, and copied back   *)
(* with what the run made of them.  The user's editor is open all along,   *)
(* and a copy-back can fail or be killed between two files and be repeated.*)
(*                                                                         *)
(* A path is a number, in the order the code sorts them; a root is a name  *)
(* the user may include, a file or a directory, with the paths under it.   *)
(* What a path holds is a regular file's content or a link, or else it is  *)
(* absent, special (a directory, a socket), or blocked: something that is  *)
(* not a directory stands where a directory above it was.  A file's mode   *)
(* is not among what copy-back compares, and is left out.                  *)
(***************************************************************************)
EXTENDS Integers, FiniteSetsExt

CONSTANTS
    Paths,          \* the paths, numbers
    Dirs, Names,    \* the roots a user may name: directories, and single files
    Under(_),       \* the paths under a root
    Secret,         \* paths whose names look like credentials
    Files, Size,    \* contents of regular files, and how long each is
    Links, Leaving, \* links, and those that lead out of the repository
    MaxFiles,       \* maxArchiveFiles
    MaxBytes,       \* maxArchiveBytes
    MaxFileBytes,   \* maxArchiveFileBytes
    Initially,      \* bound: what the paths hold at first, where anything
    MaxEdits,       \* bound: what the user does to a path
    MaxTurns,       \* bound: what the agent does to a path
    MaxMishaps      \* bound: failures and kills of copy-backs

ASSUME PathsAssumption == Paths \subseteq Nat
ASSUME RootsAssumption == \A r \in Dirs \cup Names : Under(r) \subseteq Paths
ASSUME ContentsAssumption == /\ Size \in [Files -> Nat] /\ Leaving \subseteq Links
                             /\ Initially \subseteq Files \cup Links
                             /\ {"absent", "special", "blocked"} \cap (Files \cup Links) = {}
ASSUME LimitsAssumption == {MaxFiles, MaxBytes, MaxFileBytes} \subseteq Nat
ASSUME IncludedBoundsAssumption == {MaxEdits, MaxTurns, MaxMishaps} \subseteq Nat

VARIABLES
    pc,         \* what is under way
    host,       \* what the source working tree holds at each path ...
    tracked,    \* ... and the paths its repository tracks
    listed,     \* ListExcludedInputs: files, and directories excluded whole
    roots,      \* the snapshot's IncludeRoots ...
    inputs,     \* ... and its Inputs: what each path held when it was selected
    bundled,    \* what the stage's history carries for each path
    archive,    \* what the archive carries for each path
    run,        \* what the workspace holds at each path ...
    committed,  \* ... and the paths the run tracks
    outputs,    \* what the run handed back
    todo,       \* the paths still to archive, or to write
    forced,     \* those of them an overriding copy-back writes, last of all
    before,     \* history: what the tree held when it was first copied back to
    edited,     \* history: the paths the user edited since then ...
    raced,      \* history: ... and since this copy-back was planned
    spent       \* the edits, turns and mishaps so far

source == <<host, tracked>>
stage == <<listed, roots, inputs, bundled, archive>>
workspace == <<run, committed>>
plan == <<todo, forced>>
history == <<before, edited, raced>>
vars == <<pc, source, stage, workspace, outputs, plan, history, spent>>

Roots == Dirs \cup Names
Contents == Files \cup Links
Held == Contents \cup {"absent", "special", "blocked"}
Nothing == [p \in Paths |-> "absent"]

NothingListed == [files |-> {}, whole |-> {}]

There(tree) == {p \in Paths : tree[p] \in Contents \cup {"special"}}
UnderAny(names) == UNION {Under(r) : r \in names}

\* Paths are taken in the order of their names, the overridden ones after the rest.
Foremost(p) ==
    /\ p \in todo
    /\ \A q \in todo : \/ p \notin forced /\ q \in forced
                       \/ (p \in forced <=> q \in forced) /\ p <= q

Init ==
    /\ pc = "idle"
    /\ host \in [Paths -> Initially \cup {"absent"}]
    /\ tracked \in SUBSET There(host)
    /\ listed = NothingListed
    /\ roots = {} /\ inputs = Nothing
    /\ bundled = Nothing /\ archive = Nothing
    /\ run = Nothing /\ committed = {}
    /\ outputs = Nothing
    /\ todo = {} /\ forced = {}
    /\ before = <<>> /\ edited = {} /\ raced = {}
    /\ spent = [edits |-> 0, turns |-> 0, mishaps |-> 0]

-----------------------------------------------------------------------------
(***************************************************************************)
(* Selection.                                                              *)
(***************************************************************************)
\* A directory without a tracked file stands for what is under it, be it empty.
ListExcludedInputs ==
    /\ pc = "idle"
    /\ listed' = LET whole == {d \in Dirs : Under(d) \cap tracked = {}} IN
                 [files |-> (There(host) \ tracked) \ UnderAny(whole), whole |-> whole]
    /\ pc' = "listed"
    /\ UNCHANGED <<source, roots, inputs, bundled, archive, workspace, outputs, plan, history, spent>>

\* Under a directory listed whole the files are read from the disk, elsewhere
\* from the listing.
Inside(r) == \E d \in listed.whole : Under(r) \subseteq Under(d)
Matches(r) == IF Inside(r) THEN Under(r) \cap There(host) ELSE Under(r) \cap listed.files

\* An excluded directory with nothing in it is covered, an absent file is not.
Covered(r) == Matches(r) # {} \/ (r \in Dirs /\ Inside(r))

Bytes(tree, paths) ==
    MapThenSumSet(LAMBDA p : IF tree[p] \in Files THEN Size[tree[p]] ELSE 0, paths)

\* describeFiles takes regular files within the limits and links that stay inside.
Describable(tree, paths) ==
    /\ Cardinality(paths) <= MaxFiles
    /\ \A p \in paths :
         /\ tree[p] \in Contents \ Leaving
         /\ tree[p] \in Files => Size[tree[p]] <= MaxFileBytes
    /\ Bytes(tree, paths) <= MaxBytes

\* walkInput reads everything under a root; what it cannot inspect is an error.
Readable(tree, names) == \A p \in UnderAny(names) : tree[p] # "blocked"

Admits(include, unsafe) ==
    /\ \A r \in include \cup unsafe : Covered(r)
    /\ \A r \in include : Matches(r) \cap Secret = {}
    /\ Readable(host, include \cup unsafe)
    /\ Describable(host, UNION {Matches(r) : r \in include \cup unsafe})

Select(include, unsafe) ==
    /\ pc = "listed"
    /\ Admits(include, unsafe)
    /\ LET chosen == UNION {Matches(r) : r \in include \cup unsafe} IN
       inputs' = [p \in Paths |-> IF p \in chosen THEN host[p] ELSE "absent"]
    /\ roots' = include \cup unsafe
    /\ listed' = NothingListed
    /\ pc' = "selected"
    /\ UNCHANGED <<source, bundled, archive, workspace, outputs, plan, history, spent>>

SelectRefuses(include, unsafe) ==
    /\ pc = "listed"
    /\ ~Admits(include, unsafe)
    /\ pc' = "refused"
    /\ UNCHANGED <<source, stage, workspace, outputs, plan, history, spent>>

-----------------------------------------------------------------------------
(***************************************************************************)
(* Prepare's archive, and Materialize.                                     *)
(***************************************************************************)
Carried == {p \in Paths : inputs[p] # "absent"}
Bundled == {p \in Paths : bundled[p] # "absent"}

\* What the repository tracks crosses as history, before the archive is written.
Prepare ==
    /\ pc = "selected"
    /\ bundled' = [p \in Paths |-> IF p \in tracked /\ host[p] \in Contents THEN host[p]
                                ELSE "absent"]
    /\ todo' = Carried
    /\ pc' = "archiving"
    /\ UNCHANGED <<source, listed, roots, inputs, archive, workspace, outputs, forced, history, spent>>

\* copyInputContent opens what is there now and takes as many bytes as the
\* selected file had: of a longer file the first, and of a link's target.
Copied(p) ==
    IF inputs[p] \in Links THEN {inputs[p]}
    ELSE IF host[p] \in Files /\ Size[host[p]] = Size[inputs[p]] THEN {host[p]}
    ELSE IF host[p] \in Links \/ (host[p] \in Files /\ Size[host[p]] > Size[inputs[p]])
    THEN {c \in Files : Size[c] = Size[inputs[p]]}
    ELSE {}

ArchiveInput(p) ==
    /\ pc = "archiving" /\ Foremost(p)
    /\ \E c \in Copied(p) : archive' = [archive EXCEPT ![p] = c]
    /\ todo' = todo \ {p}
    /\ UNCHANGED <<pc, source, listed, roots, inputs, bundled, workspace, outputs, forced, history,
                   spent>>

ArchiveRefuses(p) ==
    /\ pc = "archiving" /\ Foremost(p)
    /\ Copied(p) = {} \/ (inputs[p] \in Files /\ host[p] \in Links)
    /\ pc' = "refused"
    /\ UNCHANGED <<source, stage, workspace, outputs, plan, history, spent>>

\* Inputs land beside the history, and never over a path it holds.
Materialize ==
    /\ pc = "archiving" /\ todo = {}
    /\ Carried \cap Bundled = {}
    /\ run' = [p \in Paths |-> IF p \in Bundled THEN bundled[p] ELSE archive[p]]
    /\ committed' = Bundled
    /\ bundled' = Nothing
    /\ pc' = "working"
    /\ UNCHANGED <<source, listed, roots, inputs, archive, outputs, plan, history, spent>>

MaterializeRefuses ==
    /\ pc = "archiving" /\ todo = {}
    /\ Carried \cap Bundled # {}
    /\ pc' = "refused"
    /\ UNCHANGED <<source, stage, workspace, outputs, plan, history, spent>>

-----------------------------------------------------------------------------
(***************************************************************************)
(* The agent, and the capture of what it leaves.                           *)
(***************************************************************************)
Turns ==
    /\ pc = "working"
    /\ spent.turns < MaxTurns
    /\ spent' = [spent EXCEPT !.turns = @ + 1]

AgentWrites(p) ==
    /\ Turns
    /\ \E c \in Contents \cup {"absent", "special"} : c # run[p] /\ run' = [run EXCEPT ![p] = c]
    /\ committed' = IF run'[p] \in Contents THEN committed ELSE committed \ {p}
    /\ UNCHANGED <<pc, source, stage, outputs, plan, history>>

AgentTracks(p) ==
    /\ Turns
    /\ run[p] \in Contents
    /\ committed' = IF p \in committed THEN committed \ {p} ELSE committed \cup {p}
    /\ UNCHANGED <<pc, source, stage, run, outputs, plan, history>>

\* Everything under the roots that the run does not track.
Returning == (UnderAny(roots) \cap There(run)) \ committed

CaptureIncludedOutputs ==
    /\ pc = "working"
    /\ Describable(run, Returning)
    /\ outputs' = [p \in Paths |-> IF p \in Returning THEN run[p] ELSE "absent"]
    /\ pc' = IF Returning = {} THEN "done" ELSE "returned"
    /\ UNCHANGED <<source, stage, workspace, plan, history, spent>>

CaptureRefuses ==
    /\ pc = "working"
    /\ ~Describable(run, Returning)
    /\ pc' = "refused"
    /\ UNCHANGED <<source, stage, workspace, outputs, plan, history, spent>>

-----------------------------------------------------------------------------
(***************************************************************************)
(* CopyBack: decided for every path, then written one path at a time.      *)
(***************************************************************************)
Returned == {p \in Paths : outputs[p] # "absent"}

\* Mutant of UntouchedHere: a path that was carried in is the run's to write.
UntouchedHereUnchecked(p) == host[p] \in Contents /\ inputs[p] # "absent"

UntouchedHere(p) == host[p] \in Contents /\ host[p] = inputs[p]

\* Mutant of UnchangedByRun: what differs from the Mac's version is a conflict.
UnchangedByRunIgnored(p) == FALSE

UnchangedByRun(p) == host[p] \in Contents /\ outputs[p] = inputs[p]

Writes == {p \in Returned :
             \/ host[p] = "absent"
             \/ host[p] # outputs[p] /\ UntouchedHere(p)}
Conflicts == {p \in Returned \ Writes :
                host[p] # outputs[p] /\ ~UnchangedByRun(p)}

\* A refusal, of a conflict or of what cannot be inspected, changes nothing.
CopyBack(force) ==
    /\ pc = "returned"
    /\ \A p \in Returned : host[p] # "blocked"
    /\ force \/ Conflicts = {}
    /\ forced' = IF force THEN Conflicts ELSE {}
    /\ todo' = Writes \cup forced'
    /\ before' = IF before = <<>> THEN <<host>> ELSE before
    /\ raced' = {}
    /\ pc' = "placing"
    /\ UNCHANGED <<source, stage, workspace, outputs, edited, spent>>

Placing(p) == pc = "placing" /\ Foremost(p)
Wrote(p, held) ==
    /\ host' = [host EXCEPT ![p] = held]
    /\ UNCHANGED <<tracked, stage, workspace, outputs, forced, history, spent>>

\* safefile.Replace renames over a file, a link or a socket, not over a directory.
PlaceFile(p) ==
    /\ Placing(p)
    /\ outputs[p] \in Files /\ host[p] # "blocked"
    /\ Wrote(p, outputs[p])
    /\ todo' = todo \ {p} /\ UNCHANGED pc

\* Mutant of RemoveForLink: what stands there is left to the symlink call.
KeepForLink(p) ==
    /\ Placing(p)
    /\ outputs[p] \in Links /\ host[p] # "blocked"
    /\ Wrote(p, host[p])
    /\ pc' = "linking" /\ UNCHANGED todo

\* A link is made anew where the old path was removed.
RemoveForLink(p) ==
    /\ Placing(p)
    /\ outputs[p] \in Links /\ host[p] # "blocked"
    /\ Wrote(p, "absent")
    /\ pc' = "linking" /\ UNCHANGED todo

PlaceLink(p) ==
    /\ pc = "linking" /\ Foremost(p)
    /\ host[p] = "absent"
    /\ Wrote(p, outputs[p])
    /\ pc' = "placing" /\ todo' = todo \ {p}

CopyEnds ==
    /\ pc' = "returned" /\ todo' = {}
    /\ UNCHANGED <<source, stage, workspace, outputs, forced, history>>

\* The error of one file ends the copy: what was written stays.
PlaceFails(p) ==
    /\ Foremost(p)
    /\ \/ pc = "placing" /\ host[p] \in {"special", "blocked"}
       \/ pc = "linking" /\ host[p] # "absent"
    /\ UNCHANGED spent
    /\ CopyEnds

\* A full disk, a killed command, a record that cannot be written at the end.
CopyIsCut ==
    /\ pc \in {"placing", "linking"}
    /\ spent.mishaps < MaxMishaps
    /\ spent' = [spent EXCEPT !.mishaps = @ + 1]
    /\ CopyEnds

ClearReturned ==
    /\ pc = "placing" /\ todo = {}
    /\ pc' = "done"
    /\ UNCHANGED <<source, stage, workspace, outputs, plan, history, spent>>

-----------------------------------------------------------------------------
(***************************************************************************)
(* The user's editor.                                                      *)
(***************************************************************************)
\* While the run works nothing reads the Mac: an edit then is one made before the
\* copy-back.
Edits ==
    /\ pc \in {"listed", "selected", "archiving", "returned", "placing", "linking"}
    /\ spent.edits < MaxEdits
    /\ spent' = [spent EXCEPT !.edits = @ + 1]

UserWrites(p) ==
    /\ Edits
    /\ \E c \in Held : c # host[p] /\ host' = [host EXCEPT ![p] = c]
    /\ edited' = IF before = <<>> THEN edited ELSE edited \cup {p}
    /\ raced' = raced \cup {p}
    /\ UNCHANGED <<pc, tracked, stage, workspace, outputs, plan, before>>

UserTracks(p) ==
    /\ Edits
    /\ pc \in {"listed", "selected"}
    /\ host[p] \in Contents /\ p \notin tracked
    /\ tracked' = tracked \cup {p}
    /\ UNCHANGED <<pc, host, stage, workspace, outputs, plan, history>>

-----------------------------------------------------------------------------
Written ==
    \/ \E p \in Paths : PlaceFile(p) \/ RemoveForLink(p) \/ PlaceLink(p) \/ PlaceFails(p)
    \/ ClearReturned

Next ==
    \/ ListExcludedInputs
    \/ \E include, unsafe \in SUBSET Roots : Select(include, unsafe) \/ SelectRefuses(include, unsafe)
    \/ Prepare \/ Materialize \/ MaterializeRefuses
    \/ \E p \in Paths : ArchiveInput(p) \/ ArchiveRefuses(p)
    \/ CaptureIncludedOutputs \/ CaptureRefuses
    \/ \E force \in BOOLEAN : CopyBack(force)
    \/ Written \/ CopyIsCut
    \/ \E p \in Paths : AgentWrites(p) \/ AgentTracks(p) \/ UserWrites(p) \/ UserTracks(p)

Spec == Init /\ [][Next]_vars

\* A copy that has begun goes on; the user asks again, without forcing anything.
FairSpec == Spec /\ WF_vars(Written) /\ SF_vars(CopyBack(FALSE))

-----------------------------------------------------------------------------
(***************************************************************************)
(* Properties.                                                             *)
(***************************************************************************)
TypeOK ==
    /\ pc \in {"idle", "listed", "selected", "archiving", "working", "returned",
               "placing", "linking", "done", "refused"}
    /\ host \in [Paths -> Held] /\ tracked \subseteq Paths
    /\ listed \in [files : SUBSET Paths, whole : SUBSET Dirs]
    /\ roots \subseteq Roots /\ committed \subseteq Paths
    /\ {inputs, bundled, archive, outputs} \subseteq [Paths -> Contents \cup {"absent"}]
    /\ run \in [Paths -> Contents \cup {"absent", "special"}]
    /\ {todo, forced, edited, raced} \subseteq SUBSET Paths

\* What a copy-back replaces on the Mac is what the path held when it was included,
\* unless the user overrode that very conflict, or edited the path after this
\* copy-back had looked at it: whatever an earlier copy-back left half done.
KeepsTheMacsWork ==
    [][\A p \in Paths :
         (host'[p] # host[p] /\ spent'.edits = spent.edits) =>
             host[p] \in {"absent", inputs[p]} \/ p \in forced \cup raced]_vars

\* A copy-back that ends, however many attempts it took, leaves each path the user
\* did not edit meanwhile as one undisturbed copy would have: the run's version of
\* what the run changed or the Mac has no file for, and the Mac's of everything else.
CompletesToMerge ==
    (pc = "done" /\ before # <<>>) =>
        \A p \in Paths \ edited :
            host[p] = IF p \in Returned /\ (before[1][p] \notin Contents \/ outputs[p] # inputs[p])
                      THEN outputs[p] ELSE before[1][p]

\* Asking again finishes the copy, or a path is in its way for a reason of the
\* user's: changed on both sides, or no longer something a file can replace.
HeldBack ==
    \E p \in Returned :
        \/ host[p] \in {"special", "blocked"}
        \/ host[p] \notin {"absent", inputs[p], outputs[p]} /\ outputs[p] # inputs[p]

CopyConverges == (pc = "returned") ~> (pc = "done" \/ HeldBack)
==============================================================================
