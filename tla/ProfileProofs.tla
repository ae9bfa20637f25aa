---------------------------- MODULE ProfileProofs ----------------------------
(***************************************************************************)
(* Theorems about Profile, for any packages, releases and commands, and    *)
(* any mishaps.  The first two hold of any number of processes interleaved *)
(* in any way; the others of any number of commands one after the other.   *)
(***************************************************************************)
EXTENDS Profile, TLAPS

(***************************************************************************)
(* The type invariant, with what it needs to be inductive: a process that  *)
(* is about to put a tree in place knows of which package and release.     *)
(***************************************************************************)
Formed(s) ==
    /\ s \in Process
    /\ s.pc \in {"fetch", "place"} => s.package \in Packages /\ s.release \in Releases
    /\ s.pc = "claim" => s.package \in Tools /\ s.release \in Releases

Typed == TypeOK /\ \A c \in Processes : Formed(cmd[c])

CmdTyped == cmd \in [Processes -> Process] /\ \A c \in Processes : Formed(cmd[c])

LEMMA CmdOf ==
    ASSUME Typed, NEW c \in Processes
    PROVE  cmd[c] \in Process /\ Formed(cmd[c])
  BY DEF Typed, TypeOK

LEMMA BecomesTyped ==
    ASSUME Typed, NEW c \in Processes, NEW s, Formed(s), Becomes(c, s)
    PROVE  CmdTyped'
  BY DEF Typed, CmdTyped, TypeOK, Formed, Becomes

LEMMA PinsType ==
    /\ Nothing \in PinsOf(Packages)
    /\ \A pins \in PinsOf(Packages) :
         pins \in [Packages -> Pin \cup {Absent}]
  BY DEF Nothing, PinsOf, Absent, Packages

\* A record stays one when a package is taken out, or put in with a command or
\* as an extension.
LEMMA TakenOutType ==
    ASSUME NEW pins \in PinsOf(Packages), NEW p
    PROVE  [pins EXCEPT ![p] = Absent] \in PinsOf(Packages)
  BY DEF PinsOf, Packages

LEMMA PutInType ==
    ASSUME NEW pins \in PinsOf(Packages), NEW p, NEW pin \in Pin,
           p \in Tools => pin.binaries # {}
    PROVE  [pins EXCEPT ![p] = pin] \in PinsOf(Packages)
  BY DEF PinsOf, Packages

LEMMA MixedType ==
    ASSUME NEW pins \in PinsOf(Packages), NEW others \in PinsOf(Packages), NEW packages
    PROVE  [p \in Packages |-> IF p \in packages THEN pins[p] ELSE others[p]] \in PinsOf(Packages)
  BY DEF PinsOf, Packages

LEMMA IdleFormed == Formed(Idle)
  BY PinsType DEF Formed, Idle, Process, Nil, ReleaseOrNil

\* What the helpers of an action return is a process.
LEMMA GotoFormed ==
    ASSUME NEW s \in Process, NEW pc \in Step \ {"fetch", "place", "claim"}
    PROVE  Formed(Goto(s, pc))
  BY DEF Formed, Goto, Process, Step

LEMMA FetchingFormed ==
    ASSUME NEW s \in Process, NEW p \in Packages, NEW v \in Releases
    PROVE  Formed(Fetching(s, p, v))
  BY DEF Formed, Fetching, Process, Step, ReleaseOrNil

LEMMA ThroughFormed ==
    ASSUME NEW s \in Process
    PROVE  Formed(Through(s))
  <1>1. Formed([s EXCEPT !.pc = "next", !.todo = @ \ {s.package}])
    BY DEF Formed, Process, Step
  <1> QED
    BY <1>1, IdleFormed DEF Through

LEMMA AfterFailureFormed ==
    ASSUME NEW s \in Process
    PROVE  Formed(AfterFailure(s))
  <1>1. Formed(Goto(s, "unclaim")) /\ Formed(Goto(s, "read tools"))
    BY GotoFormed DEF Step
  <1> QED
    BY <1>1, ThroughFormed, IdleFormed DEF AfterFailure

LEMMA ReadingType ==
    ASSUME Typed, NEW op \in Op
    PROVE  /\ Reading(op) \in Process
           /\ Reading(op).seen = record
           /\ Reading(op).pc = "idle"
  <1>1. Idle \in Process /\ Idle.pc = "idle"
    BY IdleFormed DEF Formed, Idle
  <1>2. [Idle EXCEPT !.op = op, !.seen = record] \in Process
    BY <1>1 DEF Typed, TypeOK, Process
  <1> QED
    BY <1>1, <1>2 DEF Reading, Process

LEMMA LinksType ==
    ASSUME NEW pins
    PROVE  Links(pins) \in [Binaries -> Tools \cup {Nil}]
  BY DEF Links

LEMMA InitTyped == Init => Typed
  BY PinsType, IdleFormed DEF Init, Typed, TypeOK, Formed, ReleaseOrNil

LEMMA BeginsTyped ==
    ASSUME Typed, NEW c \in Processes, Begins(c)
    PROVE  Typed'
  <1>1. CASE BeginInstall(c)
    <2>1. PICK p \in Packages, v \in Releases : Becomes(c, Fetching(Reading("install"), p, v))
      BY <1>1 DEF BeginInstall
    <2>2. Formed(Fetching(Reading("install"), p, v))
      BY ReadingType, FetchingFormed DEF Op
    <2> QED
      BY <1>1, <2>1, <2>2, BecomesTyped DEF BeginInstall, Typed, CmdTyped, TypeOK
  <1>2. CASE BeginUpdate(c)
    <2>1. PICK names \in SUBSET Extensions :
            Becomes(c, [Reading("update") EXCEPT !.pc = "next", !.todo = names])
      BY <1>2 DEF BeginUpdate
    <2>2. Formed([Reading("update") EXCEPT !.pc = "next", !.todo = names])
      BY ReadingType DEF Op, Formed, Process, Step, Packages
    <2> QED
      BY <1>2, <2>1, <2>2, BecomesTyped DEF BeginUpdate, Typed, CmdTyped, TypeOK
  <1>3. CASE BeginRestore(c)
    <2>1. PICK held \in SUBSET Extensions :
            Becomes(c, [Reading("restore extensions") EXCEPT !.pc = "next", !.todo = held])
      BY <1>3 DEF BeginRestore
    <2>2. Formed([Reading("restore extensions") EXCEPT !.pc = "next", !.todo = held])
      BY ReadingType DEF Op, Formed, Process, Step, Packages
    <2> QED
      BY <1>3, <2>1, <2>2, BecomesTyped DEF BeginRestore, Typed, CmdTyped, TypeOK
  <1>4. CASE BeginRemove(c)
    <2> DEFINE s(p) == [Reading("remove") EXCEPT
                          !.package = p, !.seen[p] = Absent,
                          !.pc = IF p \in Tools THEN "link" ELSE "record"]
    <2>1. PICK p \in Packages : Becomes(c, s(p))
      BY <1>4 DEF BeginRemove
    <2>2. [record EXCEPT ![p] = Absent] \in PinsOf(Packages)
      BY TakenOutType DEF Typed, TypeOK
    <2>3. Formed(s(p))
      BY <2>2, ReadingType DEF Op, Formed, Process, Step
    <2> HIDE DEF s
    <2> QED
      BY <1>4, <2>1, <2>3, BecomesTyped DEF BeginRemove, Typed, CmdTyped, TypeOK
  <1>5. CASE BeginReset(c)
    <2>1. Formed([Idle EXCEPT !.op = "reset", !.pc = "clear extensions"])
      BY IdleFormed DEF Op, Formed, Process, Step
    <2> QED
      BY <1>5, <2>1, BecomesTyped DEF BeginReset, Typed, CmdTyped, TypeOK
  <1> QED
    BY <1>1, <1>2, <1>3, <1>4, <1>5 DEF Begins

\* The steps that only move the process, or the process and one package's tree.
LEMMA MovesTyped ==
    ASSUME Typed, NEW c \in Processes, NEW s, Formed(s), Becomes(c, s),
           UNCHANGED <<record, bin>>, mishaps' \in Nat,
           tree' \in [Packages -> ReleaseOrNil]
    PROVE  Typed'
  BY BecomesTyped DEF Typed, CmdTyped, TypeOK

LEMMA TreeType ==
    ASSUME Typed, NEW p, NEW v \in ReleaseOrNil, tree' = [tree EXCEPT ![p] = v]
    PROVE  tree' \in [Packages -> ReleaseOrNil]
  BY DEF Typed, TypeOK

LEMMA SteadyType ==
    ASSUME Typed
    PROVE  /\ UNCHANGED tree => tree' \in [Packages -> ReleaseOrNil]
           /\ UNCHANGED mishaps => mishaps' \in Nat
  BY DEF Typed, TypeOK

LEMMA ListsTyped ==
    ASSUME Typed, NEW c \in Processes,
           NextUpdate(c) \/ NextRestore(c) \/ ListIsDone(c) \/ ReadTools(c)
    PROVE  Typed'
  <1>1. cmd[c] \in Process
    BY CmdOf
  <1>2. \A p \in cmd[c].todo : p \in Packages
    BY <1>1 DEF Process
  <1>3. CASE NextUpdate(c)
    <2>1. PICK p \in cmd[c].todo :
            LET s == [cmd[c] EXCEPT !.package = p] IN
            IF ~Installed(s.seen, p) THEN Becomes(c, Idle)
            ELSE \E v \in Releases :
                   Becomes(c, IF v = s.seen[p].release THEN Through(s) ELSE Fetching(s, p, v))
      BY <1>3 DEF NextUpdate
    <2> DEFINE s == [cmd[c] EXCEPT !.package = p]
    <2>2. s \in Process
      BY <1>1, <1>2 DEF Process
    <2>3. PICK t : Becomes(c, t) /\ Formed(t)
      <3> HIDE DEF s
      <3> QED
        BY <1>2, <2>1, <2>2, IdleFormed, ThroughFormed, FetchingFormed DEF s
    <2> QED
      BY <1>3, <2>3, MovesTyped, SteadyType DEF NextUpdate
  <1>4. CASE NextRestore(c)
    <2>1. PICK p \in cmd[c].todo, v \in Releases :
            Becomes(c, IF Installed(cmd[c].seen, p)
                       THEN Through([cmd[c] EXCEPT !.package = p])
                       ELSE Fetching(cmd[c], p, v))
      BY <1>4 DEF NextRestore
    <2>2. [cmd[c] EXCEPT !.package = p] \in Process
      BY <1>1, <1>2 DEF Process
    <2>3. Formed(Through([cmd[c] EXCEPT !.package = p])) /\ Formed(Fetching(cmd[c], p, v))
      BY <1>1, <1>2, <2>2, ThroughFormed, FetchingFormed
    <2>4. CASE Installed(cmd[c].seen, p)
      BY <1>4, <2>1, <2>3, <2>4, MovesTyped, SteadyType DEF NextRestore
    <2>5. CASE ~Installed(cmd[c].seen, p)
      BY <1>4, <2>1, <2>3, <2>5, MovesTyped, SteadyType DEF NextRestore
    <2> QED
      BY <2>4, <2>5
  <1>5. CASE ListIsDone(c)
    <2>1. Formed(Goto(cmd[c], "read tools")) /\ Formed(Idle)
      BY <1>1, GotoFormed, IdleFormed DEF Step
    <2>2. PICK t : Becomes(c, t) /\ Formed(t)
      BY <1>5, <2>1 DEF ListIsDone
    <2> QED
      BY <1>5, <2>2, MovesTyped, SteadyType DEF ListIsDone
  <1>6. CASE ReadTools(c)
    <2>1. \A held \in SUBSET Tools :
            Formed([Reading("restore tools") EXCEPT !.pc = "next", !.todo = held])
      BY ReadingType DEF Op, Formed, Process, Step, Packages
    <2>2. PICK t : Becomes(c, t) /\ Formed(t)
      BY <1>6, <2>1, IdleFormed DEF ReadTools
    <2> QED
      BY <1>6, <2>2, MovesTyped, SteadyType DEF ReadTools
  <1> QED
    BY <1>3, <1>4, <1>5, <1>6

LEMMA InstallsTyped ==
    ASSUME Typed, NEW c \in Processes,
           FetchPackage(c) \/ PlaceTree(c) \/ ClaimTool(c) \/ Unclaim(c)
    PROVE  Typed'
  <1> DEFINE s == cmd[c]
  <1>1. s \in Process /\ Formed(s) /\ Nil \in ReleaseOrNil
    BY CmdOf DEF ReleaseOrNil
  <1>2. CASE FetchPackage(c)
    <2>1. Formed(Goto(s, "place"))
      BY <1>1, <1>2 DEF FetchPackage, At, Goto, Formed, Process, Step
    <2> QED
      BY <1>1, <1>2, <2>1, TreeType, MovesTyped, SteadyType DEF FetchPackage
  <1>3. CASE PlaceTree(c)
    <2>1. s.package \in Packages /\ s.release \in Releases
      BY <1>1, <1>3 DEF PlaceTree, At, Formed
    <2>2. tree' \in [Packages -> ReleaseOrNil]
      BY <1>3, <2>1, TreeType DEF PlaceTree, ReleaseOrNil
    <2>3. CASE s.package \in Tools
      <3>1. Formed(Goto(s, "claim"))
        BY <1>1, <2>1, <2>3 DEF Goto, Formed, Process, Step
      <3> QED
        BY <1>3, <2>2, <2>3, <3>1, MovesTyped, SteadyType DEF PlaceTree
    <2>4. CASE s.package \notin Tools
      <3>1. [s.seen EXCEPT ![s.package] = [release |-> s.release, binaries |-> {}]]
              \in PinsOf(Packages)
        BY <1>1, <2>1, <2>4, PutInType DEF Process, Pin
      <3>2. Formed([s EXCEPT !.pc = "record",
                             !.seen[s.package] = [release |-> s.release, binaries |-> {}]])
        BY <1>1, <3>1 DEF Formed, Process, Step
      <3> QED
        BY <1>3, <2>2, <2>4, <3>2, MovesTyped, SteadyType DEF PlaceTree
    <2> QED
      BY <2>3, <2>4
  <1>4. CASE ClaimTool(c)
    <2> DEFINE found == Found(s.package)
    <2>1. s.package \in Tools /\ s.release \in Releases /\ found \in SUBSET Binaries
      BY <1>1, <1>4 DEF ClaimTool, At, Formed, Found
    <2>2. CASE MayClaim(s.seen, s.package, found)
      <3>1. [s.seen EXCEPT ![s.package] = [release |-> s.release, binaries |-> found]]
              \in PinsOf(Packages)
        <4> HIDE DEF found
        <4> QED
          BY <1>1, <2>1, <2>2, PutInType DEF Process, Pin, MayClaim
      <3>2. Formed(Claimed(s, found))
        <4> HIDE DEF found
        <4> QED
          BY <1>1, <3>1 DEF Claimed, Formed, Process, Step
      <3> QED
        BY <1>4, <2>2, <3>2, MovesTyped, SteadyType DEF ClaimTool
    <2>3. CASE ~MayClaim(s.seen, s.package, found)
      <3>1. Formed(Goto(s, "unclaim"))
        BY <1>1, GotoFormed DEF Step
      <3> QED
        BY <1>4, <2>3, <3>1, MovesTyped, SteadyType DEF ClaimTool
    <2> QED
      BY <2>2, <2>3
  <1>5. CASE Unclaim(c)
    BY <1>1, <1>5, AfterFailureFormed, TreeType, MovesTyped, SteadyType DEF Unclaim
  <1> QED
    BY <1>2, <1>3, <1>4, <1>5

LEMMA LinksAndRecordsTyped ==
    ASSUME Typed, NEW c \in Processes,
           \/ LinkBinaries(c) \/ LinkIsRefused(c) \/ SwapLinks(c)
           \/ WriteRecord(c) \/ RemovePackage(c)
           \/ ClearExtensions(c) \/ ClearTools(c) \/ EmptyProfile(c)
    PROVE  Typed'
  <1> DEFINE s == cmd[c]
  <1>1. s \in Process /\ Nil \in ReleaseOrNil
    BY CmdOf DEF ReleaseOrNil
  <1>2. \A pc \in {"swap", "record", "remove", "clear tools", "empty", "link"} : Formed(Goto(s, pc))
    BY <1>1, GotoFormed DEF Step
  <1>3. Formed(Idle) /\ Formed(Through(s)) /\ Formed(AfterFailure(s))
    BY <1>1, IdleFormed, ThroughFormed, AfterFailureFormed
  <1>4. CASE LinkBinaries(c)
    BY <1>2, <1>4, BecomesTyped DEF LinkBinaries, Typed, CmdTyped, TypeOK
  <1>5. CASE LinkIsRefused(c)
    BY <1>3, <1>5, MovesTyped, SteadyType DEF LinkIsRefused
  <1>6. CASE SwapLinks(c)
    <2>1. PICK t : Becomes(c, t) /\ Formed(t)
      BY <1>2, <1>3, <1>6 DEF SwapLinks
    <2> QED
      BY <1>6, <2>1, BecomesTyped, LinksType DEF SwapLinks, Typed, CmdTyped, TypeOK
  <1>7. CASE WriteRecord(c)
    <2>1. PICK t : Becomes(c, t) /\ Formed(t)
      BY <1>2, <1>3, <1>7 DEF WriteRecord
    <2>2. s.seen \in PinsOf(Packages) /\ record \in PinsOf(Packages)
      BY <1>1 DEF Typed, TypeOK, Process
    <2>3. record' = [p \in Packages |-> IF p \in Kin(s.package) THEN s.seen[p] ELSE record[p]]
      BY <1>7 DEF WriteRecord
    <2>4. record' \in PinsOf(Packages)
      <3> HIDE DEF s
      <3> QED
        BY <2>2, <2>3, MixedType
    <2> QED
      BY <1>7, <2>1, <2>4, BecomesTyped DEF WriteRecord, Typed, CmdTyped, TypeOK
  <1>8. CASE RemovePackage(c)
    BY <1>1, <1>3, <1>8, TreeType, MovesTyped, SteadyType DEF RemovePackage
  <1>9. \A packages : Clears(packages) => record' \in PinsOf(Packages)
    <2> SUFFICES ASSUME NEW packages, Clears(packages)
                 PROVE  record' \in PinsOf(Packages)
      OBVIOUS
    <2>1. record' = [p \in Packages |-> IF p \in packages THEN Nothing[p] ELSE record[p]]
      BY DEF Clears, Nothing
    <2> QED
      BY <2>1, PinsType, MixedType DEF Typed, TypeOK
  <1>10. CASE ClearExtensions(c)
    BY <1>2, <1>9, <1>10, BecomesTyped DEF ClearExtensions, Typed, CmdTyped, TypeOK
  <1>11. CASE ClearTools(c)
    BY <1>2, <1>9, <1>11, BecomesTyped DEF ClearTools, Typed, CmdTyped, TypeOK
  <1>12. CASE EmptyProfile(c)
    BY <1>1, <1>2, <1>12, BecomesTyped DEF EmptyProfile, Typed, CmdTyped, TypeOK
  <1> QED
    BY <1>4, <1>5, <1>6, <1>7, <1>8, <1>10, <1>11, <1>12

LEMMA MishapsTyped ==
    ASSUME Typed, NEW c \in Processes, StepFails(c) \/ Killed(c)
    PROVE  Typed'
  <1>1. mishaps' \in Nat
    BY DEF StepFails, Killed, Mishap, Typed, TypeOK
  <1>2. PICK t : Becomes(c, t) /\ Formed(t)
    BY CmdOf, AfterFailureFormed, IdleFormed DEF StepFails, Killed
  <1> QED
    BY <1>1, <1>2, MovesTyped, SteadyType DEF StepFails, Killed

LEMMA NextTyped == Typed /\ [Next]_vars => Typed'
  <1> SUFFICES ASSUME Typed, [Next]_vars
               PROVE  Typed'
    OBVIOUS
  <1>1. CASE UNCHANGED vars
    BY <1>1 DEF vars, Typed, TypeOK, Formed
  <1>2. ASSUME NEW c \in Processes, Begins(c) \/ Proceeds(c) \/ StepFails(c) \/ Killed(c)
        PROVE  Typed'
    BY <1>2, BeginsTyped, ListsTyped, InstallsTyped, LinksAndRecordsTyped, MishapsTyped
       DEF Proceeds
  <1> QED
    BY <1>1, <1>2 DEF Next

\* Every variable of the profile keeps its type: in particular no recorded tool
\* is without a command, whatever its release turned out to provide.
THEOREM TypeCorrect == Spec => []TypeOK
  <1>1. Typed => TypeOK
    BY DEF Typed
  <1> QED
    BY <1>1, InitTyped, NextTyped, PTL DEF Spec

-----------------------------------------------------------------------------
(***************************************************************************)
(* No two recorded tools claim one command.  A record is written from      *)
(* memory, so the invariant is about what every process remembers too: it  *)
(* added to a record that was fair what was not in conflict with it.       *)
(***************************************************************************)
Fair(pins) ==
    \A p, q \in Tools : p # q => pins[p].binaries \cap pins[q].binaries = {}

FairClaims == Fair(record) /\ \A c \in Processes : Fair(cmd[c].seen)

LEMMA NothingFair == Fair(Nothing)
  BY DEF Fair, Nothing, Absent, Packages

LEMMA TakenOutFair ==
    ASSUME NEW pins \in PinsOf(Packages), Fair(pins), NEW p
    PROVE  Fair([pins EXCEPT ![p] = Absent])
  BY DEF Fair, PinsOf, Absent, Packages

LEMMA PutInFair ==
    ASSUME NEW pins \in PinsOf(Packages), Fair(pins), NEW p, NEW pin,
           p \in Tools => ~Conflicts(pins, p, pin.binaries)
    PROVE  Fair([pins EXCEPT ![p] = pin])
  BY DEF Fair, PinsOf, Packages, Conflicts

LEMMA MixedFair ==
    ASSUME NEW pins, Fair(pins), NEW others, Fair(others), NEW p
    PROVE  Fair([q \in Packages |-> IF q \in Kin(p) THEN pins[q] ELSE others[q]])
  <1>1. CASE p \in Tools
    BY <1>1 DEF Fair, Kin, Packages
  <1>2. CASE p \notin Tools
    <2>1. \A q \in Tools : q \notin Kin(p)
      BY <1>2, PackagesAssumption DEF Kin
    <2> QED
      BY <2>1 DEF Fair, Packages
  <1> QED
    BY <1>1, <1>2

\* What the helpers of an action leave in memory.
LEMMA SeenKept ==
    ASSUME NEW s \in Process
    PROVE  /\ \A pc : Goto(s, pc).seen = s.seen
           /\ \A p, v : Fetching(s, p, v).seen = s.seen
           /\ Idle.seen = Nothing
           /\ Through(s).seen \in {s.seen, Nothing}
           /\ AfterFailure(s).seen \in {s.seen, Nothing}
  <1>1. /\ \A pc : Goto(s, pc).seen = s.seen
        /\ \A p, v : Fetching(s, p, v).seen = s.seen
        /\ Idle.seen = Nothing
    BY DEF Goto, Fetching, Idle, Process
  <1>2. Through(s).seen \in {s.seen, Nothing}
    BY <1>1 DEF Through, Process
  <1>3. AfterFailure(s).seen \in {s.seen, Nothing}
    BY <1>1, <1>2 DEF AfterFailure
  <1> QED
    BY <1>1, <1>2, <1>3

LEMMA BecomesFair ==
    ASSUME Typed, FairClaims, NEW c \in Processes, NEW s, Fair(s.seen), Becomes(c, s),
           Fair(record')
    PROVE  FairClaims'
  BY DEF FairClaims, Fair, Becomes, Typed, TypeOK

LEMMA QuietFair ==
    ASSUME Typed, FairClaims, NEW c \in Processes, NEW s, Fair(s.seen), Becomes(c, s),
           UNCHANGED record
    PROVE  FairClaims'
  <1>1. Fair(record')
    BY DEF FairClaims
  <1> QED
    BY <1>1, BecomesFair

\* A step that writes no record, and leaves in memory the record as it was, the
\* one on disk, or none.
LEMMA StepFair ==
    ASSUME Typed, FairClaims, NEW c \in Processes, NEW u, Becomes(c, u),
           u.seen \in {cmd[c].seen, Nothing, record}, UNCHANGED record
    PROVE  FairClaims'
  <1>1. Fair(u.seen)
    BY NothingFair DEF FairClaims
  <1> QED
    BY <1>1, QuietFair

LEMMA BeginsFair ==
    ASSUME Typed, FairClaims, NEW c \in Processes, Begins(c)
    PROVE  FairClaims'
  <1>1. Fair(record) /\ Fair(Nothing) /\ record \in PinsOf(Packages)
    BY NothingFair DEF FairClaims, Typed, TypeOK
  <1>2. CASE BeginInstall(c)
    <2>1. PICK p \in Packages, v \in Releases : Becomes(c, Fetching(Reading("install"), p, v))
      BY <1>2 DEF BeginInstall
    <2>2. Reading("install") \in Process /\ Reading("install").seen = record
      BY ReadingType DEF Op
    <2>3. Fetching(Reading("install"), p, v).seen = record
      BY <2>2 DEF Fetching, Process
    <2> QED
      BY <1>1, <1>2, <2>1, <2>3, QuietFair DEF BeginInstall
  <1>3. CASE BeginUpdate(c)
    <2>1. PICK names : Becomes(c, [Reading("update") EXCEPT !.pc = "next", !.todo = names])
      BY <1>3 DEF BeginUpdate
    <2>2. [Reading("update") EXCEPT !.pc = "next", !.todo = names].seen = record
      BY ReadingType DEF Op, Process
    <2> QED
      BY <1>1, <1>3, <2>1, <2>2, QuietFair DEF BeginUpdate
  <1>4. CASE BeginRestore(c)
    <2>1. PICK held :
            Becomes(c, [Reading("restore extensions") EXCEPT !.pc = "next", !.todo = held])
      BY <1>4 DEF BeginRestore
    <2>2. [Reading("restore extensions") EXCEPT !.pc = "next", !.todo = held].seen = record
      BY ReadingType DEF Op, Process
    <2> QED
      BY <1>1, <1>4, <2>1, <2>2, QuietFair DEF BeginRestore
  <1>5. CASE BeginRemove(c)
    <2> DEFINE s(p) == [Reading("remove") EXCEPT
                          !.package = p, !.seen[p] = Absent,
                          !.pc = IF p \in Tools THEN "link" ELSE "record"]
    <2>1. PICK p : Becomes(c, s(p))
      BY <1>5 DEF BeginRemove
    <2>2. s(p).seen = [record EXCEPT ![p] = Absent]
      BY ReadingType DEF Op, Process
    <2>3. Fair(s(p).seen)
      BY <1>1, <2>2, TakenOutFair
    <2> HIDE DEF s
    <2> QED
      BY <1>5, <2>1, <2>3, QuietFair DEF BeginRemove
  <1>6. CASE BeginReset(c)
    <2>1. [Idle EXCEPT !.op = "reset", !.pc = "clear extensions"].seen = Nothing
      BY DEF Idle
    <2> QED
      BY <1>1, <1>6, <2>1, QuietFair DEF BeginReset
  <1> QED
    BY <1>2, <1>3, <1>4, <1>5, <1>6 DEF Begins

LEMMA ProceedsFair ==
    ASSUME Typed, FairClaims, NEW c \in Processes, Proceeds(c)
    PROVE  FairClaims'
  <1> DEFINE s == cmd[c]
  <1>1. /\ s \in Process /\ Formed(s) /\ Fair(s.seen) /\ Fair(record)
        /\ s.seen \in PinsOf(Packages) /\ record \in PinsOf(Packages)
    BY CmdOf DEF FairClaims, Typed, TypeOK, Process
  <1>2. \A t : t.seen \in {s.seen, Nothing, record} => Fair(t.seen)
    BY <1>1, NothingFair
  <1>3. CASE NextUpdate(c)
    <2>1. PICK p \in s.todo :
            LET t == [s EXCEPT !.package = p] IN
            IF ~Installed(t.seen, p) THEN Becomes(c, Idle)
            ELSE \E v \in Releases :
                   Becomes(c, IF v = t.seen[p].release THEN Through(t) ELSE Fetching(t, p, v))
      BY <1>3 DEF NextUpdate
    <2> DEFINE t == [s EXCEPT !.package = p]
    <2>2. t \in Process /\ t.seen = s.seen
      BY <1>1 DEF Process
    <2>3. UNCHANGED record
      BY <1>3 DEF NextUpdate
    <2>4. CASE ~Installed(t.seen, p)
      <3>1. Becomes(c, Idle) /\ Idle.seen = Nothing
        BY <2>1, <2>4 DEF Idle
      <3> QED
        BY <2>3, <3>1, StepFair
    <2>5. CASE Installed(t.seen, p)
      <3>1. PICK v : Becomes(c, IF v = t.seen[p].release THEN Through(t) ELSE Fetching(t, p, v))
        BY <2>1, <2>5
      <3>2. Through(t).seen \in {s.seen, Nothing} /\ Fetching(t, p, v).seen = s.seen
        <4> HIDE DEF t
        <4> QED
          BY <2>2, SeenKept
      <3>3. CASE v = t.seen[p].release
        BY <2>3, <3>1, <3>2, <3>3, StepFair
      <3>4. CASE v # t.seen[p].release
        BY <2>3, <3>1, <3>2, <3>4, StepFair
      <3> QED
        BY <3>3, <3>4
    <2> QED
      BY <2>4, <2>5
  <1>4. CASE NextRestore(c)
    <2>1. PICK p \in s.todo, v \in Releases :
            Becomes(c, IF Installed(s.seen, p)
                       THEN Through([s EXCEPT !.package = p])
                       ELSE Fetching(s, p, v))
      BY <1>4 DEF NextRestore
    <2> DEFINE t == [s EXCEPT !.package = p]
    <2>2. t \in Process /\ t.seen = s.seen
      BY <1>1 DEF Process
    <2>3. Through(t).seen \in {s.seen, Nothing} /\ Fetching(s, p, v).seen = s.seen
      <3> HIDE DEF t, s
      <3> QED
        BY <1>1, <2>2, SeenKept
    <2>4. UNCHANGED record
      BY <1>4 DEF NextRestore
    <2>5. CASE Installed(s.seen, p)
      BY <2>1, <2>3, <2>4, <2>5, StepFair
    <2>6. CASE ~Installed(s.seen, p)
      BY <2>1, <2>3, <2>4, <2>6, StepFair
    <2> QED
      BY <2>5, <2>6
  <1>5. CASE ListIsDone(c)
    <2>1. UNCHANGED record
      BY <1>5 DEF ListIsDone
    <2>2. Becomes(c, Goto(s, "read tools")) \/ Becomes(c, Idle)
      BY <1>5 DEF ListIsDone
    <2>3. Goto(s, "read tools").seen = s.seen /\ Idle.seen = Nothing
      BY <1>1, SeenKept
    <2> QED
      BY <2>1, <2>2, <2>3, StepFair
  <1>6. CASE ReadTools(c)
    <2> DEFINE reads(held) == [Reading("restore tools") EXCEPT !.pc = "next", !.todo = held]
    <2>1. \A held : reads(held).seen = record
      BY ReadingType DEF Op, Process
    <2>2. UNCHANGED record /\ (Becomes(c, Idle) \/ \E held \in SUBSET Tools : Becomes(c, reads(held)))
      BY <1>6 DEF ReadTools
    <2>3. Idle.seen = Nothing
      BY DEF Idle
    <2> HIDE DEF reads
    <2> QED
      BY <2>1, <2>2, <2>3, StepFair
  <1>7. CASE FetchPackage(c)
    BY <1>1, <1>2, <1>7, SeenKept, QuietFair DEF FetchPackage
  <1>8. CASE PlaceTree(c)
    <2> DEFINE pin == [release |-> s.release, binaries |-> {}]
               t == [s EXCEPT !.pc = "record", !.seen[s.package] = pin]
    <2>1. t.seen = [s.seen EXCEPT ![s.package] = pin]
      BY <1>1 DEF Process
    <2>2. ~Conflicts(s.seen, s.package, pin.binaries)
      BY DEF Conflicts
    <2>3. Fair(t.seen)
      <3>1. Fair([s.seen EXCEPT ![s.package] = pin])
        <4> HIDE DEF pin, s
        <4> QED
          BY <1>1, <2>2, PutInFair
      <3> QED
        BY <2>1, <3>1
    <2>4. UNCHANGED record /\ (Becomes(c, Goto(s, "claim")) \/ Becomes(c, t))
      BY <1>8 DEF PlaceTree
    <2>5. Goto(s, "claim").seen = s.seen
      BY <1>1, SeenKept
    <2> HIDE DEF t
    <2> QED
      BY <2>3, <2>4, <2>5, StepFair, QuietFair
  <1>9. CASE ClaimTool(c)
    <2> DEFINE found == Found(s.package)
               pin == [release |-> s.release, binaries |-> found]
    <2>1. Claimed(s, found).seen = [s.seen EXCEPT ![s.package] = pin]
      BY <1>1 DEF Claimed, Process
    <2>2. UNCHANGED record
      BY <1>9 DEF ClaimTool
    <2>3. CASE MayClaim(s.seen, s.package, found)
      <3>1. ~Conflicts(s.seen, s.package, pin.binaries)
        BY <2>3 DEF MayClaim
      <3>2. Fair(Claimed(s, found).seen)
        <4>1. Fair([s.seen EXCEPT ![s.package] = pin])
          <5> HIDE DEF pin, found, s
          <5> QED
            BY <1>1, <3>1, PutInFair
        <4> QED
          BY <2>1, <4>1
      <3> QED
        BY <1>9, <2>2, <2>3, <3>2, QuietFair DEF ClaimTool
    <2>4. CASE ~MayClaim(s.seen, s.package, found)
      <3>1. Becomes(c, Goto(s, "unclaim")) /\ Goto(s, "unclaim").seen = s.seen
        BY <1>1, <1>9, <2>4, SeenKept DEF ClaimTool
      <3> QED
        BY <2>2, <3>1, StepFair
    <2> QED
      BY <2>3, <2>4
  <1>10. CASE Unclaim(c)
    BY <1>1, <1>2, <1>10, SeenKept, QuietFair DEF Unclaim
  <1>11. CASE LinkBinaries(c)
    BY <1>1, <1>2, <1>11, SeenKept, QuietFair DEF LinkBinaries
  <1>12. CASE LinkIsRefused(c)
    BY <1>1, <1>2, <1>12, SeenKept, QuietFair DEF LinkIsRefused
  <1>13. CASE SwapLinks(c)
    BY <1>1, <1>2, <1>13, SeenKept, QuietFair DEF SwapLinks
  <1>14. CASE WriteRecord(c)
    <2>1. Fair(record')
      BY <1>1, <1>14, MixedFair DEF WriteRecord
    <2>2. PICK u : Becomes(c, u) /\ u.seen \in {s.seen, Nothing}
      BY <1>1, <1>14, SeenKept DEF WriteRecord
    <2> QED
      BY <1>2, <2>1, <2>2, BecomesFair
  <1>15. CASE RemovePackage(c)
    BY <1>1, <1>2, <1>15, SeenKept, QuietFair DEF RemovePackage
  <1>16. \A packages : Clears(packages) => Fair(record')
    BY <1>1 DEF Clears, Fair, Absent, Packages
  <1>17. CASE ClearExtensions(c)
    BY <1>1, <1>2, <1>16, <1>17, SeenKept, BecomesFair DEF ClearExtensions
  <1>18. CASE ClearTools(c)
    BY <1>1, <1>2, <1>16, <1>18, SeenKept, BecomesFair DEF ClearTools
  <1>19. CASE EmptyProfile(c)
    BY <1>1, <1>2, <1>19, SeenKept, QuietFair DEF EmptyProfile
  <1> QED
    BY <1>3, <1>4, <1>5, <1>6, <1>7, <1>8, <1>9, <1>10, <1>11, <1>12, <1>13, <1>14,
       <1>15, <1>17, <1>18, <1>19 DEF Proceeds

LEMMA MishapsFair ==
    ASSUME Typed, FairClaims, NEW c \in Processes, StepFails(c) \/ Killed(c)
    PROVE  FairClaims'
  <1>1. PICK u : Becomes(c, u) /\ u.seen \in {cmd[c].seen, Nothing}
    BY CmdOf, SeenKept DEF StepFails, Killed
  <1>2. Fair(u.seen)
    BY <1>1, NothingFair DEF FairClaims
  <1> QED
    BY <1>1, <1>2, QuietFair DEF StepFails, Killed

LEMMA NextFair == Typed /\ FairClaims /\ [Next]_vars => FairClaims'
  <1> SUFFICES ASSUME Typed, FairClaims, [Next]_vars
               PROVE  FairClaims'
    OBVIOUS
  <1>1. CASE UNCHANGED vars
    BY <1>1 DEF vars, FairClaims
  <1>2. ASSUME NEW c \in Processes, Begins(c) \/ Proceeds(c) \/ StepFails(c) \/ Killed(c)
        PROVE  FairClaims'
    BY <1>2, BeginsFair, ProceedsFair, MishapsFair
  <1> QED
    BY <1>1, <1>2 DEF Next

\* However installs, removals and restores interleave, and whatever fails or
\* dies, no two recorded tools claim one command.
THEOREM ClaimsAreFair == Spec => []NoCommandClaimedTwice
  <1>1. Init => FairClaims
    BY NothingFair DEF Init, FairClaims, Idle
  <1>2. FairClaims => NoCommandClaimedTwice
    BY DEF FairClaims, Fair, NoCommandClaimedTwice
  <1> QED
    BY <1>1, <1>2, InitTyped, NextTyped, NextFair, PTL DEF Spec
-----------------------------------------------------------------------------
(***************************************************************************)
(* The other properties are about commands that follow one another.  What  *)
(* a command relies on at each of its steps: what it read is still the     *)
(* record, but for the package it is about.                                *)
(***************************************************************************)
Solo == \A c, d \in Processes : c = d

Unlinked == [name \in Binaries |-> Nil]

\* The steps of an installation before the record it will write is made up, and
\* those after.
Installing == {"next", "fetch", "place", "claim", "unclaim"}
Committing == {"link", "swap", "record"}
Clearing == {"clear extensions", "clear tools", "empty"}

Knows(s) ==
    /\ s.pc \in Installing => s.op \notin {Nil, "remove", "reset"}
    /\ s.pc \in Committing => s.op # Nil
    /\ s.pc = "record" => s.op # "reset"
    /\ s.pc \in Clearing => s.op = "reset"
    /\ s.op = "reset" => s.seen = Nothing
    /\ s.pc = "unclaim" => s.package \in Tools
    /\ s.pc = "record" => s.package \in Packages
    /\ (s.pc \in {"link", "swap"} /\ s.op # "reset") => s.package \in Tools

Remembers(s, pins) ==
    /\ s.pc \in Installing => s.seen = pins
    /\ (s.pc \in Committing /\ s.op # "reset")
       => \A q \in Packages \ {s.package} : s.seen[q] = pins[q]

\* A restore is about a package that is not recorded.
Adds(s, pins) ==
    (Restoring(s) /\ s.pc \in (Installing \cup Committing) \ {"next"})
    => pins[s.package] = Absent

\* What goes from the profile is not recorded.
Removes(s, pins) ==
    /\ (s.op = "remove" /\ s.pc \in Committing) => s.seen[s.package] = Absent
    /\ s.pc = "remove" => s.op = "remove" /\ pins[s.package] = Absent
    /\ s.pc = "clear tools" => \A p \in Extensions : pins[p] = Absent
    /\ s.pc = "empty" => pins = Nothing

\* No command of a tool in memory is another's on disk, or the other way round, by
\* the time the links are swapped.
Apart(pins, others) ==
    \A p, q \in Tools : p # q => pins[p].binaries \cap others[q].binaries = {}

Relinks(s, pins, links) ==
    /\ s.pc \in {"link", "swap"} => Apart(s.seen, pins)
    /\ s.pc = "swap" => links = Unlinked
    /\ (s.pc = "record" /\ s.package \in Tools) => links = Links(s.seen)

Placed(s, pins, links) ==
    Knows(s) /\ Remembers(s, pins) /\ Adds(s, pins) /\ Removes(s, pins) /\ Relinks(s, pins, links)

OneByOne == CommandsMeanOneTool /\ \A c \in Processes : Placed(cmd[c], record, bin)

LEMMA IdlePlaced == ASSUME NEW pins, NEW links PROVE Placed(Idle, pins, links)
  BY DEF Placed, Knows, Remembers, Adds, Removes, Relinks, Restoring, Idle, Installing,
         Committing, Clearing, Nil

\* A process that reads its record, or makes up the one it will write.
LEMMA InstallingPlaced ==
    ASSUME NEW pins, NEW links, NEW t,
           t.pc \in Installing, t.seen = pins, t.op \notin {Nil, "remove", "reset"},
           t.pc = "unclaim" => t.package \in Tools,
           (Restoring(t) /\ t.pc # "next") => pins[t.package] = Absent
    PROVE  Placed(t, pins, links)
  BY DEF Placed, Knows, Remembers, Adds, Removes, Relinks, Installing, Committing, Clearing, Nil

LEMMA ListingPlaced ==
    \A pins, links, t :
        (t.pc = "next" /\ t.seen = pins /\ t.op \in {"update", "restore extensions", "restore tools"})
        => Placed(t, pins, links)
  <1> SUFFICES ASSUME NEW pins, NEW links, NEW t, t.pc = "next", t.seen = pins,
                      t.op \in {"update", "restore extensions", "restore tools"}
               PROVE  Placed(t, pins, links)
    OBVIOUS
  <1>1. t.pc \in Installing /\ t.pc # "unclaim" /\ t.op \notin {Nil, "remove", "reset"}
    BY DEF Installing, Nil
  <1> QED
    BY <1>1, InstallingPlaced

\* Between the halves of a restore nothing is remembered.
LEMMA ReadingPlaced ==
    ASSUME NEW pins, NEW links, NEW t, t.pc = "read tools", t.op # "reset"
    PROVE  Placed(t, pins, links)
  BY DEF Placed, Knows, Remembers, Adds, Removes, Relinks, Installing, Committing, Clearing, Nil

LEMMA StepPlaced ==
    ASSUME Solo, Typed, NEW c \in Processes, NEW t, Becomes(c, t),
           Placed(t, record', bin'), CommandsMeanOneTool'
    PROVE  OneByOne'
  <1>1. \A d \in Processes : cmd'[d] = t
    BY DEF Solo, Becomes, Typed, TypeOK
  <1> QED
    BY <1>1 DEF OneByOne

LEMMA QuietPlaced ==
    ASSUME Solo, Typed, OneByOne, NEW c \in Processes, NEW t, Becomes(c, t),
           Placed(t, record, bin), UNCHANGED <<record, bin>>
    PROVE  OneByOne'
  <1>1. CommandsMeanOneTool'
    BY DEF OneByOne, CommandsMeanOneTool
  <1> QED
    BY <1>1, StepPlaced

LEMMA GotoIs ==
    ASSUME NEW s \in Process, NEW pc
    PROVE  LET t == Goto(s, pc) IN
           t.pc = pc /\ t.op = s.op /\ t.package = s.package /\ t.seen = s.seen
  BY DEF Goto, Process

LEMMA FetchingIs ==
    ASSUME NEW s \in Process, NEW p, NEW v
    PROVE  LET t == Fetching(s, p, v) IN
           t.pc = "fetch" /\ t.op = s.op /\ t.package = p /\ t.seen = s.seen
  BY DEF Fetching, Process

LEMMA ThroughPlaced ==
    ASSUME NEW s \in Process, NEW pins, NEW links, s.seen = pins
    PROVE  Placed(Through(s), pins, links)
  <1> DEFINE t == [s EXCEPT !.pc = "next", !.todo = @ \ {s.package}]
  <1>1. t.pc = "next" /\ t.op = s.op /\ t.seen = pins
    BY DEF Process
  <1>2. CASE s.op \in {"update", "restore extensions", "restore tools"}
    <2>1. Placed(t, pins, links)
      <3>1. t.pc \in Installing /\ t.op \notin {Nil, "remove", "reset"} /\ t.pc # "unclaim"
        BY <1>1, <1>2 DEF Installing, Nil
      <3> HIDE DEF t
      <3> QED
        BY <1>1, <3>1, InstallingPlaced
    <2> QED
      BY <1>2, <2>1 DEF Through
  <1>3. CASE s.op \notin {"update", "restore extensions", "restore tools"}
    BY <1>3, IdlePlaced DEF Through
  <1> QED
    BY <1>2, <1>3

LEMMA AfterFailurePlaced ==
    ASSUME NEW s \in Process, NEW pins, NEW links, Formed(s), Placed(s, pins, links)
    PROVE  Placed(AfterFailure(s), pins, links)
  <1>1. CASE s.pc = "claim"
    <2>1. Goto(s, "unclaim").package \in Tools
      BY <1>1, GotoIs DEF Formed
    <2>2. s.seen = pins /\ s.op \notin {Nil, "remove", "reset"}
      BY <1>1 DEF Placed, Remembers, Knows, Installing
    <2>3. Restoring(s) => pins[s.package] = Absent
      BY <1>1 DEF Placed, Adds, Installing
    <2>4. Restoring(Goto(s, "unclaim")) = Restoring(s)
      BY GotoIs DEF Restoring
    <2>5. Placed(Goto(s, "unclaim"), pins, links)
      BY <2>1, <2>2, <2>3, <2>4, GotoIs, InstallingPlaced DEF Installing, Nil
    <2> QED
      BY <1>1, <2>5 DEF AfterFailure
  <1>2. CASE s.pc \in {"fetch", "place", "unclaim"} /\ Restoring(s)
    <2>1. s.seen = pins
      BY <1>2 DEF Placed, Remembers, Installing
    <2> QED
      BY <1>2, <2>1, ThroughPlaced DEF AfterFailure
  <1>3. CASE s.op = "restore extensions" /\ s.pc = "record"
    <2>1. Placed(Goto(s, "read tools"), pins, links)
      BY <1>3, GotoIs, ReadingPlaced
    <2> QED
      BY <1>3, <2>1 DEF AfterFailure
  <1>4. AfterFailure(s) = Idle \/ s.pc = "claim" \/ (s.pc \in {"fetch", "place", "unclaim"} /\ Restoring(s))
        \/ (s.op = "restore extensions" /\ s.pc = "record")
    BY DEF AfterFailure
  <1> QED
    BY <1>1, <1>2, <1>3, <1>4, IdlePlaced

LEMMA BeginsPlaced ==
    ASSUME Solo, Typed, FairClaims, OneByOne, NEW c \in Processes, Begins(c)
    PROVE  OneByOne'
  <1>1. Fair(record) /\ record \in PinsOf(Packages)
    BY DEF FairClaims, Typed, TypeOK
  <1>2. CASE BeginInstall(c)
    <2>1. PICK p \in Packages, v \in Releases : Becomes(c, Fetching(Reading("install"), p, v))
      BY <1>2 DEF BeginInstall
    <2>2. Reading("install") \in Process /\ Reading("install").seen = record
          /\ Reading("install").op = "install"
      BY ReadingType DEF Op, Reading, Idle
    <2> DEFINE t == Fetching(Reading("install"), p, v)
    <2>3. t.pc = "fetch" /\ t.seen = record /\ t.op = "install"
      BY <2>2, FetchingIs
    <2>4. t.pc \in Installing /\ t.op \notin {Nil, "remove", "reset"} /\ t.pc # "unclaim"
          /\ ~Restoring(t)
      BY <2>3 DEF Installing, Restoring, Nil
    <2>5. Placed(t, record, bin)
      <3> HIDE DEF t
      <3> QED
        BY <2>3, <2>4, InstallingPlaced
    <2> QED
      BY <1>2, <2>1, <2>5, QuietPlaced DEF BeginInstall
  <1>3. CASE BeginUpdate(c)
    <2> DEFINE t(names) == [Reading("update") EXCEPT !.pc = "next", !.todo = names]
    <2>1. PICK names : Becomes(c, t(names))
      BY <1>3 DEF BeginUpdate
    <2>2. Reading("update") \in Process /\ Reading("update").seen = record
          /\ Reading("update").op = "update"
      BY ReadingType DEF Op, Reading, Idle
    <2>3. t(names).pc = "next" /\ t(names).seen = record /\ t(names).op = "update"
      BY <2>2 DEF Process
    <2>4. Placed(t(names), record, bin)
      BY <2>3, ListingPlaced
    <2> HIDE DEF t
    <2> QED
      BY <1>3, <2>1, <2>4, QuietPlaced DEF BeginUpdate
  <1>4. CASE BeginRestore(c)
    <2> DEFINE t(held) == [Reading("restore extensions") EXCEPT !.pc = "next", !.todo = held]
    <2>1. PICK held : Becomes(c, t(held))
      BY <1>4 DEF BeginRestore
    <2>2. Reading("restore extensions") \in Process /\ Reading("restore extensions").seen = record
          /\ Reading("restore extensions").op = "restore extensions"
      BY ReadingType DEF Op, Reading, Idle
    <2>3. t(held).pc = "next" /\ t(held).seen = record /\ t(held).op = "restore extensions"
      BY <2>2 DEF Process
    <2>4. Placed(t(held), record, bin)
      BY <2>3, ListingPlaced
    <2> HIDE DEF t
    <2> QED
      BY <1>4, <2>1, <2>4, QuietPlaced DEF BeginRestore
  <1>5. CASE BeginRemove(c)
    <2> DEFINE t(p) == [Reading("remove") EXCEPT
                          !.package = p, !.seen[p] = Absent,
                          !.pc = IF p \in Tools THEN "link" ELSE "record"]
    <2>1. PICK p \in Packages : Becomes(c, t(p))
      BY <1>5 DEF BeginRemove
    <2>2. Reading("remove") \in Process /\ Reading("remove").seen = record
          /\ Reading("remove").op = "remove"
      BY ReadingType DEF Op, Reading, Idle
    <2>3. /\ t(p).pc = IF p \in Tools THEN "link" ELSE "record"
          /\ t(p).seen = [record EXCEPT ![p] = Absent]
          /\ t(p).op = "remove" /\ t(p).package = p
      BY <2>2 DEF Process
    <2> HIDE DEF t
    <2>4. t(p).seen[p] = Absent /\ \A q \in Packages \ {p} : t(p).seen[q] = record[q]
      BY <1>1, <2>3, PinsType
    <2>5. Apart(t(p).seen, record)
      <3>1. \A q \in Tools : t(p).seen[q].binaries = {} \/ t(p).seen[q].binaries = record[q].binaries
        BY <2>4 DEF Absent, Packages
      <3> QED
        BY <1>1, <3>1 DEF Apart, Fair
    <2>6. Placed(t(p), record, bin)
      BY <2>3, <2>4, <2>5
         DEF Placed, Knows, Remembers, Adds, Removes, Relinks, Restoring, Installing, Committing,
             Clearing, Nil
    <2> QED
      BY <1>5, <2>1, <2>6, QuietPlaced DEF BeginRemove
  <1>6. CASE BeginReset(c)
    <2> DEFINE t == [Idle EXCEPT !.op = "reset", !.pc = "clear extensions"]
    <2>1. t.op = "reset" /\ t.pc = "clear extensions" /\ t.seen = Nothing
      BY DEF Idle
    <2>2. Placed(t, record, bin)
      <3> HIDE DEF t
      <3> QED
        BY <2>1 DEF Placed, Knows, Remembers, Adds, Removes, Relinks, Restoring, Installing,
                    Committing, Clearing, Nil
    <2> QED
      BY <1>6, <2>2, QuietPlaced DEF BeginReset
  <1> QED
    BY <1>2, <1>3, <1>4, <1>5, <1>6 DEF Begins

LEMMA ListsPlaced ==
    ASSUME Solo, Typed, OneByOne, NEW c \in Processes,
           NextUpdate(c) \/ NextRestore(c) \/ ListIsDone(c) \/ ReadTools(c)
    PROVE  OneByOne'
  <1> DEFINE s == cmd[c]
  <1>1. s \in Process /\ Placed(s, record, bin)
    BY CmdOf DEF OneByOne
  <1>2. s.pc = "next" => s.seen = record /\ s.op \notin {Nil, "remove", "reset"}
    BY <1>1 DEF Placed, Remembers, Knows, Installing
  <1>3. CASE NextUpdate(c)
    <2>1. PICK p \in s.todo :
            LET t == [s EXCEPT !.package = p] IN
            IF ~Installed(t.seen, p) THEN Becomes(c, Idle)
            ELSE \E v \in Releases :
                   Becomes(c, IF v = t.seen[p].release THEN Through(t) ELSE Fetching(t, p, v))
      BY <1>3 DEF NextUpdate
    <2> DEFINE t == [s EXCEPT !.package = p]
    <2>2. t \in Process /\ t.seen = s.seen /\ t.op = s.op
      BY <1>1 DEF Process
    <2>3. UNCHANGED <<record, bin>> /\ s.pc = "next" /\ s.op = "update"
      BY <1>3 DEF NextUpdate, At
    <2>4. CASE ~Installed(t.seen, p)
      BY <2>1, <2>3, <2>4, IdlePlaced, QuietPlaced
    <2>5. CASE Installed(t.seen, p)
      <3>1. PICK v : Becomes(c, IF v = t.seen[p].release THEN Through(t) ELSE Fetching(t, p, v))
        BY <2>1, <2>5
      <3> HIDE DEF t
      <3>2. Placed(Through(t), record, bin)
        BY <1>2, <2>2, <2>3, ThroughPlaced
      <3> DEFINE f == Fetching(t, p, v)
      <3>3. f.pc = "fetch" /\ f.seen = record /\ f.op = "update"
        BY <1>2, <2>2, <2>3, FetchingIs
      <3>7. f.pc \in Installing /\ f.op \notin {Nil, "remove", "reset"} /\ f.pc # "unclaim"
            /\ ~Restoring(f)
        BY <3>3 DEF Installing, Restoring, Nil
      <3>4. Placed(f, record, bin)
        <4> HIDE DEF f
        <4> QED
          BY <3>3, <3>7, InstallingPlaced
      <3>5. CASE v = t.seen[p].release
        BY <2>3, <3>1, <3>2, <3>5, QuietPlaced
      <3>6. CASE v # t.seen[p].release
        BY <2>3, <3>1, <3>4, <3>6, QuietPlaced
      <3> QED
        BY <3>5, <3>6
    <2> QED
      BY <2>4, <2>5
  <1>4. CASE NextRestore(c)
    <2>1. PICK p \in s.todo, v \in Releases :
            Becomes(c, IF Installed(s.seen, p)
                       THEN Through([s EXCEPT !.package = p])
                       ELSE Fetching(s, p, v))
      BY <1>4 DEF NextRestore
    <2> DEFINE t == [s EXCEPT !.package = p]
    <2>2. t \in Process /\ t.seen = s.seen
      BY <1>1 DEF Process
    <2>3. UNCHANGED <<record, bin>> /\ s.pc = "next"
      BY <1>4 DEF NextRestore, At
    <2>4. CASE Installed(s.seen, p)
      <3>1. Placed(Through(t), record, bin)
        <4> HIDE DEF t
        <4> QED
          BY <1>2, <2>2, <2>3, ThroughPlaced
      <3> QED
        BY <2>1, <2>3, <2>4, <3>1, QuietPlaced
    <2>5. CASE ~Installed(s.seen, p)
      <3> DEFINE f == Fetching(s, p, v)
      <3>1. /\ f.pc = "fetch" /\ f.seen = record /\ f.op \notin {Nil, "remove", "reset"}
            /\ f.package = p /\ record[p] = Absent
        BY <1>1, <1>2, <2>3, <2>5, FetchingIs DEF Installed
      <3>2. Placed(f, record, bin)
        <4> HIDE DEF f
        <4> QED
          BY <3>1, InstallingPlaced DEF Installing, Nil
      <3> QED
        BY <2>1, <2>3, <2>5, <3>2, QuietPlaced
    <2> QED
      BY <2>4, <2>5
  <1>5. CASE ListIsDone(c)
    <2> DEFINE t == Goto(s, "read tools")
    <2>4. t.pc = "read tools" /\ t.op # "reset"
      BY <1>1, <1>2, <1>5, GotoIs DEF ListIsDone, At
    <2>5. Placed(t, record, bin)
      <3> HIDE DEF t
      <3> QED
        BY <2>4, ReadingPlaced
    <2>1. Placed(Goto(s, "read tools"), record, bin) /\ Placed(Idle, record, bin)
      BY <2>5, IdlePlaced
    <2>2. \/ Becomes(c, Goto(s, "read tools")) \/ Becomes(c, Idle)
      BY <1>5 DEF ListIsDone
    <2>3. UNCHANGED <<record, bin>>
      BY <1>5 DEF ListIsDone
    <2> QED
      BY <2>1, <2>2, <2>3, QuietPlaced
  <1>6. CASE ReadTools(c)
    <2> DEFINE t(held) == [Reading("restore tools") EXCEPT !.pc = "next", !.todo = held]
    <2>1. Reading("restore tools") \in Process /\ Reading("restore tools").seen = record
          /\ Reading("restore tools").op = "restore tools"
      BY ReadingType DEF Op, Reading, Idle
    <2>2. \A held : t(held).pc = "next" /\ t(held).seen = record /\ t(held).op = "restore tools"
      BY <2>1 DEF Process
    <2>3. /\ UNCHANGED <<record, bin>>
          /\ Becomes(c, Idle) \/ \E held \in SUBSET Tools : Becomes(c, t(held))
      BY <1>6 DEF ReadTools
    <2> HIDE DEF t
    <2>4. \A held : Placed(t(held), record, bin)
      BY <2>2, ListingPlaced
    <2> QED
      BY <2>3, <2>4, IdlePlaced, QuietPlaced
  <1> QED
    BY <1>3, <1>4, <1>5, <1>6

\* A process with the record it will write made up, before the links are rebuilt.
LEMMA CommittingPlaced ==
    ASSUME NEW pins, NEW links, NEW t, t.op \notin {Nil, "remove", "reset"},
           \A q \in Packages \ {t.package} : t.seen[q] = pins[q],
           Restoring(t) => pins[t.package] = Absent,
           \/ t.pc = "link" /\ t.package \in Tools /\ Apart(t.seen, pins)
           \/ t.pc = "record" /\ t.package \in Packages \ Tools
    PROVE  Placed(t, pins, links)
  BY DEF Placed, Knows, Remembers, Adds, Removes, Relinks, Installing, Committing, Clearing, Nil

LEMMA InstallsPlaced ==
    ASSUME Solo, Typed, FairClaims, OneByOne, NEW c \in Processes,
           FetchPackage(c) \/ PlaceTree(c) \/ ClaimTool(c) \/ Unclaim(c)
    PROVE  OneByOne'
  <1> DEFINE s == cmd[c]
  <1>1. s \in Process /\ Formed(s) /\ Placed(s, record, bin)
    BY CmdOf DEF OneByOne
  <1>2. s.pc \in Installing
        => s.seen = record /\ s.op \notin {Nil, "remove", "reset"}
    BY <1>1 DEF Placed, Remembers, Knows
  <1>3. s.pc \in Installing \ {"next"} => (Restoring(s) => record[s.package] = Absent)
    BY <1>1 DEF Placed, Adds
  <1>4. Fair(record) /\ record \in [Packages -> Pin \cup {Absent}]
    BY PinsType DEF FairClaims, Typed, TypeOK
  <1>5. CASE FetchPackage(c)
    <2>1. s.pc = "fetch"
      BY <1>5 DEF FetchPackage, At
    <2> DEFINE t == Goto(s, "place")
    <2>2. t.pc = "place" /\ t.op = s.op /\ t.seen = s.seen /\ t.package = s.package
      BY <1>1, GotoIs
    <2>3. t.pc \in Installing /\ t.pc # "unclaim" /\ t.op \notin {Nil, "remove", "reset"}
          /\ t.seen = record /\ (Restoring(t) => record[t.package] = Absent)
      BY <1>2, <1>3, <2>1, <2>2 DEF Installing, Restoring, Nil
    <2>4. Placed(t, record, bin)
      <3> HIDE DEF t, s
      <3> QED
        BY <2>3, InstallingPlaced
    <2> QED
      BY <1>5, <2>4, QuietPlaced DEF FetchPackage
  <1>6. CASE PlaceTree(c)
    <2>1. s.pc = "place" /\ s.package \in Packages
      BY <1>1, <1>6 DEF PlaceTree, At, Formed
    <2>2. s.seen = record /\ s.op \notin {Nil, "remove", "reset"}
          /\ (Restoring(s) => record[s.package] = Absent)
      BY <1>2, <1>3, <2>1 DEF Installing, Nil
    <2>3. UNCHANGED <<record, bin>>
      BY <1>6 DEF PlaceTree
    <2>4. CASE s.package \in Tools
      <3> DEFINE t == Goto(s, "claim")
      <3>1. t.pc = "claim" /\ t.op = s.op /\ t.seen = s.seen /\ t.package = s.package
        BY <1>1, GotoIs
      <3>2. t.pc \in Installing /\ t.pc # "unclaim" /\ t.op \notin {Nil, "remove", "reset"}
            /\ t.seen = record /\ (Restoring(t) => record[t.package] = Absent)
        BY <2>2, <3>1 DEF Installing, Restoring, Nil
      <3>3. Placed(t, record, bin)
        <4> HIDE DEF t, s
        <4> QED
          BY <3>2, InstallingPlaced
      <3> QED
        BY <1>6, <2>3, <2>4, <3>3, QuietPlaced DEF PlaceTree
    <2>5. CASE s.package \notin Tools
      <3> DEFINE pin == [release |-> s.release, binaries |-> {}]
                 t == [s EXCEPT !.pc = "record", !.seen[s.package] = pin]
      <3>1. /\ t.pc = "record" /\ t.op = s.op /\ t.package = s.package
            /\ t.seen = [s.seen EXCEPT ![s.package] = pin]
        BY <1>1 DEF Process
      <3>2. \A q \in Packages \ {t.package} : t.seen[q] = record[q]
        BY <1>4, <2>2, <3>1
      <3>3. t.op \notin {Nil, "remove", "reset"} /\ (Restoring(t) => record[t.package] = Absent)
        BY <2>2, <3>1 DEF Restoring
      <3>4. Placed(t, record, bin)
        <4>1. t.package \in Packages \ Tools
          BY <2>1, <2>5, <3>1
        <4> HIDE DEF t, s
        <4> QED
          BY <3>1, <3>2, <3>3, <4>1, CommittingPlaced
      <3>5. Becomes(c, t)
        BY <1>6, <2>5 DEF PlaceTree
      <3> QED
        BY <2>3, <3>4, <3>5, QuietPlaced
    <2> QED
      BY <2>4, <2>5
  <1>7. CASE ClaimTool(c)
    <2> DEFINE found == Found(s.package)
    <2>1. s.pc = "claim" /\ s.package \in Tools
      BY <1>1, <1>7 DEF ClaimTool, At, Formed
    <2>2. s.seen = record /\ s.op \notin {Nil, "remove", "reset"}
          /\ (Restoring(s) => record[s.package] = Absent)
      BY <1>2, <1>3, <2>1 DEF Installing, Nil
    <2>3. UNCHANGED <<record, bin>>
      BY <1>7 DEF ClaimTool
    <2>4. CASE MayClaim(s.seen, s.package, found)
      <3> DEFINE pin == [release |-> s.release, binaries |-> found]
                 t == Claimed(s, found)
      <3>1. /\ t.pc = "link" /\ t.op = s.op /\ t.package = s.package
            /\ t.seen = [s.seen EXCEPT ![s.package] = pin]
        BY <1>1 DEF Process, Claimed
      <3>2. /\ \A q \in Packages \ {s.package} : t.seen[q] = record[q]
            /\ t.seen[s.package] = pin
        <4>1. s.package \in Packages
          BY <2>1 DEF Packages
        <4> QED
          BY <1>4, <2>2, <3>1, <4>1
      <3>3. t.op \notin {Nil, "remove", "reset"} /\ (Restoring(t) => record[t.package] = Absent)
        BY <2>2, <3>1 DEF Restoring
      <3>4. Apart(t.seen, record)
        <4>1. \A q \in Tools \ {s.package} : record[q].binaries \cap found = {}
          BY <2>2, <2>4 DEF MayClaim, Conflicts
        <4>2. \A q \in Tools : q # s.package => t.seen[q] = record[q]
          BY <3>2 DEF Packages
        <4>3. t.seen[s.package].binaries = found
          BY <3>2
        <4> HIDE DEF t, found, s
        <4> QED
          BY <1>4, <4>1, <4>2, <4>3 DEF Apart, Fair
      <3>5. Placed(t, record, bin)
        <4> HIDE DEF t, s
        <4> QED
          BY <2>1, <3>1, <3>2, <3>3, <3>4, CommittingPlaced
      <3> QED
        BY <1>7, <2>3, <2>4, <3>5, QuietPlaced DEF ClaimTool
    <2>5. CASE ~MayClaim(s.seen, s.package, found)
      <3> DEFINE t == Goto(s, "unclaim")
      <3>1. t.pc = "unclaim" /\ t.op = s.op /\ t.seen = s.seen /\ t.package = s.package
        BY <1>1, GotoIs
      <3>2. t.pc \in Installing /\ t.package \in Tools /\ t.op \notin {Nil, "remove", "reset"}
            /\ t.seen = record /\ (Restoring(t) => record[t.package] = Absent)
        BY <2>1, <2>2, <3>1 DEF Installing, Restoring, Nil
      <3>3. Placed(t, record, bin)
        <4> HIDE DEF t, s
        <4> QED
          BY <3>2, InstallingPlaced
      <3> QED
        BY <1>7, <2>3, <2>5, <3>3, QuietPlaced DEF ClaimTool
    <2> QED
      BY <2>4, <2>5
  <1>8. CASE Unclaim(c)
    BY <1>1, <1>8, AfterFailurePlaced, QuietPlaced DEF Unclaim
  <1> QED
    BY <1>5, <1>6, <1>7, <1>8

\* The links name the tool that holds each command, when no command has two holders.
LEMMA LinksAre ==
    ASSUME NEW pins, Fair(pins), NEW b \in Binaries
    PROVE  /\ \A p \in Tools : b \in pins[p].binaries => Links(pins)[b] = p
           /\ Links(pins)[b] # Nil
              => Links(pins)[b] \in Tools /\ b \in pins[Links(pins)[b]].binaries
  BY DEF Links, Fair

LEMMA LinksPlaced ==
    ASSUME Solo, Typed, FairClaims, OneByOne, NEW c \in Processes,
           LinkBinaries(c) \/ LinkIsRefused(c) \/ SwapLinks(c)
    PROVE  OneByOne'
  <1> DEFINE s == cmd[c]
  <1>1. s \in Process /\ Formed(s) /\ Placed(s, record, bin) /\ Fair(s.seen)
    BY CmdOf DEF OneByOne, FairClaims
  <1>2. CASE LinkBinaries(c)
    <2> DEFINE t == Goto(s, "swap")
    <2>1. s.pc = "link" /\ bin' = Unlinked /\ UNCHANGED record /\ Becomes(c, t)
      BY <1>2 DEF LinkBinaries, At, Unlinked
    <2>2. t.pc = "swap" /\ t.op = s.op /\ t.seen = s.seen /\ t.package = s.package
      BY <1>1, GotoIs
    <2>3. Placed(t, record, Unlinked)
      <3> HIDE DEF t, s
      <3> QED
        BY <1>1, <2>1, <2>2
           DEF Placed, Knows, Remembers, Adds, Removes, Relinks, Restoring, Installing,
               Committing, Clearing, Nil
    <2>4. CommandsMeanOneTool'
      BY <2>1 DEF CommandsMeanOneTool, Unlinked
    <2>5. Placed(t, record', bin')
      BY <2>1, <2>3
    <2> QED
      BY <2>1, <2>4, <2>5, StepPlaced
  <1>3. CASE LinkIsRefused(c)
    BY <1>1, <1>3, AfterFailurePlaced, QuietPlaced DEF LinkIsRefused
  <1>4. CASE SwapLinks(c)
    <2>1. s.pc = "swap" /\ bin' = Links(s.seen) /\ UNCHANGED record
      BY <1>4 DEF SwapLinks, At
    <2>2. Apart(s.seen, record)
      BY <1>1, <2>1 DEF Placed, Relinks
    <2>3. CommandsMeanOneTool'
      <3> SUFFICES ASSUME NEW b \in Binaries, NEW q \in Tools,
                          bin'[b] # Nil, b \in record[q].binaries
                   PROVE  bin'[b] = q
        BY <2>1 DEF CommandsMeanOneTool
      <3>1. bin'[b] \in Tools /\ b \in s.seen[bin'[b]].binaries
        <4> HIDE DEF s
        <4> QED
          BY <1>1, <2>1, LinksAre
      <3> QED
        BY <2>2, <3>1 DEF Apart
    <2>4. CASE s.op = "reset"
      BY <1>4, <2>1, <2>3, <2>4, IdlePlaced, StepPlaced DEF SwapLinks
    <2>5. CASE s.op # "reset"
      <3> DEFINE t == Goto(s, "record")
      <3>1. t.pc = "record" /\ t.op = s.op /\ t.seen = s.seen /\ t.package = s.package
        BY <1>1, GotoIs
      <3>2. t.package \in Packages
        BY <1>1, <2>1, <2>5, <3>1 DEF Placed, Knows, Packages
      <3>3. Placed(t, record, Links(s.seen))
        <4> HIDE DEF t, s
        <4> QED
          BY <1>1, <2>1, <2>5, <3>1, <3>2
             DEF Placed, Knows, Remembers, Adds, Removes, Relinks, Restoring, Installing,
                 Committing, Clearing, Nil
      <3>4. Placed(t, record', bin')
        BY <2>1, <3>3
      <3>5. Becomes(c, t)
        BY <1>4, <2>5 DEF SwapLinks
      <3> HIDE DEF t
      <3> QED
        BY <2>3, <3>4, <3>5, StepPlaced
    <2> QED
      BY <2>4, <2>5
  <1> QED
    BY <1>2, <1>3, <1>4

LEMMA RecordsPlaced ==
    ASSUME Solo, Typed, FairClaims, OneByOne, NEW c \in Processes, WriteRecord(c)
    PROVE  OneByOne'
  <1> DEFINE s == cmd[c]
  <1>1. /\ s \in Process /\ Placed(s, record, bin) /\ Fair(s.seen)
        /\ s.seen \in [Packages -> Pin \cup {Absent}]
        /\ record \in [Packages -> Pin \cup {Absent}]
    BY CmdOf, PinsType DEF OneByOne, FairClaims, Typed, TypeOK, Process
  <1>2. s.pc = "record" /\ UNCHANGED bin
        /\ record' = [p \in Packages |-> IF p \in Kin(s.package) THEN s.seen[p] ELSE record[p]]
    BY DEF WriteRecord, At
  <1>3. s.package \in Packages /\ \A q \in Packages \ {s.package} : s.seen[q] = record[q]
    BY <1>1, <1>2 DEF Placed, Knows, Remembers, Committing
  <1>4. s.package \in Kin(s.package)
    BY <1>3 DEF Kin, Packages
  <1>5. record' = s.seen
    BY <1>1, <1>2, <1>3, <1>4
  <1>6. CommandsMeanOneTool'
    <2>1. CASE s.package \in Tools
      <3>1. bin = Links(s.seen)
        BY <1>1, <1>2, <2>1 DEF Placed, Relinks
      <3> SUFFICES ASSUME NEW b \in Binaries, NEW q \in Tools, b \in s.seen[q].binaries
                   PROVE  Links(s.seen)[b] = q
        BY <1>2, <1>5, <3>1 DEF CommandsMeanOneTool
      <3> HIDE DEF s
      <3> QED
        BY <1>1, LinksAre
    <2>2. CASE s.package \notin Tools
      <3>1. \A q \in Tools : record'[q] = record[q]
        BY <1>3, <1>5, <2>2 DEF Packages
      <3>2. \A b \in Binaries, q \in Tools :
              (bin[b] # Nil /\ b \in record[q].binaries) => bin[b] = q
        BY DEF OneByOne, CommandsMeanOneTool
      <3> QED
        BY <1>2, <3>1, <3>2 DEF CommandsMeanOneTool
    <2> QED
      BY <2>1, <2>2
  <1>7. CASE s.op = "remove"
    <2> DEFINE t == Goto(s, "remove")
    <2>1. t.pc = "remove" /\ t.op = s.op /\ t.seen = s.seen /\ t.package = s.package
      BY <1>1, GotoIs
    <2>2. s.seen[s.package] = Absent
      BY <1>1, <1>2, <1>7 DEF Placed, Removes, Committing
    <2>3. Placed(t, s.seen, bin)
      <3> HIDE DEF t, s
      <3> QED
        BY <1>7, <2>1, <2>2
           DEF Placed, Knows, Remembers, Adds, Removes, Relinks, Restoring, Installing,
               Committing, Clearing, Nil
    <2>4. Placed(t, record', bin')
      BY <1>2, <1>5, <2>3
    <2>5. Becomes(c, t)
      BY <1>7 DEF WriteRecord
    <2> HIDE DEF t
    <2> QED
      BY <1>6, <2>4, <2>5, StepPlaced
  <1>8. CASE s.op # "remove"
    <2>1. Placed(Through(s), record', bin')
      BY <1>1, <1>5, ThroughPlaced
    <2>2. Becomes(c, Through(s))
      BY <1>8 DEF WriteRecord
    <2> QED
      BY <1>6, <2>1, <2>2, StepPlaced
  <1> QED
    BY <1>7, <1>8

\* What a removal of records leaves of the tools claims no more than before.
LEMMA ClearedMeanOneTool ==
    ASSUME OneByOne, NEW packages, Clears(packages), UNCHANGED bin
    PROVE  CommandsMeanOneTool'
  <1>1. \A q \in Tools : record'[q] = record[q] \/ record'[q].binaries = {}
    BY DEF Clears, Absent, Packages
  <1> QED
    BY <1>1 DEF OneByOne, CommandsMeanOneTool

LEMMA RemovalsPlaced ==
    ASSUME Solo, Typed, OneByOne, NEW c \in Processes,
           RemovePackage(c) \/ ClearExtensions(c) \/ ClearTools(c) \/ EmptyProfile(c)
    PROVE  OneByOne'
  <1> DEFINE s == cmd[c]
  <1>1. /\ s \in Process /\ Placed(s, record, bin)
        /\ record \in [Packages -> Pin \cup {Absent}]
    BY CmdOf, PinsType DEF OneByOne, Typed, TypeOK
  <1>2. s.pc \in Clearing => s.op = "reset" /\ s.seen = Nothing
    BY <1>1 DEF Placed, Knows
  <1>3. CASE RemovePackage(c)
    BY <1>3, IdlePlaced, QuietPlaced DEF RemovePackage
  <1>4. CASE ClearExtensions(c)
    <2> DEFINE t == Goto(s, "clear tools")
    <2>1. s.pc = "clear extensions" /\ UNCHANGED bin /\ Clears(Extensions) /\ Becomes(c, t)
      BY <1>4 DEF ClearExtensions, At
    <2>2. t.pc = "clear tools" /\ t.op = "reset" /\ t.seen = Nothing
      BY <1>1, <1>2, <2>1, GotoIs DEF Clearing
    <2>3. \A p \in Extensions : record'[p] = Absent
      BY <2>1 DEF Clears, Packages
    <2>4. Placed(t, record', bin')
      <3> HIDE DEF t
      <3> QED
        BY <2>2, <2>3 DEF Placed, Knows, Remembers, Adds, Removes, Relinks, Restoring, Installing,
                          Committing, Clearing, Nil
    <2> QED
      BY <2>1, <2>4, ClearedMeanOneTool, StepPlaced
  <1>5. CASE ClearTools(c)
    <2> DEFINE t == Goto(s, "empty")
    <2>1. s.pc = "clear tools" /\ UNCHANGED bin /\ Clears(Tools) /\ Becomes(c, t)
      BY <1>5 DEF ClearTools, At
    <2>2. t.pc = "empty" /\ t.op = "reset" /\ t.seen = Nothing
      BY <1>1, <1>2, <2>1, GotoIs DEF Clearing
    <2>3. record' = Nothing
      <3>1. \A p \in Extensions : record[p] = Absent
        BY <1>1, <2>1 DEF Placed, Removes
      <3> QED
        BY <2>1, <3>1 DEF Clears, Packages, Nothing
    <2>4. Placed(t, record', bin')
      <3> HIDE DEF t
      <3> QED
        BY <2>2, <2>3 DEF Placed, Knows, Remembers, Adds, Removes, Relinks, Restoring, Installing,
                          Committing, Clearing, Nil
    <2> QED
      BY <2>1, <2>4, ClearedMeanOneTool, StepPlaced
  <1>6. CASE EmptyProfile(c)
    <2> DEFINE t == Goto(s, "link")
    <2>1. s.pc = "empty" /\ bin' = Unlinked /\ UNCHANGED record /\ Becomes(c, t)
      BY <1>6 DEF EmptyProfile, At, Unlinked
    <2>2. t.pc = "link" /\ t.op = "reset" /\ t.seen = Nothing
      BY <1>1, <1>2, <2>1, GotoIs DEF Clearing
    <2>3. record = Nothing
      BY <1>1, <2>1 DEF Placed, Removes
    <2>4. Apart(Nothing, Nothing)
      BY DEF Apart, Nothing, Absent, Packages
    <2>5. Placed(t, record', bin')
      <3> HIDE DEF t
      <3> QED
        BY <2>1, <2>2, <2>3, <2>4
           DEF Placed, Knows, Remembers, Adds, Removes, Relinks, Restoring, Installing,
               Committing, Clearing, Nil
    <2>6. CommandsMeanOneTool'
      BY <2>1 DEF CommandsMeanOneTool, Unlinked
    <2> QED
      BY <2>1, <2>5, <2>6, StepPlaced
  <1> QED
    BY <1>3, <1>4, <1>5, <1>6

LEMMA MishapsPlaced ==
    ASSUME Solo, Typed, OneByOne, NEW c \in Processes, StepFails(c) \/ Killed(c)
    PROVE  OneByOne'
  <1>1. Placed(AfterFailure(cmd[c]), record, bin) /\ Placed(Idle, record, bin)
    BY CmdOf, AfterFailurePlaced, IdlePlaced DEF OneByOne
  <1> QED
    BY <1>1, QuietPlaced DEF StepFails, Killed

LEMMA NextPlaced ==
    Solo /\ Typed /\ FairClaims /\ OneByOne /\ [Next]_vars => OneByOne'
  <1> SUFFICES ASSUME Solo, Typed, FairClaims, OneByOne, [Next]_vars
               PROVE  OneByOne'
    OBVIOUS
  <1>1. CASE UNCHANGED vars
    BY <1>1 DEF vars, OneByOne, CommandsMeanOneTool
  <1>2. ASSUME NEW c \in Processes, Begins(c) \/ Proceeds(c) \/ StepFails(c) \/ Killed(c)
        PROVE  OneByOne'
    BY <1>2, BeginsPlaced, ListsPlaced, InstallsPlaced, LinksPlaced, RecordsPlaced,
       RemovalsPlaced, MishapsPlaced DEF Proceeds
  <1> QED
    BY <1>1, <1>2 DEF Next

LEMMA InitPlaced == Init => OneByOne
  BY IdlePlaced DEF Init, OneByOne, CommandsMeanOneTool

LEMMA SoloInvariant ==
    ASSUME Solo
    PROVE  Spec => [](Typed /\ FairClaims /\ OneByOne)
  <1>1. Init => FairClaims
    BY NothingFair DEF Init, FairClaims, Idle
  <1>2. Typed /\ FairClaims /\ OneByOne /\ [Next]_vars => (Typed /\ FairClaims /\ OneByOne)'
    BY NextTyped, NextFair, NextPlaced
  <1> QED
    BY <1>1, <1>2, InitTyped, InitPlaced, PTL DEF Spec

\* One command after another, and wherever each was cut, a command on a run's PATH
\* never runs another tool than the one recorded as its holder.
THEOREM CommandsAreTheirHolders ==
    ASSUME Solo
    PROVE  Spec => []CommandsMeanOneTool
  <1>1. OneByOne => CommandsMeanOneTool
    BY DEF OneByOne
  <1> QED
    BY <1>1, SoloInvariant, PTL

-----------------------------------------------------------------------------
(***************************************************************************)
(* What a step may take from the profile, from the same invariant: a step  *)
(* that changes a record or a tree is about a package that is not recorded,*)
(* or belongs to a command that may.                                       *)
(***************************************************************************)
\* The trees and the records a step changes.
LEMMA OnlyTheseChangeTrees ==
    ASSUME NEW c \in Processes, Begins(c) \/ Proceeds(c) \/ StepFails(c) \/ Killed(c)
    PROVE  \/ UNCHANGED tree
           \/ FetchPackage(c) \/ PlaceTree(c) \/ Unclaim(c) \/ RemovePackage(c) \/ EmptyProfile(c)
  BY DEF Begins, BeginInstall, BeginUpdate, BeginRestore, BeginRemove, BeginReset,
         Proceeds, NextUpdate, NextRestore, ListIsDone, ReadTools, ClaimTool,
         LinkBinaries, LinkIsRefused, SwapLinks, WriteRecord, ClearExtensions, ClearTools,
         StepFails, Killed

LEMMA OnlyTheseChangeRecords ==
    ASSUME NEW c \in Processes, Begins(c) \/ Proceeds(c) \/ StepFails(c) \/ Killed(c)
    PROVE  UNCHANGED record \/ WriteRecord(c) \/ ClearExtensions(c) \/ ClearTools(c)
  BY DEF Begins, BeginInstall, BeginUpdate, BeginRestore, BeginRemove, BeginReset,
         Proceeds, NextUpdate, NextRestore, ListIsDone, ReadTools, ClaimTool,
         FetchPackage, PlaceTree, Unclaim, RemovePackage, EmptyProfile,
         LinkBinaries, LinkIsRefused, SwapLinks, StepFails, Killed

LEMMA TreesGoForReleases ==
    ASSUME Typed, OneByOne, NEW c \in Processes,
           Begins(c) \/ Proceeds(c) \/ StepFails(c) \/ Killed(c),
           NEW p \in Extensions, Installed(record, p), tree[p] # Nil, tree'[p] = Nil
    PROVE  At(c, "fetch") /\ cmd[c].package = p
  <1> DEFINE s == cmd[c]
  <1>1. /\ Formed(s) /\ Placed(s, record, bin) /\ tree \in [Packages -> ReleaseOrNil]
        /\ p \in Packages \ Tools
    BY CmdOf, PackagesAssumption DEF OneByOne, Typed, TypeOK, Packages
  <1>2. CASE UNCHANGED tree
    BY <1>2
  <1>3. CASE FetchPackage(c)
    BY <1>1, <1>3 DEF FetchPackage
  <1>4. CASE PlaceTree(c)
    <2>1. s.release # Nil
      BY <1>1, <1>4, NilAssumption DEF PlaceTree, At, Formed, Nil
    <2> QED
      BY <1>1, <1>4, <2>1 DEF PlaceTree
  <1>5. CASE Unclaim(c)
    <2>1. s.package \in Tools
      BY <1>1, <1>5 DEF Unclaim, At, Placed, Knows
    <2> QED
      BY <1>1, <1>5, <2>1 DEF Unclaim
  <1>6. CASE RemovePackage(c)
    <2>1. record[s.package] = Absent
      BY <1>1, <1>6 DEF RemovePackage, At, Placed, Removes
    <2> QED
      BY <1>1, <1>6, <2>1 DEF RemovePackage, Installed
  <1>7. CASE EmptyProfile(c)
    <2>1. record = Nothing
      BY <1>1, <1>7 DEF EmptyProfile, At, Placed, Removes
    <2> QED
      BY <1>1, <2>1 DEF Installed, Nothing
  <1> QED
    BY <1>2, <1>3, <1>4, <1>5, <1>6, <1>7, OnlyTheseChangeTrees

\* A record about an extension is written once its tree is in place.
PlacedFirst ==
    \A c \in Processes :
        (At(c, "record") /\ cmd[c].package \in Extensions /\ cmd[c].op # "remove")
        => tree[cmd[c].package] # Nil

\* Where the helpers of an action leave a command.
LEMMA LeavesAt ==
    ASSUME NEW s \in Process
    PROVE  /\ \A pc : Goto(s, pc).pc = pc
           /\ \A p, v : Fetching(s, p, v).pc = "fetch"
           /\ Through(s).pc # "record"
           /\ AfterFailure(s).pc # "record"
           /\ Idle.pc = "idle"
  <1>1. /\ \A pc : Goto(s, pc).pc = pc
        /\ \A p, v : Fetching(s, p, v).pc = "fetch"
        /\ Idle.pc = "idle"
    BY DEF Goto, Fetching, Process, Idle
  <1>2. Through(s).pc # "record"
    BY <1>1 DEF Through, Process
  <1> QED
    BY <1>1, <1>2 DEF AfterFailure

\* A command is about to write a record only from these three steps.
LEMMA OnlyTheseCommit ==
    ASSUME Typed, OneByOne, NEW c \in Processes,
           Begins(c) \/ Proceeds(c) \/ StepFails(c) \/ Killed(c),
           cmd'[c].pc = "record"
    PROVE  BeginRemove(c) \/ PlaceTree(c) \/ SwapLinks(c)
  <1> DEFINE s == cmd[c]
  <1>1. s \in Process /\ \A t : Becomes(c, t) => cmd'[c] = t
    BY CmdOf DEF Becomes, Typed, TypeOK
  <1>l. /\ \A pc : Goto(s, pc).pc = pc
        /\ \A p, v : Fetching(s, p, v).pc = "fetch"
        /\ Through(s).pc # "record" /\ AfterFailure(s).pc # "record" /\ Idle.pc = "idle"
    <2>1. s \in Process
      BY <1>1
    <2> HIDE DEF s
    <2> QED
      BY <2>1, LeavesAt
  <1>2. Idle \in Process
    BY IdleFormed DEF Formed
  <1>3. \A op : Reading(op) \in [op : {op}, pc : {"idle"}, todo : SUBSET Packages,
                 package : Packages \cup {Nil}, release : ReleaseOrNil, seen : {record}]
    BY <1>2 DEF Reading, Idle, Process
  <1>4. ~BeginInstall(c)
    <2> SUFFICES ASSUME NEW p, NEW v, Becomes(c, Fetching(Reading("install"), p, v)) PROVE FALSE
      BY DEF BeginInstall
    <2>1. Fetching(Reading("install"), p, v).pc = "fetch"
      BY <1>3 DEF Fetching
    <2> QED
      BY <1>1, <2>1
  <1>5. ~BeginUpdate(c) /\ ~BeginRestore(c) /\ ~BeginReset(c)
    <2>1. \A op, names : [Reading(op) EXCEPT !.pc = "next", !.todo = names].pc = "next"
      BY <1>3
    <2>2. [Idle EXCEPT !.op = "reset", !.pc = "clear extensions"].pc = "clear extensions"
      BY DEF Idle
    <2> QED
      BY <1>1, <2>1, <2>2 DEF BeginUpdate, BeginRestore, BeginReset
  <1>6. ~NextUpdate(c) /\ ~NextRestore(c)
    <2> DEFINE about(p) == [s EXCEPT !.package = p]
    <2>1. \A p \in s.todo : about(p) \in Process
      BY <1>1 DEF Process, Packages
    <2>2. \A p \in s.todo : /\ Through(about(p)).pc # "record"
                            /\ \A v : Fetching(about(p), p, v).pc = "fetch"
      <3> HIDE DEF about
      <3> QED
        BY <2>1, LeavesAt
    <2>3. ASSUME NextUpdate(c) PROVE FALSE
      <3>1. PICK p \in s.todo :
              \/ Becomes(c, Idle)
              \/ Becomes(c, Through(about(p)))
              \/ \E v \in Releases : Becomes(c, Fetching(about(p), p, v))
        BY <2>3 DEF NextUpdate
      <3> HIDE DEF about, s
      <3> QED
        BY <1>1, <1>l, <2>2, <3>1
    <2>4. ASSUME NextRestore(c) PROVE FALSE
      <3>1. PICK p \in s.todo, v \in Releases :
              \/ Becomes(c, Through(about(p)))
              \/ Becomes(c, Fetching(s, p, v))
        BY <2>4 DEF NextRestore
      <3> HIDE DEF about, s
      <3> QED
        BY <1>1, <1>l, <2>2, <3>1
    <2> QED
      BY <2>3, <2>4
  <1>7. ~ListIsDone(c) /\ ~ReadTools(c)
    <2>1. \A names : [Reading("restore tools") EXCEPT !.pc = "next", !.todo = names].pc = "next"
      BY <1>3
    <2>2. ~ListIsDone(c)
      BY <1>1, <1>l DEF ListIsDone
    <2>3. ~ReadTools(c)
      BY <1>1, <1>l, <2>1 DEF ReadTools
    <2> QED
      BY <2>2, <2>3
  <1>8. ~ClaimTool(c)
    <2>1. Claimed(s, Found(s.package)).pc = "link"
      BY <1>1 DEF Claimed, Process
    <2> QED
      BY <1>1, <1>l, <2>1 DEF ClaimTool
  <1>9. ~FetchPackage(c) /\ ~Unclaim(c) /\ ~LinkBinaries(c) /\ ~LinkIsRefused(c)
    BY <1>1, <1>l DEF FetchPackage, Unclaim, LinkBinaries, LinkIsRefused
  <1>10. ~WriteRecord(c) /\ ~RemovePackage(c)
    BY <1>1, <1>l DEF WriteRecord, RemovePackage
  <1>11. ~ClearExtensions(c) /\ ~ClearTools(c) /\ ~EmptyProfile(c)
    BY <1>1, <1>l DEF ClearExtensions, ClearTools, EmptyProfile
  <1>12. ~StepFails(c) /\ ~Killed(c)
    BY <1>1, <1>l DEF StepFails, Killed
  <1> QED
    BY <1>4, <1>5, <1>6, <1>7, <1>8, <1>9, <1>10, <1>11, <1>12 DEF Begins, Proceeds

LEMMA PlacedFirstStep ==
    Solo /\ Typed /\ OneByOne /\ PlacedFirst /\ [Next]_vars => PlacedFirst'
  <1> SUFFICES ASSUME Solo, Typed, OneByOne, PlacedFirst, [Next]_vars PROVE PlacedFirst'
    OBVIOUS
  <1>1. CASE UNCHANGED vars
    BY <1>1 DEF vars, PlacedFirst, At
  <1>2. ASSUME NEW c \in Processes, Begins(c) \/ Proceeds(c) \/ StepFails(c) \/ Killed(c)
        PROVE  PlacedFirst'
    <2> SUFFICES ASSUME cmd'[c].pc = "record", cmd'[c].package \in Extensions, cmd'[c].op # "remove"
                 PROVE  tree'[cmd'[c].package] # Nil
      BY DEF Solo, PlacedFirst, At
    <2> DEFINE s == cmd[c]
    <2>1. /\ s \in Process /\ Formed(s) /\ Placed(s, record, bin)
          /\ tree \in [Packages -> ReleaseOrNil]
          /\ \A t : Becomes(c, t) => cmd'[c] = t
      BY CmdOf DEF OneByOne, Typed, TypeOK, Becomes
    <2>2. CASE BeginRemove(c)
      <3>1. Reading("remove") \in [op : {"remove"}, pc : {"idle"}, todo : SUBSET Packages,
                 package : Packages \cup {Nil}, release : ReleaseOrNil, seen : {record}]
        BY IdleFormed DEF Reading, Idle, Formed, Process
      <3>2. cmd'[c].op = "remove"
        BY <2>1, <2>2, <3>1 DEF BeginRemove
      <3> QED
        BY <3>2
    <2>3. CASE PlaceTree(c)
      <3>1. s.pc = "place" /\ s.package \in Packages /\ s.release \in Releases /\ s.release # Nil
        BY <2>1, <2>3, NilAssumption DEF PlaceTree, At, Formed, Nil
      <3>2. tree'[s.package] = s.release
        BY <2>1, <2>3, <3>1 DEF PlaceTree
      <3>3. cmd'[c].package = s.package
        <4>1. Goto(s, "claim").package = s.package
          BY <2>1, GotoIs
        <4>2. \A pin : [s EXCEPT !.pc = "record", !.seen[s.package] = pin].package = s.package
          BY <2>1 DEF Process
        <4> QED
          BY <2>1, <2>3, <4>1, <4>2 DEF PlaceTree
      <3> QED
        BY <3>1, <3>2, <3>3
    <2>4. CASE SwapLinks(c)
      <3>1. s.pc = "swap" /\ s.op # "reset"
        BY <2>1, <2>4, LeavesAt DEF SwapLinks, At
      <3>2. s.package \in Tools
        BY <2>1, <3>1 DEF Placed, Knows
      <3>3. cmd'[c].package = s.package
        BY <2>1, <2>4, <3>1, GotoIs DEF SwapLinks
      <3> QED
        BY <3>2, <3>3, PackagesAssumption
    <2> QED
      BY <1>2, <2>2, <2>3, <2>4, OnlyTheseCommit
  <1> QED
    BY <1>1, <1>2 DEF Next

\* Only the move of a tree into its place, a failure and a kill follow the move of the
\* old one out of it.
LEMMA AfterTheMove ==
    ASSUME NEW c \in Processes, Begins(c) \/ Proceeds(c) \/ StepFails(c) \/ Killed(c),
           At(c, "place")
    PROVE  PlaceTree(c) \/ StepFails(c) \/ Killed(c)
  BY DEF At, Begins, BeginInstall, BeginUpdate, BeginRestore, BeginRemove, BeginReset,
         Proceeds, NextUpdate, NextRestore, ListIsDone, ReadTools, ClaimTool,
         FetchPackage, Unclaim, RemovePackage, EmptyProfile, WriteRecord,
         LinkBinaries, LinkIsRefused, SwapLinks, ClearExtensions, ClearTools

LEMMA AfterTheFetch ==
    ASSUME NEW c \in Processes, Begins(c) \/ Proceeds(c) \/ StepFails(c) \/ Killed(c),
           At(c, "fetch")
    PROVE  FetchPackage(c) \/ UNCHANGED tree
  BY DEF At, Begins, BeginInstall, BeginUpdate, BeginRestore, BeginRemove, BeginReset,
         Proceeds, NextUpdate, NextRestore, ListIsDone, ReadTools, ClaimTool,
         PlaceTree, Unclaim, RemovePackage, EmptyProfile, WriteRecord,
         LinkBinaries, LinkIsRefused, SwapLinks, ClearExtensions, ClearTools, StepFails, Killed

LEMMA LostInReplacement ==
    ASSUME Solo, Typed, OneByOne, PlacedFirst, NEW c \in Processes,
           Begins(c) \/ Proceeds(c) \/ StepFails(c) \/ Killed(c),
           NEW p \in Extensions, ThereOrReplaced(p), ~ThereOrReplaced(p)'
    PROVE  mishaps' > mishaps /\ Replacing(c, p)
  <1> DEFINE s == cmd[c]
  <1>1. /\ s \in Process /\ Formed(s) /\ Placed(s, record, bin)
        /\ tree \in [Packages -> ReleaseOrNil] /\ mishaps \in Nat
        /\ p \in Packages
        /\ \A t : Becomes(c, t) => cmd'[c] = t
    BY CmdOf DEF OneByOne, Typed, TypeOK, Packages, Becomes
  <1>2. record'[p] # Absent /\ tree'[p] = Nil /\ ~Replacing(c, p)'
    BY DEF ThereOrReplaced, Installed
  <1>3. CASE ~Installed(record, p)
    <2>1. WriteRecord(c)
      BY <1>2, <1>3, <1>1, OnlyTheseChangeRecords
      DEF Installed, ClearExtensions, ClearTools, Clears
    <2>2. s.pc = "record"
      BY <2>1 DEF WriteRecord, At
    <2>3. s.op # "reset" /\ \A q \in Packages \ {s.package} : s.seen[q] = record[q]
      BY <1>1, <2>2 DEF Placed, Knows, Remembers, Committing
    <2>4. s.package = p /\ s.seen[p] # Absent
      BY <1>1, <1>2, <1>3, <2>1, <2>3 DEF WriteRecord, Installed
    <2>5. s.op # "remove"
      BY <1>1, <2>2, <2>4 DEF Placed, Removes, Committing
    <2>6. tree[p] # Nil
      BY <2>2, <2>4, <2>5 DEF PlacedFirst, At
    <2> QED
      BY <1>2, <2>1, <2>6 DEF WriteRecord
  <1>4. CASE Installed(record, p) /\ tree[p] # Nil
    <2>1. At(c, "fetch") /\ s.package = p
      BY <1>2, <1>4, TreesGoForReleases
    <2>2. FetchPackage(c)
      BY <1>2, <1>4, <2>1, AfterTheFetch
    <2>3. cmd'[c].pc = "place" /\ cmd'[c].package = p
      BY <1>1, <2>1, <2>2, GotoIs DEF FetchPackage
    <2> QED
      BY <1>2, <2>3 DEF Replacing, At
  <1>5. CASE \E d \in Processes : Replacing(d, p)
    <2>1. At(c, "place") /\ s.package = p
      BY <1>5 DEF Solo, Replacing
    <2>2. ~PlaceTree(c)
      <3>1. s.release # Nil
        BY <1>1, <2>1, NilAssumption DEF At, Formed, Nil
      <3>2. PlaceTree(c) => tree'[p] = s.release
        BY <1>1, <2>1 DEF PlaceTree
      <3> QED
        BY <1>2, <3>1, <3>2
    <2>3. StepFails(c) \/ Killed(c)
      BY <2>1, <2>2, AfterTheMove
    <2>4. mishaps' = mishaps + 1
      BY <2>3 DEF StepFails, Killed, Mishap
    <2> QED
      BY <1>1, <2>1, <2>4 DEF Replacing
  <1> QED
    BY <1>3, <1>4, <1>5 DEF ThereOrReplaced

\* No extension the record names loses its tree, and none is recorded that has none,
\* but by a replacement that fails or dies between the renames that make it: every
\* record is written after its tree is in place, and goes before its tree does.
THEOREM PinnedExtensionsStay ==
    ASSUME Solo
    PROVE  Spec => PinnedTreesStay
  <1> DEFINE Kept ==
        \A p \in Extensions :
            (ThereOrReplaced(p) /\ ~ThereOrReplaced(p)')
            => mishaps' > mishaps /\ \E c \in Processes : Replacing(c, p)
  <1>1. Typed /\ OneByOne /\ PlacedFirst /\ [Next]_vars => [Kept]_vars
    <2> SUFFICES ASSUME Typed, OneByOne, PlacedFirst, Next, NEW p \in Extensions,
                        ThereOrReplaced(p), ~ThereOrReplaced(p)'
                 PROVE  mishaps' > mishaps /\ \E c \in Processes : Replacing(c, p)
      OBVIOUS
    <2> QED
      BY LostInReplacement DEF Next
  <1>2. Init => PlacedFirst
    BY DEF Init, PlacedFirst, At, Idle
  <1>3. Typed /\ OneByOne /\ PlacedFirst /\ [Next]_vars => PlacedFirst'
    BY PlacedFirstStep
  <1> QED
    BY <1>1, <1>2, <1>3, SoloInvariant, PTL DEF Spec, PinnedTreesStay

LEMMA ChangesAreAskedFor ==
    ASSUME Typed, OneByOne, NEW c \in Processes,
           Begins(c) \/ Proceeds(c) \/ StepFails(c) \/ Killed(c),
           NEW p \in Packages, Installed(record, p),
           record'[p] # record[p] \/ tree'[p] # tree[p]
    PROVE  cmd[c].op \notin {Nil, "restore extensions", "restore tools"}
  <1> DEFINE s == cmd[c]
  <1>1. Formed(s) /\ Placed(s, record, bin) /\ tree \in [Packages -> ReleaseOrNil]
    BY CmdOf DEF OneByOne, Typed, TypeOK
  <1>2. ASSUME s.pc \in (Installing \cup Committing) \ {"next"}, s.op # Nil, s.package = p
        PROVE  s.op \notin {Nil, "restore extensions", "restore tools"}
    BY <1>1, <1>2 DEF Placed, Adds, Restoring, Installed
  <1>3. s.pc \in Installing \cup Committing => s.op # Nil
    BY <1>1 DEF Placed, Knows
  <1>4. CASE UNCHANGED tree /\ UNCHANGED record
    BY <1>4
  <1>5. CASE FetchPackage(c)
    <2>1. s.pc = "fetch" /\ s.package = p
      BY <1>1, <1>5 DEF FetchPackage, At
    <2> QED
      BY <1>2, <1>3, <2>1 DEF Installing
  <1>6. CASE PlaceTree(c)
    <2>1. s.pc = "place" /\ s.package = p
      BY <1>1, <1>6 DEF PlaceTree, At
    <2> QED
      BY <1>2, <1>3, <2>1 DEF Installing
  <1>7. CASE Unclaim(c)
    <2>1. s.pc = "unclaim" /\ s.package = p
      BY <1>1, <1>7 DEF Unclaim, At
    <2> QED
      BY <1>2, <1>3, <2>1 DEF Installing
  <1>8. CASE RemovePackage(c)
    BY <1>1, <1>8 DEF RemovePackage, At, Placed, Removes, Nil
  <1>9. CASE EmptyProfile(c)
    BY <1>1, <1>9 DEF EmptyProfile, At, Placed, Knows, Clearing, Nil
  <1>10. CASE WriteRecord(c)
    <2>1. s.pc = "record"
      BY <1>10 DEF WriteRecord, At
    <2>2. s.op # "reset" /\ \A q \in Packages \ {s.package} : s.seen[q] = record[q]
      BY <1>1, <2>1 DEF Placed, Knows, Remembers, Committing
    <2>3. s.package = p
      BY <1>10, <2>2 DEF WriteRecord
    <2> QED
      BY <1>2, <1>3, <2>1, <2>3 DEF Committing
  <1>11. CASE ClearExtensions(c) \/ ClearTools(c)
    BY <1>1, <1>11 DEF ClearExtensions, ClearTools, At, Placed, Knows, Clearing, Nil
  <1> QED
    BY <1>4, <1>5, <1>6, <1>7, <1>8, <1>9, <1>10, <1>11, OnlyTheseChangeTrees,
       OnlyTheseChangeRecords

\* A restore only adds: what is recorded, and the tree of it, stay as they are
\* whatever fails in it.
THEOREM RestoresOnlyAdd ==
    ASSUME Solo
    PROVE  Spec => RestoreOnlyAdds
  <1> DEFINE Added == \A p \in Packages :
         (Installed(record, p) /\ <<record[p], tree[p]>>' # <<record[p], tree[p]>>)
         => \E c \in Processes : cmd[c].op \notin {Nil, "restore extensions", "restore tools"}
  <1>1. Typed /\ OneByOne /\ [Next]_vars => [Added]_vars
    <2> SUFFICES ASSUME Typed, OneByOne, Next, NEW p \in Packages, Installed(record, p),
                        <<record[p], tree[p]>>' # <<record[p], tree[p]>>
                 PROVE  \E c \in Processes :
                          cmd[c].op \notin {Nil, "restore extensions", "restore tools"}
      OBVIOUS
    <2>1. record'[p] # record[p] \/ tree'[p] # tree[p]
      OBVIOUS
    <2>2. PICK c \in Processes : Begins(c) \/ Proceeds(c) \/ StepFails(c) \/ Killed(c)
      BY DEF Next
    <2> QED
      BY <2>1, <2>2, ChangesAreAskedFor
  <1> QED
    BY <1>1, SoloInvariant, PTL DEF Spec, RestoreOnlyAdds
==============================================================================
