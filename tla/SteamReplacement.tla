--------------------------- MODULE SteamReplacement ---------------------------
(***************************************************************************)
(* SteamReplacementRunner.run: the installer builds a bundle beside        *)
(* Steam's copy of a game and swaps it in, keeping the original as `.bak'. *)
(* Each file operation is a step that may fail, the installer may be       *)
(* killed between any two, and two runs may overlap: the chooser's bulk    *)
(* pass and one game's own update do not exclude each other.               *)
(*                                                                         *)
(* A bundle is what it can be used for: Valve's original, an older install *)
(* of PopSilicon, or a new one being built, built, or made launchable by   *)
(* Steam.  A `mixed' bundle is one a second build wrote into after the     *)
(* first was made launchable: its Info.plist names the wrong executable.   *)
(***************************************************************************)
EXTENDS Integers, FiniteSets

CONSTANTS
  Runs,         \* runs of the installer on this installation
  Installed,    \* what may be at the target, with or without a backup
  MaxFaults,    \* BOUND: operations that fail
  MaxCrashes,   \* BOUND: times the installer is killed
  MaxStarts     \* BOUND: runs begun

ReplacementAssumption ==
  /\ Installed \subseteq {"original", "silicon"} \X {"none", "original"}
  /\ MaxFaults \in Nat /\ MaxCrashes \in Nat /\ MaxStarts \in Nat

Bundles == {"original", "silicon", "partial", "built", "ready", "mixed"}

VARIABLES
  fs,        \* what is at the target, .bak, and the two temporary paths
  pc,        \* where each run is
  local,     \* per run: what it saw at its start
  outcome,   \* history: per run, what it returned since the last one began
  faults, crashes, starts,
  overlapped \* history: a run was begun during another

counts == <<faults, crashes, starts>>
vars == <<fs, pc, local, outcome, counts, overlapped>>

NotBegun == [silicon |-> FALSE, backup |-> FALSE, before |-> "none", faults |-> 0]

Init ==
  /\ \E i \in Installed :
       fs = [target |-> i[1], backup |-> i[2], temporary |-> "none", previous |-> "none"]
  /\ pc = [r \in Runs |-> "idle"]
  /\ local = [r \in Runs |-> NotBegun]
  /\ outcome = [r \in Runs |-> "none"]
  /\ faults = 0 /\ crashes = 0 /\ starts = 0
  /\ overlapped = FALSE

Exists(path) == fs[path] # "none"
Goes(r, place) == pc' = [pc EXCEPT ![r] = place]
Returns(r, result) == Goes(r, "idle") /\ outcome' = [outcome EXCEPT ![r] = result]

\* An operation fails for a reason of its own: the disk, permissions, codesign.
Fault == faults < MaxFaults /\ faults' = faults + 1 /\ UNCHANGED <<crashes, starts>>

\* FileManager.moveItem never replaces what is at its destination.
CanMove(from, to) == Exists(from) /\ ~ Exists(to)
Moved(from, to) == [fs EXCEPT ![to] = fs[from], ![from] = "none"]

-----------------------------------------------------------------------------
\* What the run decides by is read once, before the build.
IsSilicon(bundle) == bundle \notin {"none", "original"}

\* InstallerModel starts one replacement at a time, and the bulk pass over the
\* installations that are PopSilicon's and have a backup; a replacement may be
\* started during the bulk pass.
MayBegin ==
  \A u \in Runs : pc[u] # "idle" => local[u].silicon /\ local[u].backup

Start(r) ==
  /\ pc[r] = "idle"
  /\ MayBegin
  /\ starts < MaxStarts
  /\ starts' = starts + 1
  /\ overlapped' = (overlapped \/ \E u \in Runs : pc[u] # "idle")
  /\ local' = [local EXCEPT ![r] =
       [silicon |-> IsSilicon(fs.target), backup |-> Exists("backup"),
        before |-> fs.target, faults |-> faults]]
  /\ outcome' = [u \in Runs |-> "none"]
  /\ Goes(r, "check")
  /\ UNCHANGED <<fs, faults, crashes>>

\* The guard on the backup, and the one on leftovers of an earlier run.
Refused(r) ==
  \/ ~ local[r].silicon /\ local[r].backup
  \/ Exists("temporary") \/ Exists("previous")

Check(r) ==
  /\ pc[r] = "check"
  /\ \/ Refused(r) /\ Returns(r, "refused")
     \/ ~ Refused(r) /\ Goes(r, "build") /\ UNCHANGED outcome
  /\ UNCHANGED <<fs, local, counts, overlapped>>

\* Building into a bundle that is there already keeps what is in it: one made
\* launchable gets the build's own Info.plist and executable back beside the
\* renamed ones, once the build writes them.
Written(bundle) ==
  CASE bundle = "none" -> {"partial"}
    [] bundle = "ready" -> {"ready", "mixed"}
    [] OTHER -> {bundle}

\* tools/build.py makes the bundle's directories long before it can fail.
BuildStarts(r) ==
  /\ pc[r] = "build"
  /\ \E bundle \in Written(fs.temporary) : fs' = [fs EXCEPT !.temporary = bundle]
  /\ Goes(r, "building")
  /\ UNCHANGED <<local, outcome, counts, overlapped>>

BuildEnds(r) ==
  /\ pc[r] = "building"
  /\ Exists("temporary")
  /\ fs' = [fs EXCEPT !.temporary = IF @ \in {"partial", "built"} THEN "built" ELSE "mixed"]
  /\ Goes(r, "compatible")
  /\ UNCHANGED <<local, outcome, counts, overlapped>>

\* A failed build returns at once; what it wrote stays.
BuildFails(r) ==
  /\ pc[r] = "building"
  /\ \/ Fault
     \/ ~ Exists("temporary") /\ UNCHANGED counts
  /\ Returns(r, "failed")
  /\ UNCHANGED <<fs, local, overlapped>>

CompatibleUnchecked(r) ==
  /\ pc[r] = "compatible"
  /\ \/ /\ fs.temporary # "none"
        /\ fs' = [fs EXCEPT !.temporary = "ready"]
        /\ UNCHANGED counts
     \/ Fault /\ UNCHANGED fs
  /\ Goes(r, "aside")
  /\ UNCHANGED <<local, outcome, overlapped>>

\* makeSteamCompatible: rename the loader, rewrite Info.plist, sign.
Compatible(r) ==
  /\ pc[r] = "compatible"
  /\ \/ /\ fs.temporary = "built"
        /\ fs' = [fs EXCEPT !.temporary = "ready"]
        /\ Goes(r, "aside")
        /\ UNCHANGED counts
     \/ /\ \/ Fault
           \/ fs.temporary # "built" /\ UNCHANGED counts
        /\ Goes(r, "cleanup")
        /\ UNCHANGED fs
  /\ UNCHANGED <<local, outcome, overlapped>>

AlwaysBackup(r) == "backup"
Aside(r) == IF local[r].silicon THEN "previous" ELSE "backup"

MoveAsideByDeleting(r) ==
  /\ pc[r] = "aside"
  /\ fs' = [fs EXCEPT !.target = "none"]
  /\ Goes(r, "place")
  /\ UNCHANGED <<local, outcome, counts, overlapped>>

MoveAside(r) ==
  /\ pc[r] = "aside"
  /\ \/ /\ CanMove("target", Aside(r))
        /\ fs' = Moved("target", Aside(r))
        /\ Goes(r, "place")
        /\ UNCHANGED counts
     \/ /\ \/ Fault
           \/ ~ CanMove("target", Aside(r)) /\ UNCHANGED counts
        /\ Goes(r, "cleanup")
        /\ UNCHANGED fs
  /\ UNCHANGED <<local, outcome, overlapped>>

PlaceOrGiveUp(r) ==
  /\ pc[r] = "place"
  /\ \/ /\ CanMove("temporary", "target")
        /\ fs' = Moved("temporary", "target")
        /\ Goes(r, "finish")
        /\ UNCHANGED counts
     \/ /\ \/ Fault
           \/ ~ CanMove("temporary", "target") /\ UNCHANGED counts
        /\ Goes(r, "cleanup")
        /\ UNCHANGED fs
  /\ UNCHANGED <<local, outcome, overlapped>>

Place(r) ==
  /\ pc[r] = "place"
  /\ \/ /\ CanMove("temporary", "target")
        /\ fs' = Moved("temporary", "target")
        /\ Goes(r, "finish")
        /\ UNCHANGED counts
     \/ /\ \/ Fault
           \/ ~ CanMove("temporary", "target") /\ UNCHANGED counts
        /\ Goes(r, "restore")
        /\ UNCHANGED fs
  /\ UNCHANGED <<local, outcome, overlapped>>

Restore(r) ==
  /\ pc[r] = "restore"
  /\ \/ /\ CanMove(Aside(r), "target")
        /\ fs' = Moved(Aside(r), "target")
        /\ UNCHANGED counts
     \/ /\ \/ Fault
           \/ ~ CanMove(Aside(r), "target") /\ UNCHANGED counts
        /\ UNCHANGED fs
  /\ Goes(r, "cleanup")
  /\ UNCHANGED <<local, outcome, overlapped>>

RemovesAny(r) == {"previous", "backup"}
Removes(r) == IF local[r].silicon THEN {"previous"} ELSE {}

\* The previous install goes; failing to remove it is not an error.
Finish(r) ==
  /\ pc[r] = "finish"
  /\ \/ /\ fs' = [p \in DOMAIN fs |-> IF p \in Removes(r) THEN "none" ELSE fs[p]]
        /\ UNCHANGED counts
     \/ Fault /\ UNCHANGED fs
  /\ Returns(r, "succeeded")
  /\ UNCHANGED <<local, overlapped>>

Cleanup(r) ==
  /\ pc[r] = "cleanup"
  /\ \/ fs' = [fs EXCEPT !.temporary = "none"] /\ UNCHANGED counts
     \/ Fault /\ UNCHANGED fs
  /\ Returns(r, "failed")
  /\ UNCHANGED <<local, overlapped>>

\* The installer is killed or quits.
Crash ==
  /\ crashes < MaxCrashes
  /\ crashes' = crashes + 1
  /\ pc' = [r \in Runs |-> "idle"]
  /\ local' = [r \in Runs |-> NotBegun]
  /\ outcome' = [r \in Runs |-> "none"]
  /\ UNCHANGED <<fs, faults, starts, overlapped>>

-----------------------------------------------------------------------------
Run(r) ==
  \/ Start(r) \/ Check(r) \/ BuildStarts(r) \/ BuildEnds(r) \/ BuildFails(r) \/ Compatible(r)
  \/ MoveAside(r) \/ Place(r) \/ Restore(r) \/ Finish(r) \/ Cleanup(r)

Next == Crash \/ \E r \in Runs : Run(r)

Spec == Init /\ [][Next]_vars

-----------------------------------------------------------------------------
\* The type invariant: the four paths and the runs.  Unless two runs share the
\* temporary bundle, only one that has been made launchable by Steam and signed
\* is ever at the target or set aside.
TypeOK ==
  /\ DOMAIN fs = {"target", "backup", "temporary", "previous"}
  /\ \A p \in DOMAIN fs : fs[p] \in Bundles \cup {"none"}
  /\ overlapped \/ {fs.target, fs.backup, fs.previous} \subseteq
                     {"none", "original", "silicon", "ready"}
  /\ pc \in [Runs -> {"idle", "check", "build", "building", "compatible", "aside", "place",
                      "restore", "finish", "cleanup"}]
  /\ local \in [Runs -> [silicon : BOOLEAN, backup : BOOLEAN, before : Bundles \cup {"none"},
                         faults : 0 .. MaxFaults]]
  /\ outcome \in [Runs -> {"none", "refused", "failed", "succeeded"}]
  /\ overlapped \in BOOLEAN
  /\ faults \in 0 .. MaxFaults /\ crashes \in 0 .. MaxCrashes /\ starts \in 0 .. MaxStarts

Playable == {"original", "silicon", "ready"}

\* A playable bundle of the game is on disk at every moment, at the target or
\* set aside, whatever fails and wherever the installer is killed: it is never
\* only in the temporary bundle, which a later failure removes.
GameNeverLost == \E p \in {"target", "backup", "previous"} : fs[p] \in Playable

\* The backup is only ever Valve's original, "a target that is still Valve's copy
\* is renamed to .bak", never one of our own bundles, though whether the target
\* is Valve's is read before a build that takes minutes.
BackupIsOriginal == fs.backup \in {"none", "original"}

\* "keeping whatever backup exists": no step takes away or overwrites a backup,
\* but that a run puts back the one it made itself, when it cannot go on.
BackupKept ==
  [][Exists("backup") =>
       \/ fs'.backup = fs.backup
       \/ /\ fs'.target = fs.backup
          /\ \E r \in Runs : pc[r] = "restore" /\ ~ local[r].backup]_vars

\* A run that reports failure has left the target as it found it, unless a
\* second operation failed while the first was being undone or another run was at
\* work on the same game.
FailureRollsBack ==
  overlapped \/ \A r \in Runs :
    outcome[r] = "failed" /\ faults <= local[r].faults + 1 => fs.target = local[r].before

\* A run that reports success has put a launchable new bundle at the target and
\* left no half-made one beside it (again without another run).
SuccessInstalls ==
  overlapped \/ \A r \in Runs : outcome[r] = "succeeded" => fs.target = "ready" /\ ~ Exists("temporary")

\* Two runs that overlap, sharing both temporary paths, never leave the game
\* missing from where Steam starts it: whoever moved the target aside has put
\* a bundle back by the time both have returned.
TargetSurvivesOverlap ==
  faults = 0 /\ crashes = 0 /\ (\A r \in Runs : pc[r] = "idle") => Exists("target")

-----------------------------------------------------------------------------
(* Why they hold *)

Active(r) == pc[r] # "idle"
Swapping == {"place", "restore", "finish"}

\* A backup that a run found when it began is there while it works, as no other
\* run that would set the target aside to the backup can have begun.
BackupsStay ==
  /\ \A r \in Runs : Active(r) /\ local[r].backup => Exists("backup")
  /\ \A r \in Runs : Active(r) /\ ~ local[r].backup => \A u \in Runs \ {r} : ~ Active(u)

\* Past its check, a run replaces a bundle of ours or finds no backup.
ChecksPassed ==
  \A r \in Runs : pc[r] \notin {"idle", "check"} => local[r].silicon \/ ~ local[r].backup

\* One run at a time has set something aside, and it is there until the run puts
\* it back or is done; meanwhile nothing is at the target but what it places.
SwapsApart ==
  \A r \in Runs : pc[r] \in Swapping =>
    /\ Exists(Aside(r))
    /\ pc[r] # "finish" => ~ Exists("target")
    /\ \A u \in Runs \ {r} : pc[u] \notin Swapping

\* What a run that no other disturbs finds in each of its phases.
Undisturbed(r) == Active(r) /\ (~ overlapped \/ ~ local[r].backup)

TemporaryAt(place) ==
  CASE place = "build" -> "none" [] place = "building" -> "partial"
    [] place = "compatible" -> "built" [] OTHER -> "ready"

Undone(r) == fs.target = local[r].before \/ faults >= local[r].faults + 2

Progress ==
  \A r \in Runs : Undisturbed(r) =>
    /\ local[r].silicon = IsSilicon(local[r].before)
    /\ pc[r] \in {"build", "building", "compatible", "aside", "place"} =>
         fs.temporary = TemporaryAt(pc[r])
    /\ pc[r] \in {"check", "build", "building", "compatible", "aside"} =>
         fs.target = local[r].before
    /\ pc[r] \in {"place", "restore"} => fs[Aside(r)] = local[r].before
    /\ pc[r] = "restore" => faults > local[r].faults
    /\ pc[r] = "finish" => fs.target = "ready" /\ ~ Exists("temporary")
    /\ pc[r] = "cleanup" => Undone(r)

\* A run returns its outcome when no other is at work, if none has overlapped.
Outcomes ==
  overlapped \/ \A r \in Runs :
    /\ Active(r) => \A u \in Runs \ {r} : ~ Active(u)
    /\ outcome[r] # "none" => \A u \in Runs : ~ Active(u)

\* Only a run in the middle of its swap leaves nothing at the target, but for
\* faults and crashes.
TargetKept ==
  faults = 0 /\ crashes = 0 /\ ~ Exists("target") => \E r \in Runs : pc[r] \in {"place", "restore"}

FaultsCounted == \A r \in Runs : local[r].faults <= faults

ReplacementInv ==
  /\ TypeOK /\ FaultsCounted
  /\ BackupIsOriginal /\ GameNeverLost
  /\ BackupsStay /\ ChecksPassed /\ SwapsApart /\ Progress /\ Outcomes /\ TargetKept
  /\ FailureRollsBack /\ SuccessInstalls

=============================================================================
