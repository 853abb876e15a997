------------------------ MODULE SteamReplacementProofs ------------------------
(***************************************************************************)
(* Proofs about SteamReplacement, for any number of overlapping runs and   *)
(* any number of faults, crashes and starts: a playable bundle is always   *)
(* on disk, the backup is Valve's original and stays, a run's outcome says *)
(* what it left behind, and only faults and crashes leave nothing at the   *)
(* target.                                                                 *)
(***************************************************************************)
EXTENDS SteamReplacement, TLAPS

Paths == {"target", "backup", "temporary", "previous"}
Contents == Bundles \cup {"none"}
Places == {"idle", "check", "build", "building", "compatible", "aside", "place",
           "restore", "finish", "cleanup"}
Records == [silicon : BOOLEAN, backup : BOOLEAN, before : Contents, faults : 0 .. MaxFaults]

-----------------------------------------------------------------------------
(* Types *)

Typed ==
  /\ DOMAIN fs = Paths /\ \A p \in Paths : fs[p] \in Contents
  /\ pc \in [Runs -> Places]
  /\ local \in [Runs -> Records]
  /\ outcome \in [Runs -> {"none", "refused", "failed", "succeeded"}]
  /\ overlapped \in BOOLEAN
  /\ faults \in 0 .. MaxFaults /\ crashes \in 0 .. MaxCrashes /\ starts \in 0 .. MaxStarts

LEMMA TypeParts ==
  TypeOK <=> Typed /\ (overlapped \/ {fs.target, fs.backup, fs.previous} \subseteq
                                       {"none", "original", "silicon", "ready"})
BY DEF TypeOK, Typed, Paths, Contents, Places, Records

-----------------------------------------------------------------------------
(* What the steps change *)

\* Nothing is set aside to the target or to the bundle being built.
LEMMA AsidePath ==
  ASSUME NEW r
  PROVE  Aside(r) \in Paths \ {"target", "temporary"}
BY DEF Aside, Paths

\* A fault counts itself.
LEMMA FaultCounts ==
  ASSUME ReplacementAssumption, Typed, Fault \/ UNCHANGED counts
  PROVE  /\ faults' \in 0 .. MaxFaults /\ crashes' = crashes /\ starts' = starts
         /\ faults' >= faults /\ faults' <= faults + 1
         /\ Fault => faults' = faults + 1
BY DEF Fault, counts, Typed, ReplacementAssumption

\* The temporary bundle is written under one path.
LEMMA TemporaryMoves ==
  ASSUME Typed, NEW b \in Contents, fs' = [fs EXCEPT !.temporary = b]
  PROVE  /\ DOMAIN fs' = Paths /\ \A p \in Paths : fs'[p] \in Contents
         /\ fs'.temporary = b /\ fs'.target = fs.target
         /\ fs'.backup = fs.backup /\ fs'.previous = fs.previous
BY DEF Typed, Paths

LEMMA MovedMoves ==
  ASSUME Typed, NEW from \in Paths, NEW to \in Paths \ {from}, fs' = Moved(from, to)
  PROVE  /\ DOMAIN fs' = Paths
         /\ fs'[to] = fs[from] /\ fs'[from] = "none"
         /\ \A p \in Paths \ {from, to} : fs'[p] = fs[p]
BY DEF Typed, Moved, Paths

LEMMA MovedTyped ==
  ASSUME Typed, NEW from \in Paths, NEW to \in Paths \ {from}, fs' = Moved(from, to)
  PROVE  DOMAIN fs' = Paths /\ \A p \in Paths : fs'[p] \in Contents
BY DEF Typed, Moved, Paths, Contents

\* What each step of a run does to what is on disk.
LEMMA DiskMoves ==
  ASSUME Typed, NEW r \in Runs, Run(r)
  PROVE  DOMAIN fs' = Paths /\ \A p \in Paths : fs'[p] \in Contents
<1>1. CASE fs' = fs
  BY <1>1 DEF Typed
<1>2. ASSUME NEW b \in Contents, fs' = [fs EXCEPT !.temporary = b]
      PROVE  DOMAIN fs' = Paths /\ \A p \in Paths : fs'[p] \in Contents
  BY <1>2, TemporaryMoves
<1>3. ASSUME NEW from \in Paths, NEW to \in Paths \ {from}, fs' = Moved(from, to)
      PROVE  DOMAIN fs' = Paths /\ \A p \in Paths : fs'[p] \in Contents
  BY <1>3, MovedTyped
<1>4. fs.temporary \in Contents
  BY DEF Typed, Paths
<1>5. CASE BuildStarts(r)
  <2>1. Written(fs.temporary) \subseteq Contents
    BY <1>4 DEF Written, Contents, Bundles
  <2>2. QED
    BY <1>5, <1>2, <2>1 DEF BuildStarts
<1>6. CASE BuildEnds(r)
  BY <1>6, <1>2, <1>4 DEF BuildEnds, Contents, Bundles
<1>7. CASE Compatible(r)
  BY <1>7, <1>1, <1>2 DEF Compatible, Contents, Bundles
<1>8. CASE MoveAside(r)
  BY <1>8, <1>1, <1>3, AsidePath DEF MoveAside, Paths
<1>9. CASE Place(r)
  BY <1>9, <1>1, <1>3 DEF Place, Paths
<1>10. CASE Restore(r)
  BY <1>10, <1>1, <1>3, AsidePath DEF Restore, Paths
<1>11. CASE Finish(r)
  BY <1>11, <1>1 DEF Finish, Typed, Contents
<1>12. CASE Cleanup(r)
  BY <1>12, <1>1, <1>2 DEF Cleanup, Contents
<1>13. CASE Start(r) \/ Check(r) \/ BuildFails(r)
  BY <1>13, <1>1 DEF Start, Check, BuildFails
<1>14. QED
  BY <1>5, <1>6, <1>7, <1>8, <1>9, <1>10, <1>11, <1>12, <1>13 DEF Run

\* Every step of a run but its first keeps what the run saw, and moves the run.
LEMMA RunMoves ==
  ASSUME ReplacementAssumption, Typed, NEW r \in Runs, Run(r), ~ Start(r)
  PROVE  /\ local' = local /\ overlapped' = overlapped
         /\ Fault \/ UNCHANGED counts
         /\ Active(r)
         /\ \E x \in Places : Goes(r, x)
         /\ \/ outcome' = outcome /\ \E x \in Places \ {"idle"} : Goes(r, x)
            \/ \E x \in {"refused", "failed", "succeeded"} : Returns(r, x)
<1> USE DEF Places, Active, counts
<1>1. CASE Check(r)
  BY <1>1 DEF Check, Returns
<1>2. CASE BuildStarts(r)
  BY <1>2 DEF BuildStarts
<1>3. CASE BuildEnds(r)
  BY <1>3 DEF BuildEnds
<1>4. CASE BuildFails(r)
  BY <1>4 DEF BuildFails, Returns
<1>5. CASE Compatible(r)
  BY <1>5 DEF Compatible
<1>6. CASE MoveAside(r)
  BY <1>6 DEF MoveAside
<1>7. CASE Place(r)
  BY <1>7 DEF Place
<1>8. CASE Restore(r)
  BY <1>8 DEF Restore
<1>9. CASE Finish(r)
  BY <1>9 DEF Finish, Returns
<1>10. CASE Cleanup(r)
  BY <1>10 DEF Cleanup, Returns
<1>11. QED
  BY <1>1, <1>2, <1>3, <1>4, <1>5, <1>6, <1>7, <1>8, <1>9, <1>10 DEF Run

LEMMA TypedKept ==
  ASSUME ReplacementAssumption, Typed, Next
  PROVE  Typed'
<1>1. ASSUME NEW r \in Runs, Run(r), ~ Start(r)
      PROVE  Typed'
  <2>1. DOMAIN fs' = Paths /\ \A p \in Paths : fs'[p] \in Contents
    BY <1>1, DiskMoves
  <2>2. /\ faults' \in 0 .. MaxFaults /\ crashes' = crashes /\ starts' = starts
    BY <1>1, RunMoves, FaultCounts
  <2>3. pc' \in [Runs -> Places]
    BY <1>1, RunMoves DEF Typed, Goes
  <2>4. outcome' \in [Runs -> {"none", "refused", "failed", "succeeded"}]
    BY <1>1, RunMoves DEF Typed, Returns
  <2>5. QED
    BY <1>1, <2>1, <2>2, <2>3, <2>4, RunMoves DEF Typed
<1>2. ASSUME NEW r \in Runs, Start(r)
      PROVE  Typed'
  <2>1. DOMAIN fs' = Paths /\ \A p \in Paths : fs'[p] \in Contents
    BY <1>2 DEF Typed, Start
  <2>2. [silicon |-> IsSilicon(fs.target), backup |-> Exists("backup"),
         before |-> fs.target, faults |-> faults] \in Records
    <3>1. IsSilicon(fs.target) \in BOOLEAN /\ Exists("backup") \in BOOLEAN
      BY DEF IsSilicon, Exists
    <3>2. fs.target \in Contents /\ faults \in 0 .. MaxFaults
      BY DEF Typed, Paths
    <3>3. QED
      BY <3>1, <3>2 DEF Records
  <2>3. local' \in [Runs -> Records]
    BY <1>2, <2>2 DEF Typed, Start
  <2>4. pc' \in [Runs -> Places]
    BY <1>2 DEF Typed, Start, Goes, Places
  <2>5. outcome' \in [Runs -> {"none", "refused", "failed", "succeeded"}]
    BY <1>2 DEF Start
  <2>6. faults' \in 0 .. MaxFaults /\ crashes' \in 0 .. MaxCrashes /\ starts' \in 0 .. MaxStarts
    BY <1>2 DEF Typed, Start, ReplacementAssumption
  <2>7. overlapped' \in BOOLEAN
    BY <1>2 DEF Typed, Start
  <2>8. QED
    BY <2>1, <2>3, <2>4, <2>5, <2>6, <2>7 DEF Typed
<1>3. ASSUME Crash
      PROVE  Typed'
  <2>1. NotBegun \in Records
    BY DEF NotBegun, Records, Contents, ReplacementAssumption
  <2>2. crashes' \in 0 .. MaxCrashes
    BY <1>3 DEF Typed, Crash, ReplacementAssumption
  <2>3. QED
    BY <1>3, <2>1, <2>2 DEF Typed, Crash, Places
<1>4. QED
  BY <1>1, <1>2, <1>3 DEF Next

-----------------------------------------------------------------------------
(* Who is at work *)

\* The invariant with its types in a form the provers take.
Sound ==
  /\ Typed /\ FaultsCounted
  /\ BackupIsOriginal /\ GameNeverLost
  /\ BackupsStay /\ ChecksPassed /\ SwapsApart /\ Progress /\ Outcomes /\ TargetKept
  /\ FailureRollsBack /\ SuccessInstalls

\* An undisturbed run is the only one at work.
LEMMA UndisturbedAlone ==
  ASSUME Sound, NEW r \in Runs, NEW u \in Runs, Active(r), Undisturbed(u)
  PROVE  u = r
BY DEF Sound, BackupsStay, Outcomes, Undisturbed

\* A step leaves the other runs where they are.
LEMMA OthersStay ==
  ASSUME ReplacementAssumption, Sound, NEW r \in Runs, Run(r), ~ Start(r)
  PROVE  /\ local' = local /\ overlapped' = overlapped
         /\ Active(r) /\ \A u \in Runs \ {r} : pc'[u] = pc[u]
         /\ \A u \in Runs : Active(u)' => Active(u)
         /\ \A u \in Runs : Undisturbed(u)' => u = r /\ Undisturbed(r)
<1>1. /\ local' = local /\ overlapped' = overlapped
      /\ Active(r) /\ \A u \in Runs \ {r} : pc'[u] = pc[u]
  BY RunMoves DEF Sound, Typed, Goes
<1>2. \A u \in Runs : Active(u)' => Active(u)
  BY <1>1 DEF Active
<1>3. \A u \in Runs : Undisturbed(u)' => Undisturbed(u)
  BY <1>1, <1>2 DEF Undisturbed
<1>4. QED
  BY <1>1, <1>2, <1>3, UndisturbedAlone

LEMMA FaultsKept ==
  ASSUME ReplacementAssumption, Sound, NEW r \in Runs, Run(r), ~ Start(r)
  PROVE  FaultsCounted'
<1>1. \A u \in Runs : local[u].faults \in 0 .. MaxFaults /\ local[u].faults <= faults
  BY DEF Sound, Typed, Records, FaultsCounted
<1>2. faults' \in Nat /\ faults \in Nat /\ faults' >= faults /\ MaxFaults \in Nat
  BY RunMoves, FaultCounts DEF Sound, Typed, ReplacementAssumption
<1>3. QED
  BY <1>1, <1>2, RunMoves DEF Sound, FaultsCounted

\* Only a run that found no backup may touch one.
LEMMA BackupsKept ==
  ASSUME ReplacementAssumption, Sound, NEW r \in Runs, Run(r), ~ Start(r),
         fs'.backup = fs.backup \/ ~ local[r].backup
  PROVE  BackupsStay'
<1>1. ASSUME NEW u \in Runs, Active(u)', local'[u].backup
      PROVE  Exists("backup")'
  <2>1. Active(u) /\ local[u].backup
    BY <1>1, OthersStay
  <2>2. CASE fs'.backup = fs.backup
    BY <2>1, <2>2 DEF Sound, BackupsStay, Exists
  <2>3. CASE ~ local[r].backup
    BY <2>1, <2>3, OthersStay DEF Sound, BackupsStay
  <2>4. QED
    BY <2>2, <2>3
<1>2. ASSUME NEW u \in Runs, Active(u)', ~ local'[u].backup, NEW v \in Runs \ {u}
      PROVE  ~ Active(v)'
  BY <1>2, OthersStay DEF Sound, BackupsStay
<1>3. QED
  BY <1>1, <1>2 DEF BackupsStay

LEMMA ChecksKept ==
  ASSUME ReplacementAssumption, Sound, NEW r \in Runs, Run(r), ~ Start(r)
  PROVE  ChecksPassed'
<1>1. CASE Check(r)
  <2>1. pc'[r] \notin {"idle", "check"} => local[r].silicon \/ ~ local[r].backup
    BY <1>1 DEF Check, Refused, Returns, Goes, Sound, Typed
  <2>2. QED
    BY <2>1, OthersStay DEF ChecksPassed, Sound
<1>2. CASE ~ Check(r)
  <2>1. pc[r] \notin {"idle", "check"}
    BY <1>2 DEF Run, BuildStarts, BuildEnds, BuildFails, Compatible, MoveAside, Place,
                Restore, Finish, Cleanup
  <2>2. QED
    BY <2>1, OthersStay DEF ChecksPassed, Sound
<1>3. QED
  BY <1>1, <1>2

\* An outcome is told when nothing is at work, and says what it should.
LEMMA OutcomesKept ==
  ASSUME ReplacementAssumption, Sound, NEW r \in Runs, Run(r), ~ Start(r),
         ~ overlapped /\ outcome'[r] = "failed" /\ Returns(r, "failed") =>
           (faults' <= local[r].faults + 1 => fs'.target = local[r].before),
         ~ overlapped /\ outcome'[r] = "succeeded" /\ Returns(r, "succeeded") =>
           fs'.target = "ready" /\ ~ Exists("temporary")'
  PROVE  Outcomes' /\ FailureRollsBack' /\ SuccessInstalls'
<1>1. CASE overlapped
  BY <1>1, OthersStay DEF Outcomes, FailureRollsBack, SuccessInstalls
<1>2. CASE ~ overlapped
  <2>1. \A u \in Runs : outcome[u] = "none"
    BY <1>2, OthersStay DEF Sound, Outcomes
  <2>2. \A u \in Runs \ {r} : ~ Active(u) /\ ~ Active(u)'
    BY <1>2, OthersStay DEF Sound, Outcomes
  <2>3. CASE outcome' = outcome
    BY <2>1, <2>2, <2>3 DEF Outcomes, FailureRollsBack, SuccessInstalls
  <2>4. ASSUME NEW x \in {"refused", "failed", "succeeded"}, Returns(r, x)
        PROVE  Outcomes' /\ FailureRollsBack' /\ SuccessInstalls'
    <3>1. /\ pc'[r] = "idle" /\ outcome'[r] = x
          /\ \A u \in Runs \ {r} : outcome'[u] = "none"
      BY <2>1, <2>4 DEF Returns, Goes, Sound, Typed
    <3>2. Outcomes'
      BY <2>2, <3>1 DEF Outcomes, Active
    <3>3. FailureRollsBack'
      BY <1>2, <2>4, <3>1, OthersStay DEF FailureRollsBack
    <3>4. SuccessInstalls'
      BY <1>2, <2>4, <3>1, OthersStay DEF SuccessInstalls
    <3>5. QED
      BY <3>2, <3>3, <3>4
  <2>5. QED
    BY <2>3, <2>4, RunMoves DEF Sound
<1>3. QED
  BY <1>1, <1>2

\* A run that swaps nothing leaves the swaps as they were.
LEMMA SwapsKept ==
  ASSUME ReplacementAssumption, Sound, NEW r \in Runs, Run(r), ~ Start(r),
         fs'.target = fs.target, fs'.backup = fs.backup, fs'.previous = fs.previous,
         pc[r] \notin Swapping, pc'[r] \notin Swapping
  PROVE  /\ SwapsApart' /\ TargetKept'
         /\ BackupIsOriginal' /\ GameNeverLost'
<1>1. \A u \in Runs : Aside(u)' = Aside(u)
  BY OthersStay DEF Aside
<1>2. \A u \in Runs : pc'[u] \in Swapping => pc'[u] = pc[u]
  BY OthersStay
<1>3. \A u \in Runs : Exists(Aside(u))' = Exists(Aside(u))
  BY <1>1 DEF Exists, Aside
<1>4. Exists("target")' = Exists("target")
  BY DEF Exists
<1>5. SwapsApart'
  BY <1>2, <1>3, <1>4 DEF SwapsApart, Sound
<1>6. TargetKept'
  <2>1. faults' = 0 /\ crashes' = 0 => faults = 0 /\ crashes = 0
    BY RunMoves, FaultCounts DEF Sound, Typed, ReplacementAssumption
  <2>2. \A u \in Runs : pc[u] \in {"place", "restore"} => pc'[u] = pc[u]
    BY OthersStay DEF Swapping
  <2>3. QED
    BY <1>4, <2>1, <2>2 DEF TargetKept, Sound
<1>7. BackupIsOriginal' /\ GameNeverLost'
  BY DEF Sound, BackupIsOriginal, GameNeverLost
<1>8. QED
  BY <1>5, <1>6, <1>7

-----------------------------------------------------------------------------
(* The steps *)

\* An undisturbed run's progress is its own.
LEMMA ProgressKept ==
  ASSUME ReplacementAssumption, Sound, NEW r \in Runs, Run(r), ~ Start(r),
         Undisturbed(r) /\ Active(r)' =>
           /\ pc'[r] \in {"build", "building", "compatible", "aside", "place"} =>
                fs'.temporary = TemporaryAt(pc'[r])
           /\ pc'[r] \in {"check", "build", "building", "compatible", "aside"} =>
                fs'.target = local[r].before
           /\ pc'[r] \in {"place", "restore"} => fs'[Aside(r)] = local[r].before
           /\ pc'[r] = "restore" => faults' > local[r].faults
           /\ pc'[r] = "finish" => fs'.target = "ready" /\ ~ Exists("temporary")'
           /\ pc'[r] = "cleanup" =>
                fs'.target = local[r].before \/ faults' >= local[r].faults + 2
  PROVE  Progress'
<1> SUFFICES ASSUME NEW u \in Runs, Undisturbed(u)'
             PROVE  /\ local'[u].silicon = IsSilicon(local'[u].before)
                    /\ pc'[u] \in {"build", "building", "compatible", "aside", "place"} =>
                         fs'.temporary = TemporaryAt(pc'[u])
                    /\ pc'[u] \in {"check", "build", "building", "compatible", "aside"} =>
                         fs'.target = local'[u].before
                    /\ pc'[u] \in {"place", "restore"} => fs'[Aside(u)'] = local'[u].before
                    /\ pc'[u] = "restore" => faults' > local'[u].faults
                    /\ pc'[u] = "finish" => fs'.target = "ready" /\ ~ Exists("temporary")'
                    /\ pc'[u] = "cleanup" => Undone(u)'
  BY DEF Progress
<1>1. u = r /\ Undisturbed(r) /\ local' = local /\ Aside(r)' = Aside(r) /\ Active(r)'
  BY OthersStay DEF Aside, Undisturbed
<1>2. local[r].silicon = IsSilicon(local[r].before)
  BY <1>1 DEF Sound, Progress
<1>3. QED
  BY <1>1, <1>2 DEF Undone

\* The step leaves every conjunct as it should but those it is told.
LEMMA QuietStep ==
  ASSUME ReplacementAssumption, Sound, NEW r \in Runs, Run(r), ~ Start(r),
         fs'.target = fs.target, fs'.backup = fs.backup, fs'.previous = fs.previous,
         pc[r] \notin Swapping, pc'[r] \notin Swapping,
         Progress', Outcomes' /\ FailureRollsBack' /\ SuccessInstalls'
  PROVE  Sound'
<1>1. Typed'
  BY TypedKept DEF Sound, Next
<1>2. QED
  BY <1>1, FaultsKept, BackupsKept, ChecksKept, SwapsKept DEF Sound

LEMMA CheckKeeps ==
  ASSUME ReplacementAssumption, Sound, NEW r \in Runs, Check(r)
  PROVE  Sound'
<1>1. Run(r) /\ ~ Start(r) /\ pc[r] = "check" /\ fs' = fs
  BY DEF Run, Check, Start
<1>2. pc'[r] \in {"idle", "build"} /\ (pc'[r] = "build" => ~ Refused(r))
  BY DEF Check, Returns, Goes, Sound, Typed
<1>3. outcome'[r] \notin {"failed", "succeeded"}
        \/ (~ Returns(r, "failed") /\ ~ Returns(r, "succeeded"))
  BY DEF Check, Returns, Goes, Sound, Typed
<1>4. Outcomes' /\ FailureRollsBack' /\ SuccessInstalls'
  BY <1>1, <1>3, OutcomesKept
<1>5. Progress'
  <2>1. Undisturbed(r) => fs.target = local[r].before
    BY <1>1 DEF Sound, Progress
  <2>2. pc'[r] = "build" => fs'.temporary = TemporaryAt(pc'[r])
    BY <1>1, <1>2 DEF Refused, Exists, TemporaryAt
  <2>3. QED
    BY <1>1, <1>2, <2>1, <2>2, ProgressKept DEF Active
<1>6. QED
  BY <1>1, <1>2, <1>4, <1>5, QuietStep DEF Swapping

\* A step that goes on returns nothing.
LEMMA GoingOn ==
  ASSUME ReplacementAssumption, Sound, NEW r \in Runs, Run(r), ~ Start(r),
         pc'[r] # "idle"
  PROVE  Outcomes' /\ FailureRollsBack' /\ SuccessInstalls'
<1>1. ~ Returns(r, "failed") /\ ~ Returns(r, "succeeded")
  BY DEF Returns, Goes, Sound, Typed
<1>2. QED
  BY <1>1, OutcomesKept

LEMMA BuildStartsKeeps ==
  ASSUME ReplacementAssumption, Sound, NEW r \in Runs, BuildStarts(r)
  PROVE  Sound'
<1>1. Run(r) /\ ~ Start(r) /\ pc[r] = "build" /\ pc'[r] = "building"
  BY DEF Run, BuildStarts, Start, Goes, Sound, Typed
<1>2. PICK bundle \in Written(fs.temporary) : fs' = [fs EXCEPT !.temporary = bundle]
  BY DEF BuildStarts
<1>3. bundle \in Contents /\ (fs.temporary = "none" => bundle = "partial")
  <2>1. fs.temporary \in Contents
    BY DEF Sound, Typed, Paths
  <2>2. QED
    BY <2>1 DEF Written, Contents, Bundles
<1>4. /\ fs'.temporary = bundle /\ fs'.target = fs.target
      /\ fs'.backup = fs.backup /\ fs'.previous = fs.previous
  BY <1>2, <1>3, TemporaryMoves DEF Sound
<1>5. Undisturbed(r) => fs.target = local[r].before /\ fs.temporary = "none"
  BY <1>1 DEF Sound, Progress, TemporaryAt
<1>6. Progress'
  BY <1>1, <1>3, <1>4, <1>5, ProgressKept DEF TemporaryAt
<1>7. Outcomes' /\ FailureRollsBack' /\ SuccessInstalls'
  BY <1>1, GoingOn
<1>8. QED
  BY <1>1, <1>4, <1>6, <1>7, QuietStep DEF Swapping

LEMMA BuildEndsKeeps ==
  ASSUME ReplacementAssumption, Sound, NEW r \in Runs, BuildEnds(r)
  PROVE  Sound'
<1>1. Run(r) /\ ~ Start(r) /\ pc[r] = "building" /\ pc'[r] = "compatible"
  BY DEF Run, BuildEnds, Start, Goes, Sound, Typed
<1> DEFINE bundle == IF fs.temporary \in {"partial", "built"} THEN "built" ELSE "mixed"
<1>2. bundle \in Contents /\ fs' = [fs EXCEPT !.temporary = bundle]
  BY DEF BuildEnds, Contents, Bundles
<1>3. /\ fs'.temporary = bundle /\ fs'.target = fs.target
      /\ fs'.backup = fs.backup /\ fs'.previous = fs.previous
  BY <1>2, TemporaryMoves DEF Sound
<1>4. Undisturbed(r) => fs.target = local[r].before /\ fs.temporary = "partial"
  BY <1>1 DEF Sound, Progress, TemporaryAt
<1>5. Progress'
  BY <1>1, <1>3, <1>4, ProgressKept DEF TemporaryAt
<1>6. Outcomes' /\ FailureRollsBack' /\ SuccessInstalls'
  BY <1>1, GoingOn
<1>7. QED
  BY <1>1, <1>3, <1>5, <1>6, QuietStep DEF Swapping

LEMMA BuildFailsKeeps ==
  ASSUME ReplacementAssumption, Sound, NEW r \in Runs, BuildFails(r)
  PROVE  Sound'
<1>1. Run(r) /\ ~ Start(r) /\ pc[r] = "building" /\ pc'[r] = "idle" /\ fs' = fs
  BY DEF Run, BuildFails, Start, Goes, Returns, Sound, Typed
<1>2. Returns(r, "failed") /\ outcome'[r] = "failed"
  BY DEF BuildFails, Returns, Sound, Typed
<1>3. ~ overlapped => fs.target = local[r].before
  BY <1>1 DEF Sound, Progress, Undisturbed, Active
<1>4. Outcomes' /\ FailureRollsBack' /\ SuccessInstalls'
  BY <1>1, <1>2, <1>3, OutcomesKept
<1>5. Progress'
  BY <1>1, ProgressKept DEF Active
<1>6. QED
  BY <1>1, <1>4, <1>5, QuietStep DEF Swapping

LEMMA CompatibleKeeps ==
  ASSUME ReplacementAssumption, Sound, NEW r \in Runs, Compatible(r)
  PROVE  Sound'
<1>1. Run(r) /\ ~ Start(r) /\ pc[r] = "compatible" /\ pc'[r] \in {"aside", "cleanup"}
  BY DEF Run, Compatible, Start, Goes, Sound, Typed
<1>2. /\ fs'.target = fs.target /\ fs'.backup = fs.backup /\ fs'.previous = fs.previous
      /\ pc'[r] = "aside" => fs'.temporary = "ready"
  <2>1. CASE fs' = fs /\ pc'[r] # "aside"
    BY <2>1
  <2>2. CASE fs' = [fs EXCEPT !.temporary = "ready"]
    BY <2>2, TemporaryMoves DEF Sound, Contents, Bundles
  <2>3. QED
    BY <2>1, <2>2 DEF Compatible, Goes, Sound, Typed
<1>3. Undisturbed(r) => fs.target = local[r].before
  BY <1>1 DEF Sound, Progress
<1>4. Progress'
  BY <1>1, <1>2, <1>3, ProgressKept DEF TemporaryAt
<1>5. Outcomes' /\ FailureRollsBack' /\ SuccessInstalls'
  BY <1>1, GoingOn
<1>6. QED
  BY <1>1, <1>2, <1>4, <1>5, QuietStep DEF Swapping

LEMMA CleanupKeeps ==
  ASSUME ReplacementAssumption, Sound, NEW r \in Runs, Cleanup(r)
  PROVE  Sound'
<1>1. Run(r) /\ ~ Start(r) /\ pc[r] = "cleanup" /\ pc'[r] = "idle"
  BY DEF Run, Cleanup, Start, Goes, Returns, Sound, Typed
<1>2. Returns(r, "failed") /\ outcome'[r] = "failed"
  BY DEF Cleanup, Returns, Sound, Typed
<1>3. fs'.target = fs.target /\ fs'.backup = fs.backup /\ fs'.previous = fs.previous
  <2>1. CASE fs' = fs
    BY <2>1
  <2>2. CASE fs' = [fs EXCEPT !.temporary = "none"]
    BY <2>2, TemporaryMoves DEF Sound, Contents
  <2>3. QED
    BY <2>1, <2>2 DEF Cleanup
<1>4. ~ overlapped => (faults' <= local[r].faults + 1 => fs.target = local[r].before)
  <2>1. /\ faults \in Nat /\ faults' \in Nat /\ faults' >= faults
        /\ local[r].faults \in Nat
    BY <1>1, RunMoves, FaultCounts DEF Sound, Typed, Records, ReplacementAssumption
  <2>2. ~ overlapped => Undone(r)
    BY <1>1 DEF Sound, Progress, Undisturbed, Active
  <2>3. QED
    BY <2>1, <2>2 DEF Undone
<1>5. Outcomes' /\ FailureRollsBack' /\ SuccessInstalls'
  BY <1>1, <1>2, <1>3, <1>4, OutcomesKept
<1>6. Progress'
  BY <1>1, ProgressKept DEF Active
<1>7. QED
  BY <1>1, <1>3, <1>5, <1>6, QuietStep DEF Swapping

\* A run that replaces Valve's copy found no backup, and is alone.
LEMMA FirstIsUndisturbed ==
  ASSUME Sound, NEW r \in Runs, pc[r] \notin {"idle", "check"}, ~ local[r].silicon
  PROVE  /\ ~ local[r].backup /\ Undisturbed(r) /\ Aside(r) = "backup"
         /\ \A u \in Runs \ {r} : ~ Active(u)
         /\ local[r].before \in {"none", "original"}
<1>1. ~ local[r].backup
  BY DEF Sound, ChecksPassed
<1>2. Undisturbed(r) /\ \A u \in Runs \ {r} : ~ Active(u)
  BY <1>1 DEF Sound, BackupsStay, Undisturbed, Active
<1>3. ~ IsSilicon(local[r].before)
  BY <1>2 DEF Sound, Progress
<1>4. QED
  BY <1>1, <1>2, <1>3 DEF IsSilicon, Aside

\* The conjuncts that any step of a run keeps once these are kept.
LEMMA SwapStep ==
  ASSUME ReplacementAssumption, Sound, NEW r \in Runs, Run(r), ~ Start(r),
         fs'.backup = fs.backup \/ ~ local[r].backup,
         BackupIsOriginal', GameNeverLost', SwapsApart', TargetKept',
         Progress', Outcomes' /\ FailureRollsBack' /\ SuccessInstalls'
  PROVE  Sound'
<1>1. Typed'
  BY TypedKept DEF Sound, Next
<1>2. QED
  BY <1>1, FaultsKept, BackupsKept, ChecksKept DEF Sound

LEMMA MoveAsideKeeps ==
  ASSUME ReplacementAssumption, Sound, NEW r \in Runs, MoveAside(r)
  PROVE  Sound'
<1>1. Run(r) /\ ~ Start(r) /\ pc[r] = "aside" /\ pc'[r] \in {"place", "cleanup"}
  BY DEF Run, MoveAside, Start, Goes, Sound, Typed
<1>2. Outcomes' /\ FailureRollsBack' /\ SuccessInstalls'
  BY <1>1, GoingOn
<1>3. Undisturbed(r) => fs.target = local[r].before /\ fs.temporary = "ready"
  BY <1>1 DEF Sound, Progress, TemporaryAt
<1>4. CASE fs' = fs /\ pc'[r] = "cleanup"
  <2>1. Progress'
    BY <1>1, <1>3, <1>4, ProgressKept
  <2>2. QED
    BY <1>1, <1>2, <1>4, <2>1, QuietStep DEF Swapping
<1>5. CASE CanMove("target", Aside(r)) /\ fs' = Moved("target", Aside(r)) /\ pc'[r] = "place"
  <2>1. /\ fs'[Aside(r)] = fs.target /\ fs'.target = "none"
        /\ \A p \in Paths \ {"target", Aside(r)} : fs'[p] = fs[p]
        /\ fs.target # "none" /\ fs[Aside(r)] = "none"
    <3>1. "target" \in Paths /\ Aside(r) \in Paths \ {"target"}
      BY AsidePath DEF Paths
    <3>2. QED
      BY <1>5, <3>1, MovedMoves DEF CanMove, Exists, Sound
  <2>2. /\ local[r].silicon => /\ Aside(r) = "previous" /\ fs'.backup = fs.backup
                               /\ fs'.previous = fs.target /\ fs.previous = "none"
        /\ ~ local[r].silicon => fs'.backup = "original"
    <3>1. CASE local[r].silicon
      BY <2>1, <3>1 DEF Aside, Paths
    <3>2. CASE ~ local[r].silicon
      BY <1>1, <1>3, <2>1, <3>2, FirstIsUndisturbed
    <3>3. QED
      BY <3>1, <3>2
  <2>3. BackupIsOriginal' /\ GameNeverLost'
    BY <2>1, <2>2 DEF Sound, BackupIsOriginal, GameNeverLost, Playable
  <2>4. \A u \in Runs \ {r} : pc[u] \notin Swapping
    <3> SUFFICES ASSUME NEW u \in Runs \ {r}, pc[u] \in Swapping
                 PROVE  FALSE
      OBVIOUS
    <3>1. Exists(Aside(u)) /\ pc[u] = "finish"
      BY <1>5 DEF Sound, SwapsApart, Swapping, CanMove
    <3>2. local[r].silicon /\ local[u].silicon
      BY <1>1, <3>1, FirstIsUndisturbed DEF Active
    <3>3. QED
      BY <2>1, <3>1, <3>2 DEF Aside, Exists
  <2>5. SwapsApart' /\ TargetKept'
    <3>1. \A u \in Runs \ {r} : pc'[u] \notin Swapping
      BY <1>1, <2>4, OthersStay
    <3>2. Aside(r)' = Aside(r)
      BY <1>1, OthersStay DEF Aside
    <3>3. Exists(Aside(r))' /\ ~ Exists("target")'
      BY <2>1, <3>2 DEF Exists
    <3>4. QED
      BY <1>5, <3>1, <3>3 DEF SwapsApart, TargetKept
  <2>6. Progress'
    <3>1. fs'.temporary = fs.temporary
      BY <2>1, AsidePath DEF Paths
    <3>2. QED
      BY <1>1, <1>3, <1>5, <2>1, <3>1, ProgressKept DEF TemporaryAt
  <2>7. fs'.backup = fs.backup \/ ~ local[r].backup
    BY <1>1, <2>2, FirstIsUndisturbed
  <2>8. QED
    BY <1>1, <1>2, <2>3, <2>5, <2>6, <2>7, SwapStep
<1>6. QED
  BY <1>1, <1>4, <1>5 DEF MoveAside, Goes, Sound, Typed

LEMMA PlaceKeeps ==
  ASSUME ReplacementAssumption, Sound, NEW r \in Runs, Place(r)
  PROVE  Sound'
<1>1. Run(r) /\ ~ Start(r) /\ pc[r] = "place" /\ pc'[r] \in {"finish", "restore"}
  BY DEF Run, Place, Start, Goes, Sound, Typed
<1>2. Outcomes' /\ FailureRollsBack' /\ SuccessInstalls'
  BY <1>1, GoingOn
<1>3. Undisturbed(r) => fs[Aside(r)] = local[r].before /\ fs.temporary = "ready"
  BY <1>1 DEF Sound, Progress, TemporaryAt
<1>4. /\ fs[Aside(r)] # "none" /\ fs.target = "none"
      /\ \A u \in Runs \ {r} : pc[u] \notin Swapping
  BY <1>1 DEF Sound, SwapsApart, Swapping, Exists
<1>5. /\ \A u \in Runs \ {r} : pc'[u] \notin Swapping
      /\ Aside(r)' = Aside(r)
  BY <1>1, <1>4, OthersStay DEF Aside
<1>6. CASE fs' = fs /\ pc'[r] = "restore" /\ (Fault \/ ~ CanMove("temporary", "target"))
  <2>1. Undisturbed(r) => faults' > local[r].faults
    <3>1. Undisturbed(r) => Fault
      BY <1>3, <1>4, <1>6 DEF CanMove, Exists
    <3>2. local[r].faults \in Nat /\ faults \in Nat /\ local[r].faults <= faults
      BY DEF Sound, Typed, Records, FaultsCounted, ReplacementAssumption
    <3>3. QED
      BY <3>1, <3>2, FaultCounts DEF Sound
  <2>2. Progress'
    BY <1>1, <1>3, <1>6, <2>1, ProgressKept
  <2>3. SwapsApart' /\ TargetKept'
    BY <1>4, <1>5, <1>6 DEF SwapsApart, TargetKept, Exists
  <2>4. BackupIsOriginal' /\ GameNeverLost'
    BY <1>6 DEF Sound, BackupIsOriginal, GameNeverLost
  <2>5. QED
    BY <1>1, <1>2, <1>6, <2>2, <2>3, <2>4, SwapStep
<1>7. CASE CanMove("temporary", "target") /\ fs' = Moved("temporary", "target") /\ pc'[r] = "finish"
  <2>1. /\ fs'.target = fs.temporary /\ fs'.temporary = "none" /\ fs.temporary # "none"
        /\ fs'.backup = fs.backup /\ fs'.previous = fs.previous
        /\ fs'[Aside(r)] = fs[Aside(r)]
    <3>1. "temporary" \in Paths /\ "target" \in Paths \ {"temporary"}
      BY DEF Paths
    <3>2. \A p \in Paths \ {"target", "temporary"} : fs'[p] = fs[p]
      BY <1>7, <3>1, MovedMoves DEF Sound
    <3>3. QED
      BY <1>7, <3>1, <3>2, MovedMoves, AsidePath DEF CanMove, Exists, Sound, Paths
  <2>2. Progress'
    BY <1>1, <1>3, <1>7, <2>1, ProgressKept DEF Exists
  <2>3. SwapsApart' /\ TargetKept'
    <3>1. Exists(Aside(r))' /\ Exists("target")'
      BY <1>4, <1>5, <2>1 DEF Exists
    <3>2. QED
      BY <1>5, <1>7, <3>1 DEF SwapsApart, TargetKept
  <2>4. BackupIsOriginal' /\ GameNeverLost'
    BY <1>4, <2>1 DEF Sound, BackupIsOriginal, GameNeverLost, Playable
  <2>5. QED
    BY <1>1, <1>2, <2>1, <2>2, <2>3, <2>4, SwapStep
<1>8. QED
  BY <1>1, <1>6, <1>7 DEF Place, Goes, Sound, Typed

LEMMA RestoreKeeps ==
  ASSUME ReplacementAssumption, Sound, NEW r \in Runs, Restore(r)
  PROVE  Sound'
<1>1. Run(r) /\ ~ Start(r) /\ pc[r] = "restore" /\ pc'[r] = "cleanup"
  BY DEF Run, Restore, Start, Goes, Sound, Typed
<1>2. Outcomes' /\ FailureRollsBack' /\ SuccessInstalls'
  BY <1>1, GoingOn
<1>3. Undisturbed(r) => fs[Aside(r)] = local[r].before /\ faults > local[r].faults
  BY <1>1 DEF Sound, Progress
<1>4. /\ fs[Aside(r)] # "none" /\ fs.target = "none"
      /\ \A u \in Runs \ {r} : pc[u] \notin Swapping
  BY <1>1 DEF Sound, SwapsApart, Swapping, Exists
<1>5. SwapsApart'
  BY <1>1, <1>4, OthersStay DEF SwapsApart, Swapping
<1>6. local[r].faults \in Nat /\ faults \in Nat
  BY DEF Sound, Typed, Records, ReplacementAssumption
<1>7. CASE fs' = fs /\ Fault
  <2>1. faults' = faults + 1
    BY <1>7 DEF Fault
  <2>2. Progress'
    BY <1>1, <1>3, <1>6, <1>7, <2>1, ProgressKept
  <2>3. TargetKept'
    BY <1>6, <2>1 DEF TargetKept
  <2>4. BackupIsOriginal' /\ GameNeverLost'
    BY <1>7 DEF Sound, BackupIsOriginal, GameNeverLost
  <2>5. QED
    BY <1>1, <1>2, <1>5, <1>7, <2>2, <2>3, <2>4, SwapStep
<1>8. CASE fs' = Moved(Aside(r), "target")
  <2>1. /\ fs'.target = fs[Aside(r)] /\ fs'[Aside(r)] = "none"
        /\ \A p \in Paths \ {"target", Aside(r)} : fs'[p] = fs[p]
    <3>1. Aside(r) \in Paths /\ "target" \in Paths \ {Aside(r)}
      BY AsidePath DEF Paths
    <3>2. QED
      BY <1>8, <3>1, MovedMoves DEF Sound
  <2>2. /\ local[r].silicon => Aside(r) = "previous" /\ fs'.backup = fs.backup
        /\ ~ local[r].silicon => /\ Aside(r) = "backup" /\ fs'.previous = fs.previous
                                 /\ ~ local[r].backup
    <3>1. CASE local[r].silicon
      BY <2>1, <3>1 DEF Aside, Paths
    <3>2. CASE ~ local[r].silicon
      BY <1>1, <2>1, <3>2, FirstIsUndisturbed DEF Paths
    <3>3. QED
      BY <3>1, <3>2
  <2>3. BackupIsOriginal' /\ GameNeverLost'
    BY <1>4, <2>1, <2>2 DEF Sound, BackupIsOriginal, GameNeverLost, Playable
  <2>4. Progress'
    BY <1>1, <1>3, <2>1, ProgressKept
  <2>5. TargetKept'
    BY <1>4, <2>1 DEF TargetKept, Exists
  <2>6. QED
    BY <1>1, <1>2, <1>5, <2>2, <2>3, <2>4, <2>5, SwapStep
<1>9. CanMove(Aside(r), "target")
  BY <1>4 DEF CanMove, Exists
<1>10. QED
  BY <1>7, <1>8, <1>9 DEF Restore

LEMMA FinishKeeps ==
  ASSUME ReplacementAssumption, Sound, NEW r \in Runs, Finish(r)
  PROVE  Sound'
<1>1. Run(r) /\ ~ Start(r) /\ pc[r] = "finish" /\ pc'[r] = "idle"
  BY DEF Run, Finish, Start, Goes, Returns, Sound, Typed
<1>2. Returns(r, "succeeded") /\ outcome'[r] = "succeeded" /\ ~ Returns(r, "failed")
  BY DEF Finish, Returns, Sound, Typed
<1>3. /\ fs'.target = fs.target /\ fs'.backup = fs.backup /\ fs'.temporary = fs.temporary
      /\ fs'.previous = fs.previous \/ local[r].silicon
  BY DEF Finish, Removes, Sound, Typed, Paths
<1>4. Undisturbed(r) => fs.target = "ready" /\ fs.temporary = "none"
  BY <1>1 DEF Sound, Progress, Exists
<1>5. Outcomes' /\ FailureRollsBack' /\ SuccessInstalls'
  BY <1>1, <1>2, <1>3, <1>4, OutcomesKept DEF Undisturbed, Active, Exists
<1>6. Progress'
  BY <1>1, ProgressKept DEF Active
<1>7. \A u \in Runs \ {r} : pc[u] \notin Swapping /\ pc'[u] \notin Swapping
  BY <1>1, OthersStay DEF Sound, SwapsApart, Swapping
<1>8. SwapsApart'
  BY <1>1, <1>7 DEF SwapsApart, Swapping
<1>9. TargetKept'
  <2>1. faults' = 0 /\ crashes' = 0 => faults = 0 /\ crashes = 0
    BY <1>1, RunMoves, FaultCounts DEF Sound, Typed, ReplacementAssumption
  <2>2. ~ \E u \in Runs : pc[u] \in {"place", "restore"}
    BY <1>1, <1>7 DEF Swapping
  <2>3. QED
    BY <1>3, <2>1, <2>2 DEF Sound, TargetKept, Exists
<1>10. BackupIsOriginal' /\ GameNeverLost'
  <2>1. Exists("backup") \/ fs.target = "ready"
    BY <1>1, <1>4 DEF Sound, BackupsStay, Undisturbed, Active
  <2>2. BackupIsOriginal'
    BY <1>3 DEF Sound, BackupIsOriginal
  <2>3. QED
    BY <1>3, <2>1, <2>2 DEF Sound, BackupIsOriginal, GameNeverLost, Playable, Exists
<1>11. QED
  BY <1>1, <1>3, <1>5, <1>6, <1>8, <1>9, <1>10, SwapStep

\* A run may begin during another only where the backup is there to stay.
LEMMA StartKeeps ==
  ASSUME ReplacementAssumption, Sound, NEW r \in Runs, Start(r)
  PROVE  Sound'
<1>1. /\ pc[r] = "idle" /\ pc'[r] = "check" /\ \A u \in Runs \ {r} : pc'[u] = pc[u]
      /\ \A u \in Runs \ {r} : local'[u] = local[u]
      /\ local'[r] = [silicon |-> IsSilicon(fs.target), backup |-> Exists("backup"),
                      before |-> fs.target, faults |-> faults]
      /\ fs' = fs /\ faults' = faults /\ crashes' = crashes
      /\ \A u \in Runs : outcome'[u] = "none"
  BY DEF Start, Goes, Sound, Typed
<1>2. /\ overlapped \/ (\E u \in Runs : Active(u)) <=> overlapped'
      /\ \A u \in Runs : Active(u) => local[u].silicon /\ local[u].backup /\ u # r
  BY <1>1 DEF Start, MayBegin, Active, Sound, Typed
<1>3. \A u \in Runs : Active(u)' <=> Active(u) \/ u = r
  BY <1>1 DEF Active
<1>4. Typed' /\ FaultsCounted'
  <2>1. Typed'
    BY TypedKept DEF Sound, Next, Run
  <2>2. faults \in Nat
    BY DEF Sound, Typed, ReplacementAssumption
  <2>3. QED
    BY <1>1, <2>1, <2>2 DEF Sound, FaultsCounted
<1>5. BackupIsOriginal' /\ GameNeverLost'
  BY <1>1 DEF Sound, BackupIsOriginal, GameNeverLost
<1>6. BackupsStay'
  <2>1. \A u \in Runs : Active(u)' /\ local'[u].backup => Exists("backup")'
    <3>1. Exists("backup")' = Exists("backup")
      BY <1>1 DEF Exists
    <3>2. local'[r].backup = Exists("backup")
      BY <1>1
    <3>3. \A u \in Runs \ {r} : Active(u)' /\ local'[u].backup => Exists("backup")
      BY <1>1, <1>3 DEF Sound, BackupsStay
    <3>4. QED
      BY <3>1, <3>2, <3>3
  <2>2. (\E u \in Runs : Active(u)) => Exists("backup")
    BY <1>2 DEF Sound, BackupsStay
  <2>3. \A u \in Runs : Active(u)' /\ ~ local'[u].backup => \A v \in Runs \ {u} : ~ Active(v)'
    BY <1>1, <1>2, <1>3, <2>2
  <2>4. QED
    BY <2>1, <2>3 DEF BackupsStay
<1>7. ChecksPassed'
  BY <1>1 DEF Sound, ChecksPassed
<1>8. SwapsApart' /\ TargetKept'
  <2>1. \A u \in Runs : pc'[u] \in Swapping => pc'[u] = pc[u] /\ u # r /\ Aside(u)' = Aside(u)
    BY <1>1 DEF Swapping, Aside
  <2>2. SwapsApart'
    BY <1>1, <2>1 DEF Sound, SwapsApart, Exists
  <2>3. TargetKept'
    BY <1>1 DEF Sound, TargetKept, Exists
  <2>4. QED
    BY <2>2, <2>3
<1>9. Progress'
  <2>1. ASSUME NEW u \in Runs, Undisturbed(u)'
        PROVE  u = r
    BY <1>1, <1>2, <1>3, <2>1 DEF Undisturbed
  <2>2. local'[r].silicon = IsSilicon(local'[r].before) /\ fs'.target = local'[r].before
    BY <1>1
  <2>3. QED
    BY <1>1, <2>1, <2>2 DEF Progress
<1>10. Outcomes' /\ FailureRollsBack' /\ SuccessInstalls'
  BY <1>1, <1>2, <1>3 DEF Outcomes, FailureRollsBack, SuccessInstalls
<1>11. QED
  BY <1>4, <1>5, <1>6, <1>7, <1>8, <1>9, <1>10 DEF Sound

\* A crash forgets what every run was about, and leaves the disk as it is.
LEMMA CrashKeeps ==
  ASSUME ReplacementAssumption, Sound, Crash
  PROVE  Sound'
<1>1. /\ \A r \in Runs : pc'[r] = "idle" /\ local'[r] = NotBegun /\ outcome'[r] = "none"
      /\ fs' = fs /\ faults' = faults /\ crashes' > 0
  BY DEF Crash, Sound, Typed, ReplacementAssumption
<1>2. Typed' /\ FaultsCounted'
  <2>1. Typed'
    BY TypedKept DEF Sound, Next
  <2>2. faults \in Nat
    BY DEF Sound, Typed, ReplacementAssumption
  <2>3. QED
    BY <1>1, <2>1, <2>2 DEF FaultsCounted, NotBegun
<1>3. BackupIsOriginal' /\ GameNeverLost'
  BY <1>1 DEF Sound, BackupIsOriginal, GameNeverLost
<1>4. BackupsStay' /\ ChecksPassed' /\ SwapsApart' /\ Progress'
  BY <1>1 DEF BackupsStay, ChecksPassed, SwapsApart, Progress, Undisturbed, Active, Swapping
<1>5. TargetKept'
  BY <1>1 DEF TargetKept
<1>6. Outcomes' /\ FailureRollsBack' /\ SuccessInstalls'
  BY <1>1 DEF Outcomes, FailureRollsBack, SuccessInstalls, Active
<1>7. QED
  BY <1>2, <1>3, <1>4, <1>5, <1>6 DEF Sound

LEMMA InitHolds ==
  ASSUME ReplacementAssumption, Init
  PROVE  ReplacementInv
<1>1. PICK i \in Installed :
        fs = [target |-> i[1], backup |-> i[2], temporary |-> "none", previous |-> "none"]
  BY DEF Init
<1>2. i[1] \in {"original", "silicon"} /\ i[2] \in {"none", "original"}
  BY DEF ReplacementAssumption
<1>3. Typed
  <2>1. NotBegun \in Records
    BY DEF NotBegun, Records, Contents, ReplacementAssumption
  <2>2. DOMAIN fs = Paths /\ \A p \in Paths : fs[p] \in Contents
    BY <1>1, <1>2 DEF Paths, Contents, Bundles
  <2>3. pc \in [Runs -> Places] /\ local \in [Runs -> Records]
    BY <2>1 DEF Init, Places
  <2>4. outcome \in [Runs -> {"none", "refused", "failed", "succeeded"}]
    BY DEF Init
  <2>5. faults \in 0 .. MaxFaults /\ crashes \in 0 .. MaxCrashes /\ starts \in 0 .. MaxStarts
    BY DEF Init, ReplacementAssumption
  <2>6. overlapped \in BOOLEAN
    BY DEF Init
  <2>7. QED
    BY <2>2, <2>3, <2>4, <2>5, <2>6 DEF Typed
<1>4. TypeOK
  BY <1>1, <1>2, <1>3, TypeParts
<1>5. FaultsCounted
  BY DEF Init, FaultsCounted, NotBegun
<1>6. BackupIsOriginal /\ GameNeverLost
  BY <1>1, <1>2 DEF BackupIsOriginal, GameNeverLost, Playable
<1>7. BackupsStay /\ ChecksPassed /\ SwapsApart /\ Progress
  BY DEF Init, BackupsStay, ChecksPassed, SwapsApart, Progress, Undisturbed, Active, Swapping
<1>8. Outcomes /\ TargetKept /\ FailureRollsBack /\ SuccessInstalls
  BY <1>1, <1>2 DEF Init, Outcomes, TargetKept, FailureRollsBack, SuccessInstalls, Active, Exists
<1>9. QED
  BY <1>4, <1>5, <1>6, <1>7, <1>8 DEF ReplacementInv

LEMMA StepKeeps ==
  ASSUME ReplacementAssumption, Sound, Next
  PROVE  Sound'
BY StartKeeps, CheckKeeps, BuildStartsKeeps, BuildEndsKeeps, BuildFailsKeeps,
   CompatibleKeeps, MoveAsideKeeps, PlaceKeeps, RestoreKeeps, FinishKeeps, CleanupKeeps,
   CrashKeeps DEF Next, Run

\* Nothing but what is made launchable is swapped in while no run disturbs another.
LEMMA LaunchableKept ==
  ASSUME ReplacementAssumption, ReplacementInv, Next
  PROVE  TypeOK'
<1> DEFINE Whole == {"none", "original", "silicon", "ready"}
<1>1. Sound /\ Typed' /\ (overlapped \/ {fs.target, fs.backup, fs.previous} \subseteq Whole)
  BY TypeParts, TypedKept DEF ReplacementInv, Sound
<1>2. SUFFICES ASSUME ~ overlapped'
               PROVE  {fs'.target, fs'.backup, fs'.previous} \subseteq Whole
  <2>1. Typed' /\ (overlapped' \/ {fs'.target, fs'.backup, fs'.previous} \subseteq Whole) => TypeOK'
    BY DEF TypeOK, Typed, Paths, Contents, Places, Records
  <2>2. QED
    BY <1>1, <2>1
<1>3. CASE fs' = fs /\ (overlapped' = overlapped \/ \E r \in Runs : Start(r))
  BY <1>1, <1>2, <1>3 DEF Start, Sound, Typed
<1>4. ASSUME NEW r \in Runs, Run(r), ~ Start(r)
      PROVE  {fs'.target, fs'.backup, fs'.previous} \subseteq Whole
  <2>1. ~ overlapped /\ {fs.target, fs.backup, fs.previous} \subseteq Whole
    BY <1>1, <1>2, <1>4, OthersStay
  <2>2. ASSUME NEW b \in Contents, fs' = [fs EXCEPT !.temporary = b]
        PROVE  {fs'.target, fs'.backup, fs'.previous} \subseteq Whole
    BY <1>1, <2>1, <2>2, TemporaryMoves DEF Sound
  <2>3. fs.temporary \in Contents
    BY <1>1 DEF Typed, Paths, Sound
  <2>4. CASE fs' = fs
    BY <2>1, <2>4
  <2>5. CASE BuildStarts(r)
    <3>1. Written(fs.temporary) \subseteq Contents
      BY <2>3 DEF Written, Contents, Bundles
    <3>2. QED
      BY <2>2, <2>5, <3>1 DEF BuildStarts
  <2>6. CASE BuildEnds(r) \/ Compatible(r) \/ Cleanup(r)
    <3>1. {"built", "mixed", "ready", "none"} \subseteq Contents
      BY DEF Contents, Bundles
    <3>2. QED
      BY <2>2, <2>4, <2>6, <3>1 DEF BuildEnds, Compatible, Cleanup
  <2>7. CASE MoveAside(r) /\ fs' # fs
    <3>1. fs' = Moved("target", Aside(r))
      BY <2>7 DEF MoveAside
    <3>2. "target" \in Paths /\ Aside(r) \in {"backup", "previous"}
      BY DEF Paths, Aside
    <3>3. QED
      BY <1>1, <2>1, <3>1, <3>2, MovedMoves DEF Sound, Paths
  <2>8. CASE Place(r) /\ fs' # fs
    <3>1. fs' = Moved("temporary", "target")
      BY <2>8 DEF Place
    <3>2. fs.temporary = "ready"
      BY <1>1, <2>1, <2>8 DEF Place, Sound, Progress, Undisturbed, Active, TemporaryAt
    <3>3. QED
      BY <1>1, <2>1, <3>1, <3>2, MovedMoves DEF Sound, Paths
  <2>9. CASE Restore(r) /\ fs' # fs
    <3>1. fs' = Moved(Aside(r), "target")
      BY <2>9 DEF Restore
    <3>2. "target" \in Paths /\ Aside(r) \in {"backup", "previous"}
      BY DEF Paths, Aside
    <3>3. QED
      BY <1>1, <2>1, <3>1, <3>2, MovedMoves DEF Sound, Paths
  <2>10. CASE Finish(r)
    BY <1>1, <2>1, <2>10 DEF Finish, Typed, Sound, Paths
  <2>11. CASE Check(r) \/ BuildFails(r)
    BY <2>4, <2>11 DEF Check, BuildFails
  <2>12. QED
    BY <1>4, <2>4, <2>5, <2>6, <2>7, <2>8, <2>9, <2>10, <2>11 DEF Run
<1>5. CASE Crash
  BY <1>3, <1>5 DEF Crash
<1>6. CASE \E r \in Runs : Start(r)
  BY <1>3, <1>6 DEF Start
<1>7. QED
  BY <1>4, <1>5, <1>6 DEF Next

-----------------------------------------------------------------------------
(* The theorems *)

\* The inductive invariant: every run knows where its bundles are, whatever fails
\* and whoever else is at work (SteamReplacementRunner.run).
THEOREM ReplacementInvariant == ReplacementAssumption => (Spec => []ReplacementInv)
<1> SUFFICES ASSUME ReplacementAssumption PROVE Spec => []ReplacementInv
  OBVIOUS
<1>1. Init => ReplacementInv
  BY InitHolds
<1>2. ReplacementInv /\ [Next]_vars => ReplacementInv'
  <2> SUFFICES ASSUME ReplacementInv, [Next]_vars PROVE ReplacementInv'
    OBVIOUS
  <2>1. CASE Next
    <3>1. Sound
      BY TypeParts DEF ReplacementInv, Sound
    <3>2. Sound' /\ TypeOK'
      BY <2>1, <3>1, StepKeeps, LaunchableKept
    <3>3. QED
      BY <3>2 DEF ReplacementInv, Sound
  <2>2. CASE UNCHANGED vars
    BY <2>2 DEF vars, counts, ReplacementInv, TypeOK, FaultsCounted, BackupIsOriginal,
                GameNeverLost, BackupsStay, ChecksPassed, SwapsApart, Progress, Outcomes,
                TargetKept, FailureRollsBack, SuccessInstalls, Active, Aside, Undisturbed,
                Undone, Exists
  <2>3. QED
    BY <2>1, <2>2
<1>3. QED
  BY <1>1, <1>2, PTL DEF Spec

\* A playable bundle of the game is on disk at every moment, and the backup is
\* only ever Valve's original (SteamReplacementRunner.run).
THEOREM GameIsNeverLost ==
  ReplacementAssumption => (Spec => [](GameNeverLost /\ BackupIsOriginal))
<1>1. ReplacementInv => GameNeverLost /\ BackupIsOriginal
  BY DEF ReplacementInv
<1>2. QED
  BY <1>1, ReplacementInvariant, PTL

\* A run that reports failure has left the target as it found it, one that reports
\* success has installed a launchable bundle, and runs that overlap leave a bundle
\* where Steam starts the game, as the properties say (SteamReplacementRunner.run).
RunsEndWell == FailureRollsBack /\ SuccessInstalls /\ TargetSurvivesOverlap

THEOREM RunsDoEndWell == ReplacementAssumption => (Spec => []RunsEndWell)
<1>1. ReplacementInv => RunsEndWell
  BY DEF ReplacementInv, RunsEndWell, TargetKept, TargetSurvivesOverlap
<1>2. QED
  BY <1>1, ReplacementInvariant, PTL

\* No step takes away or overwrites a backup, but that a run puts back the one it
\* made itself: "keeping whatever backup exists" (SteamReplacementRunner.run).
THEOREM BackupIsKept == ReplacementAssumption => (Spec => BackupKept)
<1> SUFFICES ASSUME ReplacementAssumption PROVE Spec => BackupKept
  OBVIOUS
<1> DEFINE Kept == Exists("backup") =>
                     \/ fs'.backup = fs.backup
                     \/ /\ fs'.target = fs.backup
                        /\ \E r \in Runs : pc[r] = "restore" /\ ~ local[r].backup
<1>1. ReplacementInv /\ [Next]_vars => [Kept]_vars
  <2> SUFFICES ASSUME ReplacementInv, Next PROVE Kept
    OBVIOUS
  <2>1. Sound
    BY TypeParts DEF ReplacementInv, Sound
  <2>2. CASE fs' = fs
    BY <2>2
  <2>3. CASE Crash
    BY <2>2, <2>3 DEF Crash
  <2>4. ASSUME NEW r \in Runs, Run(r), fs' # fs, Exists("backup")
        PROVE  \/ fs'.backup = fs.backup
               \/ fs'.target = fs.backup /\ pc[r] = "restore" /\ ~ local[r].backup
    <3>1. ASSUME NEW b \in Contents, fs' = [fs EXCEPT !.temporary = b]
          PROVE  fs'.backup = fs.backup
      BY <2>1, <3>1, TemporaryMoves DEF Sound
    <3>2. fs.temporary \in Contents
      BY <2>1 DEF Typed, Paths, Sound
    <3>3. CASE BuildStarts(r)
      <4>1. Written(fs.temporary) \subseteq Contents
        BY <3>2 DEF Written, Contents, Bundles
      <4>2. QED
        BY <3>1, <3>3, <4>1 DEF BuildStarts
    <3>4. CASE BuildEnds(r) \/ Compatible(r) \/ Cleanup(r)
      <4>1. {"built", "mixed", "ready", "none"} \subseteq Contents
        BY DEF Contents, Bundles
      <4>2. QED
        BY <2>4, <3>1, <3>4, <4>1 DEF BuildEnds, Compatible, Cleanup
    <3>5. CASE MoveAside(r)
      <4>1. CanMove("target", Aside(r)) /\ fs' = Moved("target", Aside(r))
        BY <2>4, <3>5 DEF MoveAside
      <4>2. "target" \in Paths /\ Aside(r) \in Paths \ {"target"} /\ Aside(r) # "backup"
        BY <2>4, <4>1, AsidePath DEF Paths, CanMove, Exists
      <4>3. QED
        BY <2>1, <4>1, <4>2, MovedMoves DEF Sound, Paths
    <3>6. CASE Place(r)
      <4>1. fs' = Moved("temporary", "target")
        BY <2>4, <3>6 DEF Place
      <4>2. QED
        BY <2>1, <4>1, MovedMoves DEF Sound, Paths
    <3>7. CASE Restore(r)
      <4>1. pc[r] = "restore" /\ fs' = Moved(Aside(r), "target")
        BY <2>4, <3>7 DEF Restore
      <4>2. Aside(r) \in Paths /\ "target" \in Paths \ {Aside(r)}
        BY AsidePath DEF Paths
      <4>3. /\ fs'.target = fs[Aside(r)]
            /\ \A p \in Paths \ {"target", Aside(r)} : fs'[p] = fs[p]
        BY <2>1, <4>1, <4>2, MovedMoves DEF Sound
      <4>4. CASE local[r].silicon
        BY <4>3, <4>4 DEF Aside, Paths
      <4>5. CASE ~ local[r].silicon
        BY <2>1, <4>1, <4>3, <4>5, FirstIsUndisturbed
      <4>6. QED
        BY <4>4, <4>5
    <3>8. CASE Finish(r)
      BY <2>1, <2>4, <3>8 DEF Finish, Removes, Typed, Sound, Paths
    <3>9. QED
      BY <2>4, <3>3, <3>4, <3>5, <3>6, <3>7, <3>8 DEF Run, Start, Check, BuildFails
  <2>5. QED
    BY <2>2, <2>3, <2>4 DEF Next
<1>2. QED
  BY <1>1, ReplacementInvariant, PTL DEF Spec, BackupKept

=============================================================================
