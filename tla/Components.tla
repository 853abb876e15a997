------------------------------ MODULE Components ------------------------------
(***************************************************************************)
(* The components that work on state of their own.  A behaviour takes the  *)
(* steps of one of them, chosen at first, and the rest stay as they began: *)
(* they have nothing in common but the guest's threads, so their           *)
(* interleavings would show nothing.                                       *)
(***************************************************************************)
EXTENDS Integers, FiniteSets, Sequences

\* What they stand for is said in the components' modules.
CONSTANTS
  Guests,         \* guest threads
  None, Garbage, NoFile, Null, NoDir,
  Capacity, Generations, MaxFiles,
  Runs, Installed, MaxFaults, MaxCrashes, MaxStarts,
  Owners, Sites, SiteCapacity, HeapEnd, Exact, BinCount, Requests, MaxAllocations, Reuses, Poisons,
  StringThreads, OwnerOf, Reps, MaxCount,
  Addresses, CacheSize, HostMutexes,
  DirCapacity, MaxDirs, Dirents,
  CgThreads, Programs, Context, Buffers, Listings, GuestBlocks,
  Controls, OnceCapacity, MaxNested, GuardThreads,
  Pages, Pinned, Layouts, ClassOf, Slide, Symbol, Natives, ImportCapacity, ThunkRoom,
  DynamicRoom, CellRoom,
  TextPages, LoaderCells, BundleCells, MaxAttempts,
  Profiles, Contents, MaxCalls,
  Sizes,
  Tables, Depth

VARIABLES component
VARIABLES generation, file, nextIndex, active, fileLock, open, filePc, hand, held, opened,
          reuses, last
VARIABLES fs, runPc, local, outcome, faults, crashes, starts, overlapped
VARIABLES heap, flags, block, call, kept, given
VARIABLES rep, refs, live, disposal, copyErased, dropErased
VARIABLES mutexes, indexCache, recycled, mallocs, holder, locking
VARIABLES directory, dirent, openDirs, opening, surplus, dirHeld, dirsOpened, dirRead
VARIABLES cgObjects, cgStrings, buffers, listing, copies, cgDropping, cgGiven
VARIABLES onceLock, completed, running, begun, finished, early, guard, building
VARIABLES layout, space, protection, word, stage, next, imports, relocations,
          window, code, dynamic, cells, hosted, ran, faulted
VARIABLES unwrap, text, writable, cell, bundle, confirmed, shims, staged, published, attempts
VARIABLES checked, enabled, checking, initialized, interface, exited, cloud, answered, calls
VARIABLES guestData, list, host, render
VARIABLES table, stages, direct, base, matched, frames

fileVars == <<generation, file, nextIndex, active, fileLock, open, filePc, hand, held, opened,
              reuses, last>>
runVars == <<fs, runPc, local, outcome, faults, crashes, starts, overlapped>>
heapVars == <<heap, flags, block, call, kept, given>>
stringVars == <<rep, refs, live, disposal, copyErased, dropErased>>
mutexVars == <<mutexes, indexCache, recycled, mallocs, holder, locking>>
dirVars == <<directory, dirent, openDirs, opening, surplus, dirHeld, dirsOpened, dirRead>>
cgVars == <<cgObjects, cgStrings, buffers, listing, copies, cgDropping, cgGiven>>
onceVars == <<onceLock, completed, running, begun, finished, early, guard, building>>
imageVars == <<layout, space, protection, word, stage, next, imports, relocations,
               window, code, dynamic, cells, hosted, ran, faulted>>
unwrapVars == <<unwrap, text, writable, cell, bundle, confirmed, shims, staged, published,
                attempts>>
cloudVars == <<checked, enabled, checking, initialized, interface, exited, cloud, answered,
               calls>>
renderVars == <<guestData, list, host, render>>
dispatchVars == <<table, stages, direct, base, matched, frames>>
vars == <<component, fileVars, runVars, heapVars, stringVars, mutexVars, dirVars, cgVars,
          onceVars, imageVars, unwrapVars, cloudVars, renderVars, dispatchVars>>

-----------------------------------------------------------------------------
(* The instances *)

Files == INSTANCE GuestFiles WITH Threads <- Guests, ClosesStandard <- FALSE, pc <- filePc
Replacement == INSTANCE SteamReplacement WITH pc <- runPc
Heap == INSTANCE GuestHeap
Strings == INSTANCE GuestStrings
Mutexes == INSTANCE GuestMutexes WITH MutexThreads <- Guests, Nobody <- None
Directories == INSTANCE GuestDirectories WITH DirThreads <- Guests
Cg == INSTANCE CgObjects
Once == INSTANCE GuestOnce WITH OnceThreads <- Guests, NoOne <- None, ran <- begun
Images == INSTANCE GuestImages
Unwrap == INSTANCE SteamUnwrap WITH opened <- writable
Cloud == INSTANCE SteamCloud WITH CloudThreads <- Guests, Nothing <- NoFile
Render == INSTANCE AudioRender
Imports == INSTANCE ImportDispatch WITH DispatchThreads <- Guests

ASSUME ComponentsAssumption ==
  /\ Files!FilesAssumption /\ Replacement!ReplacementAssumption /\ Heap!HeapAssumption
  /\ Strings!StringsAssumption /\ Mutexes!MutexesAssumption
  /\ Directories!DirectoriesAssumption /\ Cg!CgAssumption /\ Once!OnceAssumption
  /\ Images!ImagesAssumption /\ Unwrap!UnwrapAssumption /\ Cloud!CloudAssumption
  /\ Render!RenderAssumption /\ Imports!DispatchAssumption

-----------------------------------------------------------------------------
(* The behaviours *)

Components == {"files", "replacement", "heap", "strings", "mutexes", "directories", "cg", "once",
               "images", "unwrap", "cloud", "render", "imports"}

AnyLayout == CHOOSE l \in Layouts : TRUE
AnyTable == CHOOSE one \in Tables : TRUE

\* What a component that is not the chosen one begins with makes no difference.
Init ==
  /\ component \in Components
  /\ Files!Init
  /\ Replacement!Init
  /\ component # "replacement" => fs.target = "original" /\ fs.backup = "none"
  /\ Heap!HeapInit
  /\ component # "heap" => flags.reuse /\ ~ flags.poison
  /\ Strings!StringsInit
  /\ Mutexes!MutexesInit
  /\ Directories!DirsInit
  /\ Cg!CgInit
  /\ Once!OnceInit
  /\ IF component = "images" THEN Images!ImagesInit
     ELSE Images!ImagesInit /\ layout = AnyLayout
  /\ Unwrap!UnwrapInit
  /\ Cloud!CloudInit
  /\ component # "cloud" => cloud = [n \in Profiles |-> NoFile]
  /\ Render!RenderInit
  /\ Imports!DispatchInit
  /\ component # "imports" => table = AnyTable

\* The others stay as they are.
Alone(c) ==
  /\ component = c
  /\ UNCHANGED component
  /\ IF c = "files" THEN TRUE ELSE UNCHANGED fileVars
  /\ IF c = "replacement" THEN TRUE ELSE UNCHANGED runVars
  /\ IF c = "heap" THEN TRUE ELSE UNCHANGED heapVars
  /\ IF c = "strings" THEN TRUE ELSE UNCHANGED stringVars
  /\ IF c = "mutexes" THEN TRUE ELSE UNCHANGED mutexVars
  /\ IF c = "directories" THEN TRUE ELSE UNCHANGED dirVars
  /\ IF c = "cg" THEN TRUE ELSE UNCHANGED cgVars
  /\ IF c = "once" THEN TRUE ELSE UNCHANGED onceVars
  /\ IF c = "images" THEN TRUE ELSE UNCHANGED imageVars
  /\ IF c = "unwrap" THEN TRUE ELSE UNCHANGED unwrapVars
  /\ IF c = "cloud" THEN TRUE ELSE UNCHANGED cloudVars
  /\ IF c = "render" THEN TRUE ELSE UNCHANGED renderVars
  /\ IF c = "imports" THEN TRUE ELSE UNCHANGED dispatchVars

Next ==
  \/ Alone("files") /\ Files!Next
  \/ Alone("replacement") /\ Replacement!Next
  \/ Alone("heap") /\ Heap!HeapNext
  \/ Alone("strings") /\ Strings!StringsNext
  \/ Alone("mutexes") /\ Mutexes!MutexesNext
  \/ Alone("directories") /\ Directories!DirsNext
  \/ Alone("cg") /\ Cg!CgNext
  \/ Alone("once") /\ Once!OnceNext
  \/ Alone("images") /\ Images!ImagesNext
  \/ Alone("unwrap") /\ Unwrap!UnwrapNext
  \/ Alone("cloud") /\ Cloud!CloudNext
  \/ Alone("render") /\ Render!RenderNext
  \/ Alone("imports") /\ Imports!DispatchNext

Spec == Init /\ [][Next]_vars

-----------------------------------------------------------------------------
(* What is checked of them, each stated in the component's own module *)

\* The type invariant of every component.
TypeOK ==
  CASE component = "files" -> Files!TypeOK
    [] component = "replacement" -> Replacement!TypeOK
    [] component = "heap" -> Heap!HeapTypeOK
    [] component = "strings" -> Strings!StringsTypeOK
    [] component = "images" -> Images!ImagesTypeOK
    [] component = "unwrap" -> Unwrap!UnwrapTypeOK
    [] component = "cloud" -> Cloud!CloudTypeOK
    [] component = "render" -> Render!RenderTypeOK
    [] component = "imports" -> Imports!DispatchTypeOK
    [] OTHER -> TRUE

\* The FILE table loses no FILE and gives none to two owners, no thread uses a
\* FILE that has been closed, and a stale handle is rejected until its slot has
\* been through its generations (guest_handle_for_file, guest_close_file).
FilesSound ==
  component = "files" => Files!FilesSound

\* A playable bundle of the game is on disk at every moment, at the target or set
\* aside, and the backup is only ever Valve's (SteamReplacementRunner.run).
GameNeverLost ==
  component = "replacement" => Replacement!GameNeverLost /\ Replacement!BackupIsOriginal

\* No run of the installer takes away or overwrites a backup it did not make.
BackupKept == Replacement!BackupKept

\* A run leaves what it reports: a failed one that ran alone has put the target
\* back, one that succeeded has installed a launchable bundle, and after two that
\* overlap there is a bundle at the target (SteamReplacementRunner.run).
RunsEndWell ==
  component = "replacement" =>
    /\ Replacement!FailureRollsBack /\ Replacement!SuccessInstalls
    /\ Replacement!TargetSurvivesOverlap

\* The blocks and free lists of the guest's heap tile it, and the site statistics
\* and the reusable bytes add up (guest_allocate_at, guest_deallocate).
HeapSound == component = "heap" => Heap!HeapSound

\* What a guest wrote in a block is there until it frees the block, through
\* every realloc (guest_reallocate).
ContentKept == component = "heap" => Heap!ContentKept

\* As long as the bridge has not overwritten a copy that guest code counted inline,
\* a string's representation is not freed while a string has it, and only one of
\* which a drop was overwritten stays behind (guest_string_dispose_rep).
StringsSound == component = "strings" => Strings!StringsSound

\* The tables of mutexes, of directories, of Cg objects and their strings, and of
\* what runs once, each give out what their key stands for (see their modules).
TablesSound ==
  CASE component = "mutexes" -> Mutexes!MutexesSound
    [] component = "directories" -> Directories!DirectoriesSound
    [] component = "cg" -> Cg!CgSound
    [] component = "once" -> Once!OnceSound
    [] OTHER -> TRUE

\* Both images are bound as dyld would bind them before any of their code runs,
\* and the address space is left as the files say (build_transition_bridge,
\* bind_companion_imports).
ImagesSound == component = "images" => Images!WordsSound /\ Images!PagesSound

\* The image build.py publishes is what the decryptor left in the attempt that
\* succeeded, never the wrapped or a short one (steam_unwrap.c, build.py).
UnwrapSound == component = "unwrap" => Unwrap!UnwrapSound

\* What Steam keeps of a save reads as what was written, on either system.
CloudSound == component = "cloud" => Cloud!CloudSound

\* CoreAudio plays what the guest produced in this render and silence where it
\* produced nothing (host_audio_callback).
RenderSound == component = "render" => Render!HeardSound

\* An import is answered by the first handler that knows its name, whatever the
\* memos hold and whoever else dispatches (lp32_dispatch_import).
DispatchSound == component = "imports" => Imports!DispatchSound

=============================================================================
