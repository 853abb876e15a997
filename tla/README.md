# PopSilicon: a formal model

PopSilicon runs the i386 Mac builds of a family of PopCap games on Apple
silicon. A 64-bit host process maps the guest's 32-bit image below 4 GB, switches
to compatibility mode to run it, and answers every import of the guest from a
bridge written in C and Objective-C (`src/native/src`). A SwiftUI installer
(`src/PopSiliconInstaller`) and a Python build (`src/tools/build.py`) produce the
bundle and can swap it in for Steam's copy of a game.

This directory holds TLA+ modules of the parts of that system whose correctness
depends on the order in which things happen, TLC configurations that check them
on small instances, and TLAPS proofs of the most important results. All source
paths below are relative to the repository (`src/` is its root here).
`PROJECT.json` is the index: it maps each definition to the lines it stands for,
and lists the runs, the mutants (plausible bugs that each property does catch),
the hazards, the findings and the theorems.

## 1. The system

### 1.1 Inventory

| Component | State it keeps | Operations | Hard behaviour | What makes it correct |
|---|---|---|---|---|
| **MP semaphores** (`compat_runtime.c` 160-275, 5540-5690) | a table of slots, each with lock, condition, value, maximum, generation; a high-water mark; a count of live ones | create, delete, signal, wait | waiters against deletes and slot reuse; lock-free reads during the scan; 16-bit generations | a stale handle never reaches another semaphore; no sleeper is left behind; no token beside a sleeper |
| **pthread mutexes and conditions** (740-1110) | an array of guest condition addresses with their host conditions and, for some titles, gates (waiters, token); an array of guest mutexes with a cache of indices | init, destroy, lock, unlock, wait, timed wait, signal, broadcast | guests that signal without the mutex, renew a condition under its waiters, reuse memory of a destroyed one | no wakeup lost on a thread in its wait; registry points at live hosts; lock order has no cycle |
| **Guest execution** (`compat_runtime32_call`, `lp32_guest_execution_enter/leave`, `import_gateway.S`, `mode32_switch.S`) | per-thread depth, stack slot, trap flags; the bitmap of slots; an optional execution lock | call, import, trap, return, escape, thread create and exit | nested calls through imports, threads that end inside an import, refused calls | one guest thread at a time with the lock; no shared stack; a trap ends the right call |
| **FILE handles** (430-560) | slots with handle and host `FILE*`; round-robin index; active count | open and register, look up, use, close | close during use; capacity; handles with three generations | no leak, no use after close, stale handles rejected |
| **Directory handles** (`compat_runtime.c` 310, 550-575, 5180-5225) | slots, one guest `dirent` each | opendir, readdir, closedir | opens and surplus closes outside the lock; slots without generations | no host `DIR` leaks or has two owners; a handle reads what it opened |
| **Guest heap** (1958-2550) | blocks with headers and footers in guest memory, free lists, statistics | malloc, free, realloc, calloc | stale headers and footers; realloc in locked steps with a copy between | blocks tile the heap, content is kept, the books balance |
| **Import dispatch** (3126-3218, 3900-3924, 4323-4431, 5783-5825) | memo tables from import number to stage and handler | dispatch | memos filled without a lock, from a flag that nested calls write | a remembered handler is the one a fresh lookup finds |
| **C++ strings, `pthread_once`, static guards** | reference counts and control words in guest memory | copy, assign, once, guard acquire/release/abort | initialisation raced by a second thread | one initialiser; its result is seen complete |
| **Cg objects** (1809-1935, 4471-4598) | handles, guest copies of strings | create, destroy, get a string | addresses and buffers that come back | a string given out stays while its program does |
| **Audio callbacks** (`audio_bridge.c` 300-1460, `peggle_audio.inc`) | an append-only table of contexts, each with lock and handshake state; queue of jobs on the IO thread's stack; queue of deferred graph operations | register, remove, render, retire, dispose a graph | CoreAudio's IO thread, a pool of workers, the deferred worker and the game's threads, with removal from inside a render | no lock cycle, a removed callback is silent, teardown takes only what it should |
| **Audio graphs, hold and pool** (`audio_bridge.c` 245-331, 1254-1992, 2250-2670) | per-graph pending operations; the hold on callbacks; a pool of prepared graphs | build, initialise, start, stop, close, drain; hold; learn, refill, take | synchronous calls behind queued ones; a template changed during a refill | calls take effect in the guest's order; the hold ends; a pooled graph equals its template |
| **Frame loop, display link, run loop** (`compat_runtime.c`, `objc_bridge.m`) | pending frames, timers, the AppKit run loop | tick, post, run | callbacks on threads of CoreVideo | one frame in flight |
| **Objective-C bridge** (`objc_bridge.m`, `objc_guest_class.inc`) | handle table guest ↔ host object, guest classes | message send, retain, release, class creation | retain counts on both sides | no handle outlives its object |
| **Mach-O loader** (`macho_loader.c`) | address space, segments, imports, relocations | map, collect, rebase, protect | order of writes and protections; mappings of the host in low memory | images are bound as dyld would, reservations stay |
| **Game loader and profiles** (`game_loader.c`, `game_profile.c`, the bridge in `compat_runtime.c` 1424-1765, 3557-3860) | the profile, thunks, cells, patches | patch, bind, load companion, run initializers | two images bound one after the other | no initializer before both are bound |
| **Steam DRM unwrapping** (`steam_unwrap.c`, `tools/build.py` 83-122) | Valve's two images, the shims, the staged file | load, bind, hand over, write, retry | Steam refuses, the guest exits half way, the same staging file again | what is published is the text of the attempt that succeeded, never the wrapped one |
| **Steam Cloud and saves** (`steam_cloud.c`, `pvz_save.c`) | initialisation flags, the cloud's files | init, shutdown, interface, read, write, convert | two layouts told apart by size | no save is misread or lost in a conversion |
| **Classic toolbox** (`classic_toolbox.inc`) | Carbon handles and resources | NewHandle, HLock, GetResource … | few | handles are live |
| **Peggle, Chuzzle, Feeding Frenzy bridges** (`peggle_*.inc`, `chuzzle.inc`, `feeding_frenzy.inc`) | windows, BASS channels, a registry | translation of calls; C++ exceptions | unwinding across the bridge | |
| **GL dispatch** (`gli_dispatch.inc`, `arb_program_guard.c`) | none of its own | forwarding, shader text checks | none | |
| **Guest profiler** (`guest_profiler.c`) | counters | sample | none that the program depends on | |
| **Installer session** (`InstallerModel.swift`, `BuildRunner.swift`, `SteamLocator.swift`) | selected game, phase, installed state | select, build, bulk update | selection changed during an `await` | results are applied to the game they are of |
| **Steam replacement** (`SteamReplacementRunner.swift`, the bundle's part of `tools/build.py`) | four paths on disk | build, make launchable, move aside, place, restore, clean up | failures, kills, two runs on one game | the game is never lost; the backup is Valve's |
| **Build pipeline** (`tools/*.py`) | files | copy, compile, sign | failure part way | covered by Steam replacement as far as the bundle goes |

### 1.2 Interactions

* The guest's threads reach every runtime table through **imports**, which run
  as host code outside the execution lock. So every table is entered by any
  number of threads at once, and by the same thread again from a nested call.
  The modules of tables therefore let every thread do any operation at any time,
  and give each lock-protected stretch of code one action.
* The **audio** code calls back into the guest from its own workers, which are
  then guest threads like any other: they may register and remove callbacks,
  wait on conditions and signal semaphores.
* The **games' own** protocols on the runtime's primitives are what several
  comments in `compat_runtime.c` describe. Two of them are modelled as clients
  of the condition variables (`CondClients`), one of them together with the
  audio hold, which is what it can deadlock with.
* The **loader** binds the game, then the companion library the same way, then
  runs both images' initializers; only then do guest threads exist.
* The **installer** and the bundle share only the file system; the **unwrapping**
  is a run of the loader that `build.py` repeats.

### 1.3 Status

Modelled: MP semaphores, FILE and directory handles, guest heap, Mach-O loader,
Steam Cloud and save conversion, Steam replacement. Partly: mutexes and condition
variables, guest execution, C++ strings with `pthread_once` and guards, Cg
objects, import dispatch, game loader, Steam unwrapping, audio callbacks, audio
graphs with hold and pool. `PROJECT.json` says of each what is left out; section
7 says why of the components that are not modelled.

## 2. The modules

```
SemaphorePromise  <-- implements --  GuestSemaphore  <- MCGuestSemaphore
                                          ^-- GuestSemaphoreProofs
GuestCond  <- MCGuestCond, GuestCondProofs
    ^-- CondClients                        (programs on the conditions)
GuestExecution  <- GuestExecutionProofs
AudioCallbacks  <- AudioCallbacksProofs
AudioGraphs  <- AudioGraphsProofs
GuestFiles, GuestHeap  <- GuestLibraryProofs
SteamReplacement  <- SteamReplacementProofs
GuestStrings  <- MCGuestStrings
Components  -- one INSTANCE of each of --
    GuestFiles  SteamReplacement  GuestHeap  GuestStrings  GuestMutexes
    GuestDirectories  CgObjects  GuestOnce  GuestImages  SteamUnwrap
    SteamCloud  AudioRender  ImportDispatch
Components  <- MCComponents, ComponentsProofs (from GuestLibraryProofs, SteamReplacementProofs)
```

`Components` holds the instances of the modules that share nothing with one
another, and `MCComponents` gives them TLC's constants. A behaviour takes the steps of one of them, chosen at the
start, and leaves the others as they began. Their state spaces add up instead of
multiplying; nothing is lost, because no two of them touch the same state.

Conventions. A thread's place in a call is `pc[t]`; `run` (or `idle`, `host`) is
outside any call. A stretch of code under one lock is one action, because no
other thread can see its middle; where the code reads shared state without the
lock, or drops the lock in the middle, there is an action boundary. Variables
marked *history* in a module exist only to state properties. Constants marked
`BOUND` do not exist in the code and only keep the state space finite.
Definitions that no action uses, beside the ones they resemble
(`KeepsResponse` beside `ClearsResponse`), are the faulty variants that
`PROJECT.json` substitutes to show that a property can fail. Where a property is
a conjunction, the module has such a variant for its other parts too.
A module with proofs keeps most of the inductive invariant they rest on after its
properties, where TLC can evaluate it as well.

### 2.1 GuestSemaphore and SemaphorePromise

`GuestSemaphore` follows `MPCreateSemaphore`, `MPDeleteSemaphore`,
`MPSignalSemaphore` and `MPWaitOnSemaphore` lock by lock. Creation holds the
table's lock across the scan; the scan reads, without the slots' locks, which of the
slots below the high-water mark is free (`ScanNext`, `ScanFree`) and otherwise
takes the slot at the mark (`ScanHighWater`, `ScanExhausted`); the commit takes
the slot's own lock. The other operations take only the slot's lock, so they run
against a creation's scan. A handle is a record of slot and generation; the
generation is odd while the semaphore lives, advances on create and delete, and
wraps at `GenerationModulus` (2^16 in the code). A waiter sleeps
on the slot's condition (`WaitSleep`), is woken by a signal, a delete or
spuriously, and looks again at value and generation (`Recheck`).

`SemaphorePromise` is what a guest may rely on: semaphores are identities, never
reused; a signal adds a token up to the limit, a wait takes one from a live
semaphore, and every operation on a dead one is refused. `ImplementsPromise`
maps slots to incarnations and checks that each step of the table is a step of
the promise or a stutter.

Left out: failure of the host's `pthread_mutex_init`. The skip of generation zero
at line 247 is in the model (`NextGeneration`) and never happens, for a creation
always arrives at an odd generation (`LiveGenerationsOdd`). `MPWaitOnSemaphore`
treats any duration but zero as infinite, and so does the model.

### 2.2 GuestCond, CondClients, GuestMutexes

`GuestCond` models the registry (`guest_conditions`), the gate around each host
condition, and the calls `pthread_cond_wait`, `_timedwait`, `_signal`,
`_broadcast`, `_init` and `_destroy`, together with the guest mutex the caller
names. `gated` is the running title's choice of gates, fixed at the start. With a gate, a wait first
consumes a token if there is one (`GateToken`); else it counts itself as a waiter and drops the
guest's mutex (`GateEnter`), sleeps on the host condition under the gate's lock
(`Park`), leaves the gate (`GateRetake`, `GateLeave`) and retakes the mutex
(`Relock`). A wake that finds no waiter leaves a token (`GateWake`). Without a gate the
host condition is waited on with the guest's mutex (`HostWait`, `HostWake`). Either
way a wait without a deadline is cut into slices (`Expire`, `GUEST_COND_WAIT_SLICE_NS`).
`pthread_cond_init` on a registered address wakes
everybody and clears or revives the entry (`Initialize…`).

`CondClients` extends it with two programs of the games. With gates, the
engine's worker, whose `DoTask` signals without the mutex the worker waits
under. Without gates, the release of a sound: the maintenance that signals it
runs inside a render callback, and `audio_bridge.c` keeps renders from the guest
while no frame is presented (`HoldActive`), which is the case while the game
waits for the maintenance. The hold gives way to a known frame thread's wait
(`FrameThreadWaits`) or to its cap (`Limit`), and a signal lost in between costs
one slice.

`GuestMutexes` is the mutex table beneath: the linear table, the direct-mapped
cache of positions that nothing invalidates (`Hit`), the compaction of a destroy
(`LastMovedTo`), the recycling of host mutexes, and the fast paths of lock, trylock
and unlock. Lookup and lock are two steps. The guest does not destroy a mutex
that another thread is about to lock.

### 2.3 GuestExecution

One variable per thread-local of `compat_runtime.c`: `depth`, `slot`,
`heldFlag`, `trapped`, `leave`. `Call` is the entry of
`compat_runtime32_call` up to the switch; `Enter` the switch into the guest with
the execution lock; `Import` the gateway's departure to host code, in which
calls, threads and traps may happen; `Resume`/`Escape` what the gateway does
when the dispatch returns; `Exit` the guest function's own return. `CallRefused`
is the early return for want of a stack slot or a slice: it sets one of the two
trap flags only. `ThreadEnds` covers both ways a thread ends, through the
thread-local's destructor.

The flags are per thread and not per call. A trap in a call nested in an import
leaves `leave` set when the nested call is over; whether the outer call is
abandoned depends on whether another call clears the flag first. The model has
both; no document says which is meant, so no property demands either.

### 2.4 GuestFiles, GuestDirectories, CgObjects

The table of `FILE` handles with its round-robin allocation and three
generations per slot, one standard stream (fixed handle, no slot), and uses that
keep `guest_file_lock` while the host's `FILE` is used. A comment at
`compat_runtime.c:488` counts at least 3,072 opens before a handle comes again.
That is so while closes keep pace over the whole table; when all the other slots
stay busy one slot takes every open and comes round after its three generations.
What holds in general, and is checked, is the form per slot
(`StaleRejectedForACycle`). The `__sF` addresses of the standard streams are
left out.

`GuestDirectories`: a handle is a slot's number, without a generation, and each slot
has one guest `dirent` that stays with it. The guest does not use a handle after
its close; what happens if it does is not said anywhere, and no property covers
it.

`CgObjects`: a handle for every pointer Cg returns, and guest copies of the
strings Cg owns, found by pointer and owner, refreshed when the host's buffer has
changed (`Refreshes`) and released with their program (`Releases`, a step after
the host's destroy). A larger block that cannot be had leaves the entry as it is
and answers 0; a table that cannot grow is left out. Cg itself is external and
reuses addresses and buffers. The instance has one thread that uses Cg, as the
games do (`OneCgThread`); with two, a program could be made again under the handle
whose strings another thread is still dropping.

### 2.5 AudioCallbacks

Threads: CoreAudio's IO thread (external), the audio workers, the game's threads
and the deferred worker. Contexts are numbered as in the table, with one
variable per field. The IO thread's part is `host_audio_callback`
(`QueuesJob`, `RenderReturns`), the workers' is `audio_callback_worker`
(`TakesJob`, `EntersGuest`, `Responds`), registration is `new_audio_callback`
(`Claims`) followed by an attachment, removal goes through
`enqueue_callback_release` (`Retires`, `Releases`), and the deferred worker runs
`perform_graph_op` (`PerformsAdd`, `Stops`, the two walks of the table,
`DisposesGraph`). Every taking of a lock is an action boundary. The guest's call of
`DisposeAUGraph` (`CallsDispose`) mutes the graph's contexts one after the other,
without a lock (`Mutes`), and then retires the handle and queues the rest
(`Disposes`). The test of a context's graph and the store of its muting are one step.

What is assumed of CoreAudio, and marked external: it calls the contexts that
were attached when its cycle began; removing a render notification does not wait
for a render in progress (the comment at `audio_bridge.c:420` assumes the same);
`AUGraphStop` returns when no cycle holds the graph's callbacks any more
(comment at 1342); it may give a disposed graph's address to the next; an
attachment or detachment may fail. One IO thread, as the code's comments
say; the module itself takes any set of them, and the proofs name what needs the
one (`OneIOThread`). Of the guest: it does not dispose a graph while
registering on it, nor registers on one it is disposing.

Left out: `SetRenderCallback`, `AudioUnitRender` and
`AUGraphSetNodeInputCallback` on a unit of its own; the environment variable
`LP32_SYNC_AUDIO_TEARDOWN`, whose path disposes before it releases, the opposite
of the order the comment at 1447 asks for. `pg_render_notifies` has no lock in
the code; each use of it is one step here, so a race inside it is not shown.

### 2.6 AudioGraphs and AudioRender

`AudioGraphs` takes one guest thread through the life of its graphs: built by
calls made at once (`Builds`, `Records`, up to the capacity of a
topology: `Recorded`), initialised, started, stopped and torn
down through the queue (`Enqueues`, `Queues`), with the drain
(`Drained`) before calls that must see the queue's effect, and the swap for a pooled
graph at the open (`TakesPooled`, `SwapsGraph`). The deferred worker performs
operations (`PerformsOp`, `FinishesOp`) and refills (`RefillReads`,
`RefillBuilds`, `RefillStores`). CoreAudio is external: `After` says what a call
does to a graph, `FirstFree` gives a disposed graph's address to the next one.
`want` is the history of what the guest's calls add up to. `Modes` are the
environment's variants and a worker that could not be started. A topology is
cleared when its graph is disposed, and a graph whose callbacks could not be
detached is quarantined: it is never given back. Failure of `calloc` is left
out, and a guest thread works on one graph at a time.
`Persists` says whether the guest sets parameters of a graph whose teardown may
still be queued; with it, `CallsInOrder` fails (run `audio_volume`).

`AudioRender` is what one render copies: the description laid before the guest
(`AsksGuest`), the guest's answer, which may have rewritten it, and the
copy-back (`CopiesBack`). A context that is released in between is
`AudioCallbacks`' matter (run `audio_stranded`). Buffers past the bridge's maximum are
ignored by the code and by the model; a render for which no memory can be had
leaves the host's buffer as it was, and the property says nothing of it.

### 2.7 GuestHeap, GuestStrings, GuestOnce

`GuestHeap` keeps the guest's memory as the code sees it: headers, footers and
what was written, in units of 16 bytes, with stale words of merged and split
blocks still there. Every call is one step under the lock, but for calloc's
clearing (`Clear`) and a realloc that moves (`MoveAllocates`, `MoveCopies`,
`MoveDrops`), between whose steps other owners allocate, free and extend. Sizes
near 2^32, free lists the guest has overwritten, and the reports are left out.

`GuestStrings`: representations with reference counts, changed by the bridge
under `guest_heap_lock` and by the guest's inline code with locked
instructions, which take no lock of the bridge's. An import runs outside the execution lock
(`import_gateway.S:14` leaves it before the dispatch), so an inline copy or drop
may fall between the bridge's read of a count (`DisposeReads`) and its write
(`DisposeWrites`), which overwrites it. The histories `copyErased` and
`dropErased` remember which of the two happened, and what holds is said in their terms; a copy
overwritten is finding 5. What the game does after a string has lost its
representation is not followed.

`GuestOnce`: `pthread_once` with one recursive lock for all controls, and the
`__cxa_guard` calls, which do not block. A static raced by two threads is built
twice, with the execution lock too when its constructor calls an import, which
gives the lock up. No document promises more, and no property demands it.

### 2.8 GuestImages, ImportDispatch

`GuestImages` loads the game and, for one title, its companion library: the
reservation and its release, the mapping of segments, the collection of
imports (`CollectIndirect`, `CollectExternal`, `CollectLocal`), protection; then the bridge's
stubs, thunks, pointers and cells, written through a window of two pages that is
opened and closed (`OpensWindow`, `ClosesWindow`); then the profile's patches
and the initializers. A word stands for one entry of a table, with its kind and
its use; the instance takes every combination of kinds of words in a small
image. An undefined data relocation adds the symbol's value to what the word holds
(`Past`), so that a second or a missing addition would show. What a malformed file is refused for is one failing step (`Fails`).

`ImportDispatch`: the chain of handlers an import is offered to, and the two
memos that shorten it, the stage (`Slot`, `Handled`) and the direct handler
(`Resolve`), with nested dispatches and several threads. A name is the set of
handlers that know it. What a handler computes is left out, and that hides one
difference: the direct handlers of `___udivdi3` and `___divdi3` answer zero for a
zero divisor (`compat_runtime.c:4242`), where the first call's handler divides
(`peggle_libc.inc:494`).

### 2.9 SteamCloud, SteamUnwrap

`SteamCloud`: the initialisation of Steam once per process, the interface, and reads and
writes that convert profiles between the Mac's and Windows' layout.
The layout is told from the size alone; `Fits` and `IsAmbiguous` are the code's
arithmetic, evaluated on contents whose sizes fit one layout or both. Another
machine may save between this game's sessions (`WindowsSaves`, external).

`SteamUnwrap`: the loader binds Valve's two images word by word, overrides the
imports it must answer (the shims), lets the external decryptor run, and writes
the image; `build.py` repeats the run on a refusal. The write is not atomic
and the staging file is the same each time. The call into Valve's code ends wherever it
returns or traps, and the loader only warns of a trap (`LeavesGuest`); a fault ends the
attempt (`GuestFaults`). So the memory may be decrypted half way when it
is written: the code refuses only a text that is wholly unchanged, and the model publishes the
`mixed` image as the code would.

### 2.10 SteamReplacement

`SteamReplacementRunner.run`, one action per file operation, over four paths: the
target, `.bak`, and the two temporary ones. A bundle is abstracted to what it
can be used for. Any operation may fail (`Fault`), the installer may be killed
(`Crash`) between any two, and a second run may be begun where
`InstallerModel` allows it: a bulk update does not exclude a single one
(`MayBegin`). The build writes into whatever is at the temporary path, so two
overlapping runs can leave a `mixed` bundle.

## 3. The runs

Bounds apply to all threads together; the numbers are distinct
states.

| Run | Instance | What it shows |
|---|---|---|
| `semaphore` | 3 threads, capacity 3 (2 usable slots), modulus 16, limit 2, 3 creations; fair | table and handle invariants, refinement of `SemaphorePromise`, waiters of deleted semaphores return. 191,583 states |
| `cond` | 3 threads, 2 objects, 3 hosts, 1 mutex, a title with gates or one without, 1 renewal; symmetric | registry, waiter counts, wakes and lock order. 1,279,802 states |
| `clients` | 2 threads, each title's program, holds with a cap, without one, and with a waiter known or not; fair | the gate's token saves the unlocked signal; a lost wakeup and the audio hold cost the release time, never the game. 1,590 states |
| `execution` | 3 threads, 2 stack slots, 2 slices each, lock on, 6 calls; fair | serialisation, stacks, trap flags, no starvation. 95,287 states |
| `components` | thirteen instances, see below | each component's invariants. 624,933 states |
| `audio_callbacks` | 1 IO thread, 1 worker, 1 game thread, the deferred worker, 1 graph address, 2 contexts, 3 registrations | deadlock freedom without registration in a render, silence after removal, teardown. 553,413 states |
| `audio_graphs` | 1 guest thread, 3 addresses, 2 graphs, 1 teardown, pool of 1, all four modes; fair | order of a graph's calls, silence after a stop, the pool, drains end. 748,236 states |
| `files_standard` | files as in `components` with a guest that closes a standard stream | *violation*: the fixed handle still reaches the closed FILE |
| `strings_shared` | strings as in `components`, the default configuration | *violation*: an inline copy falls into the bridge's disposal, and a representation is freed under its owner |
| `audio_stranded` | callbacks with 2 registrations | *violation*: a reused context loses the answer of the last render |
| `audio_circle` | the same where callbacks register callbacks | *violation*: a cycle of locks with a teardown |
| `audio_volume` | graphs where the guest writes parameters of one it has initialised again | *violation*: the parameter is dropped |

The instances of `components`, in `MCComponents.cfg` and `MCComponents.tla`:

| Component | Instance | States |
|---|---|---|
| `GuestFiles` | 2 threads, 2 slots, 3 generations, 5 opens | 24,015 |
| `SteamReplacement` | 2 runs, 4 starts, 2 faults, 1 kill, every starting installation | 70,346 |
| `GuestHeap` | 3 owners, 2 sizes from 2 sites, 12 units of memory, 5 allocations, with and without reuse and poisoning; symmetric in two owners | 109,524 |
| `GuestStrings` | 2 threads, 3 objects, 3 representations, counts to 3 | 210,729 |
| `GuestMutexes` | 2 threads, 3 addresses on 2 cache lines, 3 host mutexes | 73,876 |
| `GuestDirectories` | 2 threads, 2 slots, 5 opens | 13,009 |
| `CgObjects` | 2 program addresses, 2 buffers, listings of two sizes, blocks to be had or not | 40,213 |
| `GuestOnce` | 2 threads, 3 controls for 2 entries, nested calls | 2,181 |
| `GuestImages` | games with every combination of 2 stubs and 2 pointers, companions with 2 stubs and 1 pointer | 51,714 |
| `SteamUnwrap` | 3 pages of text, one word of each kind, 2 attempts | 526 |
| `SteamCloud` | 2 threads, 1 profile, 6 contents, 4 calls | 467 |
| `AudioRender` | buffers of 1 to 3 samples, any sequence of renders | 1,791 |
| `ImportDispatch` | 2 threads, 7 pairs of names, nesting of 2 | 26,542 |

Why the bounds are enough to be interesting:

* **semaphore**: three threads are what it takes for a delete, a signal or a
  token-stealing wait between a sleeper's wake and its recheck. A capacity
  of three is two usable slots (slot 0 is never used), so a scan passes a slot
  in use, finds a free one, moves the mark, or fails. Three creations cannot wrap a modulus of 16 (two steps each),
  which is the theorem's hypothesis `NoWrap`.
* **cond**: two objects share three hosts, so one can be destroyed and its host
  taken over, revived or cleared by the other; three threads give a waiter, a
  waker, and a renewer. `MaxRenewals` bounds only initialisations and destroys;
  waits and signals are unbounded. Symmetry in the threads, objects and mutexes
  is sound: no constant singles one out and no liveness property is checked in
  this run.
* **execution**: one slot less than threads makes refusals happen, depth two
  makes nesting and depth refusal happen, and six calls are enough for each thread
  to nest once or for one thread to trap, go on and trap again.
* **components**: *files*, capacity two with five opens exhausts the table and takes a
  slot through its whole cycle of three generations (four registrations of one slot).
  *Replacement*, a rollback that fails needs the second of two faults, a kill
  followed by another start leaves temporaries in place, and four starts let
  two runs follow a pair. *Heap*, twelve units hold blocks of
  both sizes with a free one between two others, so that both merges, a split, an
  extension into a free neighbour, reuse over stale headers, and exhaustion all
  happen; the second site finds the site table full. *Mutexes*, two of the three
  addresses share a cache line, and a destroy of the first moves the last. *Once*, the third
  control finds the table full. *Strings*, three objects let two threads drop a
  shared representation while a third reference stays; a count of three is more than
  the objects can share, so `MaxCount` only stops what counts too high after an
  overwritten drop. *Images*, words of two
  pages in one stub make the window hold two pages; thunk, cell and import
  limits are reached. *Imports*, a number of the image and one of the dynamic
  symbols with the same index, of every pair of kinds that have different handlers.
* **audio_callbacks**: three registrations over two contexts force a reuse. A
  second graph address adds nothing that reuse of the first does not: no step
  of a teardown looks at another graph except to skip it, and unit callbacks,
  owned by no graph, are there to be skipped. A second worker only matters for
  two renders at once, which one IO thread cannot have.
* **audio_graphs**: three addresses are the guest's graph, a pooled one and one
  under a refill; two graphs let the second be swapped, after the first taught
  the template; capacity one makes a topology overflow. `MaxQueue`
  stops the guest, not the worker, when the queue is one long.

Deadlock is checked in `cond`, and in `semaphore`,
and is off where the system may stop: a guest may have used up its calls, files or
registrations, and an installer ends.

### Findings

1. **A closed standard stream stays reachable** (`files_standard`).
   `guest_close_file` closes the host's stream, but the fixed handle has no
   entry to clear, so the next use is of a closed `FILE`.
2. **A render may be stranded** (`audio_stranded`). A context can be released
   and claimed anew between a worker's answer and the render thread's return
   from its wait; claiming resets `response_ready` and the render thread waits
   on. It takes a removal from another thread at that moment.
3. **A cycle of locks** (`audio_circle`). The teardown walks keep the registry's
   lock while they queue for every context's lock. A worker keeps its context's
   lock across the guest's render, and registering a callback in it needs the
   registry's lock.
4. **A volume is dropped** (`audio_volume`). A parameter set while a teardown of its
   graph is still queued is ignored, although the guest has initialised the graph
   again behind it.
5. **A string freed under its owner** (`strings_shared`). The bridge's decrement
   of a representation's count is a plain read and write under the heap's lock,
   which the guest's locked instructions do not take. The execution lock does not
   help: an import gives it up first. The trace is a disposal overtaken by another
   thread's inline copy.

Noted while modelling and not a run: generations of semaphores have 16 bits, so
after 32,768 cycles of one slot a handle is given out again (the comment at
`compat_runtime.c:170` promises that *any* stale handle is rejected).

## 4. Properties

Besides a type invariant in each module:

* **NoStaleSleeper, NoLostWakeup, DeletedWaiterReturns** – a thread sleeps only on
  the semaphore it asked for; a token and a sleeper exist together only while a
  woken thread is on its way to the token; deletion frees every waiter.
* **StaleHandleRejected** – an operation that succeeds acts on the semaphore its
  handle was made for. **TableExact** – the counter of live
  semaphores is right but for the calls between a slot's lock and the counter, and
  a slot's generation tells whether it is in use, so only half of its values are
  ever handed out.
* **WaitersExact, RegistrySound** – gates count their waiters
  across renewals, and a registered address leads to a host that is not destroyed.
  This is about the registry, and not about a host that was looked up before it was
  destroyed and recycled.
* **WakeNotLost** – a wake reaches a thread that has announced its wait, parked or
  not. It is conditional on no renewal overtaking the waiter (history
  `overtaken`): a renewal wakes everybody, which is another guarantee. A wake's
  stale lookup is covered; what a wait may cost that goes to sleep on a
  host object recycled since its lookup is not.
* **LockHolderRuns** – whoever holds a host lock has a step it can take: no order
  of locks is circular.
* **TaskIsTaken, ReleaseReturns** – the two games' protocols work on these
  conditions, the second beside the audio hold.
* **GuestIntervalsSerialized, StacksDisjoint, NoPendingEscape, TrapReportHonest,
  GuestRuns** – see 2.3 and the comments in the module.
* **FilesSound** – no FILE is leaked or shared, at capacity too; none is used after
  its close; a stale handle is rejected for its slot's cycle.
* **GameNeverLost, BackupKept, RunsEndWell** – a playable bundle exists at every
  moment and `.bak` is only ever Valve's; no run removes a backup it did not make; a
  failed run undoes itself, a successful one has installed, and two runs that
  overlap leave a bundle where Steam looks for it.
* **HeapSound, ContentKept** – blocks tile the heap, every free one is in its bin
  and no two lie side by side unmerged, and the statistics are those of the blocks; what
  a guest wrote stays until it frees the block, through a realloc among others'
  calls.
* **StringsSound** – unless the bridge has overwritten an inline copy, no
  representation is freed while a string has it, and one that stays behind with
  nobody to free it is one of which an inline drop was overwritten.
* **TablesSound** – mutexes: an address keeps its host mutex through compaction,
  recycling and stale cache lines. Directories: host `DIR`s have one owner.
  Cg: a string given out stays while its program is there, and no longer.
  Once: an initialiser runs once, and nobody returns before it has ended but itself.
* **ImagesSound** – each word has its value once and each name its answer; no
  write meets a read-only page; protections end as the file says; reservations
  and the host's mappings stay; initialisers run last.
* **UnwrapSound** – what is published is the text that the attempt which
  succeeded left in memory, after Steam's confirmation, never the wrapped one and
  never a short write; Valve's words are slid or bound once. That it is wholly
  decrypted does not hold, see 2.9.
* **CloudSound** – what is in the cloud is in Windows' layout, what the game gets is the same
  content in the Mac's, and no file is misread.
* **RenderSound** – CoreAudio plays what the guest produced in this render,
  silence where it produced nothing, and what a notification only observed.
* **DispatchSound** – an import is answered by the handler a fresh lookup finds.
* **CallsInOrder, StoppedIsSilent, PoolSound, DrainReturns** – CoreAudio's graph
  will be what the guest's calls add up to; a stopped graph does not enter the
  guest; graphs have one owner and pooled ones the template's shape; waits for
  the queue end. Callbacks do not run in this module, so a callback that itself
  drains, and would wait for the `AUGraphStop` that waits for it, is not covered.
* **NoLockCycle, LiveKeepsContext, StackJobsAwaited, RetiredIsSilent** – no ring of
  threads each waiting for the next; a registration the guest still wants keeps
  its context whatever is torn down, muted at most while its own graph is being
  disposed; the render thread does not leave while a job on its stack is queued or
  running; a callback given up is not entered again.

## 5. Fairness

Every liveness property states what the host's scheduler is trusted with, and
nothing is assumed of a guest's decision to make a call.

* **Semaphores** (`Fairness`): a thread inside a call keeps running, and a lock
  it waits for is eventually its turn. A sleeper is not assumed to be woken.
* **CondClients** (`CSpec`): weak fairness of the worker's loop, of the game's
  steps, of the clock and of the signal that follows a set flag; strong fairness
  of the audio thread's steps and of steps that take a lock, because another thread may
  take it in between. Expiry of the worker's timed wait is **not** fair: the task
  must be taken without it. Expiry of an untimed wait is, because it is cut into
  slices of bounded length.
* **AudioGraphs**: weak fairness of the deferred worker and of the return of a
  guest's call from the drain. Nothing is assumed of the guest.
* **Execution**: strong fairness of entering the guest (a mutex among threads),
  weak fairness of the gateway's own steps and of guest code reaching an import
  or returning. Nothing is assumed of an import: it may block for ever, which is
  why the lock must not be held across it.

## 6. Proofs

TLAPS proves what follows for every value of the constants (any set of threads,
any capacity, modulus, depth, number of runs or faults), from the named
assumptions in each module. Those say that constants are numbers or sets of the
kind the code has, that threads of different kinds are different and that `None`
is nothing else; TLC evaluates them or an instance of them in the runs. Further
hypotheses stand in the theorem.

Each invariant is first checked by TLC, as an invariant of the component's run
and of larger instances, and then proved inductive with one lemma per action.

### 6.1 Semaphores

| Theorem | States |
|---|---|
| `TypeCorrect` | `Spec => []TypeOK` |
| `WaitInvariant` | `Spec => []WaitInv`, the inductive invariant of waiting |
| `NoStaleSleepers` | `Spec => []NoStaleSleeper` |
| `NoLostWakeups` | `Spec => []NoLostWakeup` |
| `HandleInvariant`, `StaleHandlesRejected` | `NoWrap => (Spec => []HandleInv)`, and `[]StaleHandleRejected` |
| `GenerationsTellUse` | `Spec => []LiveGenerationsOdd` |
| `CountsBalance` | `Spec => []CountBalances` |
| `IncarnationInvariant` | `NoWrap => (Spec => []IncarnationInv)` |
| `TablesExact` | `NoWrap => (Spec => []TableExact)` |
| `SlotTableImplementsPromise` | `NoWrap => (Spec => ImplementsPromise)`, the refinement of `SemaphorePromise` |

`NoStaleSleeper` is not inductive: that a creation does not put a new semaphore
under an old one's sleepers needs that it writes only to a slot it has found
free and that nobody else has taken since (`ScanFindsFree`), which needs that
creations exclude each other (`CreatesAlone`). `WaitInv` is those with the two
properties of waiting. For stale handles the invariant (`HandleInv`) says that
whoever knows a pair of slot and generation, in the guest's hands, in a call or in
the table, knows the same incarnation (`HandlesKnow`, `CallsKnow`), with every generation bounded
by twice the number of creations (`GenerationsBounded`). The hypothesis `NoWrap`
cannot be dropped: with a wrap a handle comes again.

The refinement maps slots to incarnations. Its steps need the converse of
`HandleInv`: an incarnation is alive in one slot and generation at most and
whoever knows it knows that place (`SlotsPlaced`, `HandlesPlaced`,
`CallsPlaced`), and no handle to a semaphore is out before its creation returns
(`NotYetHeld`). Then a commit is the promise's creation, a step that takes a
token, adds one or deletes is that operation on the incarnation, a return is a
return, and all others (the scan, locks, sleeping, waking) are stutters. The live
counter needs sets of threads counted, `CountBalances`: the counter is behind by
the creations that have committed and not counted and ahead by the deletions.

### 6.2 Guest execution

| Theorem | States |
|---|---|
| `ExecutionInvariant` | `Spec => []IInv` |
| `ExecutionTypeCorrect` | `Spec => []TypeOK` |
| `GuestSerialized` | `Spec => []GuestIntervalsSerialized` |
| `StacksStayDisjoint` | `Spec => []StacksDisjoint` |
| `EscapesStayInTheirCall` | `Spec => []NoPendingEscape` |
| `TrapReportsAreHonest` | `Spec => TrapReportHonest`, an action property |

`StacksDisjoint` needs the bitmap and the threads' slots linked in both
directions (`SlotsHeld`), and that guest code runs only inside a call
(`Inside`). The trap reports need an invariant on the flags (`FlagsInv`): an
escape is pending only where a trap is reported, and a report without one was a
refusal. That an allocated slot is free uses the existence of a least free slot
(`LeastExists`), from the well-foundedness of `<` on the naturals.

### 6.3 Condition variables

| Theorem | States |
|---|---|
| `CondInvariant` | `Spec => []CondInv` |
| `CondTyped` | `Spec => []TypeOK` |
| `WaitersCounted` | `Spec => []WaitersExact` |
| `RegistryIsSound` | `Spec => []RegistrySound` |
| `WakesAreKept` | `Spec => []WakeNotLost` |

For any finite set of threads, any number of conditions, mutexes, host objects
and renewals, and titles with and without gates. The invariant ties every call
to what it has looked up (`CallsMatch`, `PairsKept`): a gate and a host condition
once paired stay paired, in the registry and in the hands of every thread, even
where a destroy has taken both out of the registry. Locks are held by those whose
place says so (`TableHeld`, `GateHeld`), and what the registry and the list of
retired hosts name has been allocated (`Allocated`). `WaitersExact` equates the
gate's count with the number of threads between entering and leaving, so its
steps count finite sets. A wake is kept for a different reason: as long as no
renewal has overtaken a waiter, waits are on the registry's present pair and asleep
in the host's present life (`WaitsFresh`), so a signal on a live host finds them, and a wake that is
owed is the gate's token or has a thread on its way out (`OwedMet`).

### 6.4 FILE handles and heap

Both are in `GuestLibraryProofs`.

| Theorem | States |
|---|---|
| `FilesInvariant` | `FilesAssumption => (Spec => []FilesInv)` |
| `FilesAreSound` | `FilesAssumption /\ ClosesStandard = FALSE => (Spec => []FilesSound)` |
| `HeapInvariant` | `HeapAssumption => (HeapSpec => []HeapInv)` |
| `HeapIsSound` | `HeapAssumption => (HeapSpec => []HeapSound)` |
| `HeapKeepsContent` | `HeapAssumption => (HeapSpec => [](ContentKept /\ HeapTypeOK))` |

`FilesInv` adds to the properties that a FILE between `fopen` and its
registration is in one thread's hands only (`HandsApart`), that a use holds the
table's lock (`UsesLocked`), and that a handle knows how many generations its
slot has gone through since (`HandlesCount`), which is what makes a stale handle's
rejection last a cycle. That the guest closes no standard stream is a hypothesis of
the one theorem only; run `files_standard` shows that it is needed.

The heap's theorems hold for any number of owners, sizes, sites and units, and any
choice of bins. `HeapInv` says that there is a set of free blocks such that:

* the owners' blocks and the free ones follow one another without a gap from the
  base to the cursor (`Tiled`);
* a live magic is on live blocks only, and a free block has a free one (`Tagged`):
  a stale header that a merge left behind looks free at most;
* with reuse, a free block has its footer, is in the bin of its capacity once, and
  has no free neighbour (`Footed`, `Binned`, `Blocks`);
* each site's account is the sum over its live blocks, and there is one for every
  site with a block as long as the table has room (`Booked`);
* no two owners have one block (`OwnersApart`), and what a realloc between two of
  its steps remembers fits the block it found (`CallsMatch`).

`Blocks` has a further argument, the blocks that a call has in hand between taking
them from their bins and giving them out: unlinking, merging, splitting and
inserting each have a lemma about what they do to the three sets, and a call is
proved as their sequence. The walk over the headers and the sums are recursive
functions, treated as in 6.7.

### 6.5 Steam replacement

| Theorem | States |
|---|---|
| `ReplacementInvariant` | `ReplacementAssumption => (Spec => []ReplacementInv)` |
| `GameIsNeverLost` | … `[](GameNeverLost /\ BackupIsOriginal)` |
| `RunsDoEndWell` | … `[]RunsEndWell` |
| `BackupIsKept` | … `BackupKept`, an action property |

For any number of runs, faults, kills and starts, over the installations of
`Installed`. That the game is never lost rests on who has set what aside: one
run at a time is in the middle of its swap, and what it set aside is there until
it puts it back or is done (`SwapsApart`); a backup that a run found is there
while it works, since a run that found none works alone (`BackupsStay`,
`ChecksPassed`). How a run ends rests on what each phase finds at each path
when nobody disturbs it (`Progress`), and on faults being counted, as a rollback
fails only with a second one (`Undone`).

`ComponentsProofs` carries both sections' theorems over to the composition that TLC
runs, for any set of guest threads: `ComponentFilesSound`, `ComponentHeapSound`,
`ComponentContentKept`, `ComponentGameNeverLost`, `ComponentRunsEndWell` and
`ComponentBackupKept` state the run's own properties.
A behaviour of `Components` is a behaviour of each component (`FilesBehave`,
`HeapBehaves`, `ReplacementBehaves`), as a step is one of the component or leaves it
alone.

### 6.6 Audio callbacks

| Theorem | States |
|---|---|
| `RegistrationInvariant` | `Spec => []RegistrationInv` |
| `LiveKeepContexts` | `Spec => []LiveKeepsContext` |
| `RetiredAreSilent` | `Spec => RetiredIsSilent`, an action property |
| `SingleRender` | `OneIOThread => (Spec => [](RegistrationInv /\ OneRender /\ LocksHeld))` |
| `StackJobsAreAwaited` | `OneIOThread => (Spec => []StackJobsAwaited)` |
| `NoLocksCycle` | `OneIOThread /\ RegistersInRender = FALSE => (Spec => []NoLockCycle)` |

For any number of contexts, workers, game threads, graphs and registrations, and
the first three for any number of IO threads. A registration keeps its context
because whatever may release it is unique: a thread that attaches or releases it,
an operation in the deferred queue, or its notification (`KeptOnce`,
`KeptInUse`), and a sweep takes only registrations of a graph whose disposal has
retired and muted them (`GraphsMuted`, `DisposedOnce`); one thread at a time is in
a graph's disposal (`ClosedByOne`). An addition queued for a
graph is performed before the graph's teardown (`AddedBefore`), so a sweep never
meets a context that an operation still carries. Silence follows, as everything
retired that still has a context is muted (`RetiredMuted`) and a render looks at
both under the context's lock.

The other two need one IO thread. Then one job exists at a time, queued or with
one worker (`OneRender`), and a worker holds no lock but its job's context's and never
waits for that (`LocksHeld`). So nobody waits for a waiting worker: it releases the
callback of another context at most, whose lock is free. The deferred worker
waits for that worker at most, and the registry's lock is only ever held by the
deferred worker. With registration inside a render the circle exists (run
`audio_circle`); with two IO threads two workers could wait for one another's contexts.

### 6.7 Audio graphs

| Theorem | States |
|---|---|
| `GraphsInvariant` | `Spec => []GraphsInv` |
| `GraphsTyped` | `Spec => []TypeOK` |
| `CallsOrdered` | `~Persists => (Spec => []CallsInOrder)` |
| `GraphsPooled` | `Spec => []PoolSound` |
| `GraphsSilent` | `Spec => []StoppedIsSilent` |

For any number of threads, graphs, callbacks, nodes and addresses, queues of any
length, and every mode, from `AudioGraphsAssumption` and `NoneAssumption` (that
`None` is no address, no graph, no operation). `CallsOrdered` needs that no
parameter is written to a graph whose teardown is queued; run `audio_volume` shows
that it does. The other theorems do not.

`CallsInOrder` speaks of what the queue will have done, so its invariant has to
say what every prefix of the queue belongs to. Each graph is in one place: under a
handle, in a call that disposes of it, in the pool, in a queued disposal or in the
hands of a refill (`OwnedOnce`). An operation in the queue is on a graph that
somebody has, and no operation on a graph comes behind its disposal
(`OpsOwned`), which is what lets the swap for a pooled graph forget the graph that
was built: it has nothing queued. Contexts and CoreAudio's hooks belong to the graph
they were registered for until its disposal (`ContextsOwned`, `HooksOwned`), so
that a disposed graph's address can be given out again. A topology that is not
marked unpoolable is all that has been made of its graph (`TopologyKept`), and a
pooled graph is what its template describes (`PoolKept`): that is why the swap is
transparent. `InOrder` is `CallsInOrder` except for the volume; `Silent` asks for silence
after every prefix of what is pending and not only at its end; `Unmuted` gives
every context that may enter the guest a handle whose thread wants it. `ModeKept`
says which of all this can happen without a deferred worker.

The state a queue leads to is a recursive function (`Effects`). That the function
exists is proved from the one that is defined on a shorter queue, and that two of
them agree by a least index at which they would not: the naturals' well-order takes
the place of an induction.

### 6.8 The other components

| Theorem | States |
|---|---|
| `ComponentTablesSound` | `Cg!OneCgThread => (Spec => []TablesSound)` |
| `ComponentStringsSound` | `Spec => []StringsSound` |
| `ComponentDispatchSound` | `Spec => []DispatchSound` |
| `ComponentRenderSound` | `Spec => []RenderSound` |
| `ComponentUnwrapSound` | `Spec => []UnwrapSound` |
| `ComponentCloudSound` | `Spec => []CloudSound` |

They state the properties of run `components`, for any values of the constants
that fulfil the modules' assumptions. Each component's module ends with its
inductive invariant, under "Why it holds".

* *Tables.* `MutexesInv`: recycled host mutexes are different ones that nobody has
  (`RecycledApart`), so a stale cache line, which is compared with the table
  before it is believed, is harmless. `DirsInv`: a `DIR` is never given out
  again and is in one place, a slot, the hands of an open or those of a close
  (`DirsNumbered`, `OnePlace`, `HeldKnown`). `OnceInv`: the lock's holder
  is the one thread with initializers on its stack, and whatever a full table has no
  room for, runs again. `CgInv`: one entry for a buffer and an owner
  (`EntriesApart`), buffers of live programs apart (`BuffersApart`), and what
  the guest was given is an entry's block (`GivenKnown`). Its hypothesis is `OneCgThread`,
  see 2.4.
* *Strings.* `StringsInv`: as long as no inline copy was overwritten, a count is one
  less than the objects that have the representation and the threads about to take
  theirs off, and at least as high as all of them once a drop was overwritten
  (`CountsMatch`): nobody takes itself for the last too early. What a
  thread is about to free nobody has (`DisposalsMatch`). Inline changes between the
  bridge's read and its write are part of it; run `strings_shared` shows the one case
  the theorem leaves out. Counting needs sets of objects that grow and shrink by one.
* *Imports.* A memo says what the table does for its number (`MemosTell`), and a
  thread in a dispatch has the name of the number it was asked for
  (`NamesReady`), whatever nested dispatches have done to the flags since.
* *Render.* What CoreAudio handed over is as it was until the bridge copies back
  (`Handed`), and what will be copied of the guest's memory is what this render put
  there (`Seeded`).
* *Unwrapping.* Before Steam has confirmed nothing is decrypted, and what is staged
  by an attempt that has written is what memory still holds when it is published,
  wherever the decryptor stopped.
* *Cloud.* What is in the cloud is in Windows' layout and tells its form by its
  size.

### 6.9 Only model-checked

* Liveness under fairness (`DeletedWaiterReturns`, `TaskIsTaken`,
  `ReleaseReturns`, `GuestRuns`, `DrainReturns`) and what is stated with
  `ENABLED` (`LockHolderRuns`): the proof system handles neither.
* `ImagesSound`: not attempted. It rests on the well-formedness of the images'
  tables, which the module states by constructing them, and a proof for any image
  would first need that said as assumptions.
* `TypeOK` of `MCComponents`, which conjoins the components', the images' among them.

## 7. What is not modelled, and why

* Translation of calls (`objc_bridge.m`, the classic toolbox, the games' bridges, GL
  dispatch): no state of its own beyond handle tables, and no order to get wrong.
* The string functions, `printf` family and other imports that only compute:
  they keep no state.
* The profiler: nothing depends on it.
* Frame loop, display link and run loop: the state is AppKit's and the
  display's. What the frame clock does to audio is in `CondClients`.
* The installer's session: the order of its main actor's steps is AppKit's; the runs
  it starts are in `SteamReplacement`.
* Of the four start-up patches of `game_loader.c` only the guard of the profile
  selection is modelled; no profile asks for the others.
* Valve's decryptor, Steam's library, CoreAudio and Cg are external; what the
  code assumes of them is in the modules' headers.
* Of the audio code: `SetRenderCallback` and `AudioUnitRender`, which put calls
  through; converters, files and queues.
* `pg_render_notifies` races (one step here), and pthread keys, join and detach.
* The 64-to-32-bit switch itself: the model starts where `run_compat32` is one
  step; register and segment state is below it.
* The hosts' memory model: plain reads outside a lock are atomic here.

## 8. What could follow

1. The render-notify table of `peggle_audio.inc` with its unlocked scans, as a
   module of its own beneath `AudioCallbacks`.
2. `InstallerSession` – selection, build, bulk and single updates, composed with
   `SteamReplacement`, so that `MayBegin` is derived and not assumed.
3. `GuestMutexes` as the implementation of the map from address to mutex that
   `GuestCond` assumes, as a refinement.
4. Proofs for `GuestImages`, which need its tables' well-formedness as assumptions.
