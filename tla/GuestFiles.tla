------------------------------ MODULE GuestFiles ------------------------------
(***************************************************************************)
(* The guest's FILE handles in compat_runtime.c: a table of slots, each    *)
(* with the handle it last gave out and the host FILE behind it, and the   *)
(* standard streams, which have fixed handles and no slot.  A handle is a  *)
(* slot and one of three generations.                                      *)
(*                                                                         *)
(* The table and every use of a FILE are under guest_file_lock; fopen and  *)
(* the fclose of a FILE that found no slot are not.  Host FILEs are        *)
(* numbered as they are opened; Standard is the number of the one standard *)
(* stream modelled, open from the start.                                   *)
(***************************************************************************)
EXTENDS Integers, FiniteSets

CONSTANTS
  Threads, None,
  Capacity,         \* kGuestFileCapacity
  Generations,      \* kGuestFileGenerationCount
  MaxFiles,         \* BOUND: FILEs the guest opens
  ClosesStandard    \* does the guest close a standard stream

Slots == 0 .. Capacity - 1

FilesAssumption ==
  /\ None \notin Threads
  /\ None \notin Slots \cup 0 .. MaxFiles  \* neither an index nor a FILE
  /\ Capacity \in Nat \ {0} /\ Generations \in Nat \ {0}
  /\ MaxFiles \in Nat
  /\ ClosesStandard \in BOOLEAN

Standard == 0
Unused == -1

VARIABLES
  generation,  \* per slot: of the handle it last gave out, or Unused
  file,        \* per slot: the FILE, or None
  nextIndex,   \* guest_file_next_index
  active,      \* guest_file_active_count
  fileLock,    \* holder of guest_file_lock across steps
  open,        \* host: the FILEs that are open
  pc, hand,    \* per thread: where it is, and the FILE it has in hand
  held,        \* handles the guest has been given, each with its FILE
  opened,      \* FILEs opened so far
  reuses,      \* history: FILE -> registrations of its slot since its own
  last         \* history: a use of the FILE `wanted' that reached `got'

tableVars == <<generation, file, nextIndex, active>>
vars == <<tableVars, fileLock, open, pc, hand, held, opened, reuses, last>>

NoUse == [wanted |-> Standard, got |-> Standard]
StandardHandle == [slot |-> None, generation |-> 0]

Init ==
  /\ generation = [s \in Slots |-> Unused]
  /\ file = [s \in Slots |-> None]
  /\ nextIndex = 0
  /\ active = 0
  /\ fileLock = None
  /\ open = {Standard}
  /\ pc = [t \in Threads |-> "run"]
  /\ hand = [t \in Threads |-> None]
  /\ held = {[handle |-> StandardHandle, file |-> Standard]}
  /\ opened = 0
  /\ reuses = [f \in 0 .. MaxFiles |-> 0]
  /\ last = NoUse

Goes(t, place, f) ==
  pc' = [pc EXCEPT ![t] = place] /\ hand' = [hand EXCEPT ![t] = f]

-----------------------------------------------------------------------------
(* fopen and guest_handle_for_file *)

HostOpen(t) ==
  /\ pc[t] = "run"
  /\ opened < MaxFiles
  /\ opened' = opened + 1
  /\ open' = open \cup {opened + 1}
  /\ Goes(t, "opened", opened + 1)
  /\ UNCHANGED <<tableVars, fileLock, held, reuses, last>>

FreeSlots == {s \in Slots : file[s] = None}

\* How far the round-robin scan goes before it looks at a slot.
Distance(s) == (s - nextIndex) % Capacity
NextFree == CHOOSE s \in FreeSlots : \A u \in FreeSlots : Distance(s) <= Distance(u)

SameGeneration(s) == IF generation[s] = Unused THEN 0 ELSE generation[s]

NextGeneration(s) ==
  IF generation[s] = Unused THEN 0 ELSE (generation[s] + 1) % Generations

AfterUnwrapped(s) == s + 1

After(s) == (s + 1) % Capacity

SameCount == active

OneMore == active + 1

Register(t) ==
  /\ pc[t] = "opened"
  /\ fileLock = None
  /\ FreeSlots # {}
  /\ generation' = [generation EXCEPT ![NextFree] = NextGeneration(NextFree)]
  /\ file' = [file EXCEPT ![NextFree] = hand[t]]
  /\ nextIndex' = After(NextFree)
  /\ active' = OneMore
  /\ held' = held \cup
       {[handle |-> [slot |-> NextFree, generation |-> generation'[NextFree]], file |-> hand[t]]}
  /\ reuses' = [f \in 0 .. MaxFiles |->
       IF \E h \in held : h.file = f /\ h.handle.slot = NextFree THEN reuses[f] + 1 ELSE reuses[f]]
  /\ Goes(t, "run", None)
  /\ UNCHANGED <<fileLock, open, opened, last>>

\* No slot: the FILE is closed, after the lock is dropped.
Exhausted(t) ==
  /\ pc[t] = "opened"
  /\ fileLock = None
  /\ FreeSlots = {}
  /\ Goes(t, "overflow", hand[t])
  /\ UNCHANGED <<tableVars, fileLock, open, held, opened, reuses, last>>

KeepsOverflow(t) ==
  /\ pc[t] = "overflow"
  /\ Goes(t, "run", None)
  /\ UNCHANGED <<tableVars, fileLock, open, held, opened, reuses, last>>

CloseOverflow(t) ==
  /\ pc[t] = "overflow"
  /\ open' = open \ {hand[t]}
  /\ Goes(t, "run", None)
  /\ UNCHANGED <<tableVars, fileLock, held, opened, reuses, last>>

-----------------------------------------------------------------------------
\* host_file_for_guest_locked: the FILE a handle reaches, None if none.
FileFor(handle) ==
  IF handle = StandardHandle THEN Standard
  ELSE IF generation[handle.slot] = handle.generation THEN file[handle.slot] ELSE None

LookupUnlocked(t) ==
  /\ pc[t] = "run"
  /\ fileLock = None
  /\ \E h \in held :
       /\ FileFor(h.handle) # None
       /\ Goes(t, "use", FileFor(h.handle))
       /\ last' = [wanted |-> h.file, got |-> FileFor(h.handle)]
  /\ UNCHANGED <<tableVars, fileLock, open, held, opened, reuses>>

\* lock_host_file_for_guest, as fread and its like begin: the lock is kept while
\* the FILE is used.
Lookup(t) ==
  /\ pc[t] = "run"
  /\ fileLock = None
  /\ \E h \in held :
       /\ FileFor(h.handle) # None
       /\ Goes(t, "use", FileFor(h.handle))
       /\ last' = [wanted |-> h.file, got |-> FileFor(h.handle)]
  /\ fileLock' = t
  /\ UNCHANGED <<tableVars, open, held, opened, reuses>>

\* unlock_host_file
UseEnds(t) ==
  /\ pc[t] = "use"
  /\ fileLock' = IF fileLock = t THEN None ELSE fileLock
  /\ Goes(t, "run", None)
  /\ UNCHANGED <<tableVars, open, held, opened, reuses, last>>

\* guest_close_file.  A standard stream keeps its handle, and has no slot.
Close(t) ==
  /\ pc[t] = "run"
  /\ fileLock = None
  /\ \E h \in held :
       /\ FileFor(h.handle) # None
       /\ h.handle = StandardHandle => ClosesStandard
       /\ open' = open \ {FileFor(h.handle)}
       /\ last' = [wanted |-> h.file, got |-> FileFor(h.handle)]
       /\ IF h.handle = StandardHandle THEN UNCHANGED <<file, active>>
          ELSE /\ file' = [file EXCEPT ![h.handle.slot] = None]
               /\ active' = IF active > 0 THEN active - 1 ELSE 0
  /\ UNCHANGED <<generation, nextIndex, fileLock, pc, hand, held, opened, reuses>>

-----------------------------------------------------------------------------
Step(t) ==
  \/ HostOpen(t) \/ Register(t) \/ Exhausted(t) \/ CloseOverflow(t)
  \/ Lookup(t) \/ UseEnds(t) \/ Close(t)

Next == \E t \in Threads : Step(t)

Spec == Init /\ [][Next]_vars

-----------------------------------------------------------------------------
\* The type invariant: the table, the host's FILEs and the calls in progress.
TypeOK ==
  /\ generation \in [Slots -> (0 .. Generations - 1) \cup {Unused}]
  /\ file \in [Slots -> (1 .. MaxFiles) \cup {None}]
  /\ nextIndex \in Slots
  /\ active \in 0 .. Capacity
  /\ fileLock \in Threads \cup {None}
  /\ open \subseteq 0 .. MaxFiles
  /\ pc \in [Threads -> {"run", "opened", "overflow", "use"}]
  /\ hand \in [Threads -> (0 .. MaxFiles) \cup {None}]
  /\ held \subseteq [handle : [slot : Slots \cup {None}, generation : 0 .. Generations - 1],
                     file : 0 .. MaxFiles]
  /\ opened \in 0 .. MaxFiles
  /\ reuses \in [0 .. MaxFiles -> Nat]
  /\ last \in [wanted : 0 .. MaxFiles, got : 0 .. MaxFiles]

Registered == {file[s] : s \in Slots} \ {None}
InHand == {hand[t] : t \in {u \in Threads : pc[u] \in {"opened", "overflow"}}}

\* No FILE is lost and none has two owners: every open FILE is in exactly one
\* slot or in the hands of the thread that is registering it or disposing of it,
\* at capacity too ("the former implementation leaked this FILE").
FilesOwned ==
  /\ open \ {Standard} = Registered \cup InHand
  /\ Registered \cap InHand = {}
  /\ \A s, u \in Slots : s # u /\ file[s] # None => file[s] # file[u]

\* guest_file_active_count is the number of slots in use.
ActiveExact == active = Cardinality({s \in Slots : file[s] # None})

\* No thread uses a FILE that has been closed: "libc FILE objects are invalid
\* immediately after fclose", and another thread may close the same handle
\* concurrently.
NoUseAfterClose == \A t \in Threads : pc[t] = "use" => hand[t] \in open

\* A handle whose FILE was closed reaches another one only after its slot has
\* been given out again a whole cycle of generations.
StaleRejectedForACycle ==
  last.got # last.wanted => reuses[last.wanted] >= Generations

FilesSound == FilesOwned /\ ActiveExact /\ NoUseAfterClose /\ StaleRejectedForACycle

\* What makes the above inductive.  A FILE in a thread's hands is in no other's
\* and has no handle yet; a FILE in use is a registered one and keeps the lock,
\* so nothing can close it; and a handle knows how many generations its slot has
\* gone since, as many as its FILE's reuses.
HandsApart ==
  /\ \A t \in Threads : pc[t] \in {"opened", "overflow"} =>
       /\ hand[t] \in 1 .. opened
       /\ \A h \in held : h.file # hand[t]
       /\ \A u \in Threads : u # t /\ pc[u] \in {"opened", "overflow"} => hand[u] # hand[t]
  /\ \A s \in Slots : file[s] # None => file[s] \in 1 .. opened

UsesLocked ==
  \A t \in Threads : pc[t] = "use" =>
    fileLock = t /\ hand[t] \in Registered \cup {Standard}

IsStandard(h) == h.handle = StandardHandle /\ h.file = Standard

HandlesCount ==
  /\ \A h \in held : IsStandard(h) \/
       /\ h.handle.slot \in Slots /\ h.file \in 1 .. opened
       /\ generation[h.handle.slot] = (h.handle.generation + reuses[h.file]) % Generations
       /\ reuses[h.file] = 0 => file[h.handle.slot] \in {None, h.file}
  /\ \A h, k \in held : h.file = k.file => h = k
  /\ \A f \in 0 .. MaxFiles : (\A h \in held : h.file # f) => reuses[f] = 0

StandardStays == ~ ClosesStandard => Standard \in open

FilesInv ==
  /\ TypeOK /\ FilesOwned /\ ActiveExact /\ StaleRejectedForACycle
  /\ HandsApart /\ UsesLocked /\ HandlesCount /\ StandardStays

=============================================================================
