---------------------------- MODULE GuestDirectories ----------------------------
(***************************************************************************)
(* The guest's directory handles in compat_runtime.c: a table of slots,    *)
(* each with the DIR it stands for and a dirent in guest memory, which     *)
(* stays with the slot.  A handle is a slot's number: it has no            *)
(* generation, and a slot is given out again as soon as it is free.        *)
(*                                                                         *)
(* opendir runs before the table's lock is taken, and the closedir of a    *)
(* directory that found no slot after it is dropped.                       *)
(***************************************************************************)
EXTENDS Integers, FiniteSets

CONSTANTS
  DirThreads, NoDir,
  DirCapacity,  \* kGuestDirectoryCapacity
  MaxDirs,      \* BOUND: directories the guest opens
  Dirents       \* BOUND: dirents the guest's heap has room for

DirectoriesAssumption ==
  DirCapacity \in Nat \ {0} /\ MaxDirs \in Nat /\ Dirents \in Nat /\ NoDir \notin Nat

DirSlots == 0 .. DirCapacity - 1

VARIABLES
  directory,  \* per slot: the DIR, or NoDir
  dirent,     \* per slot: whose entry its dirent holds; NoDir before there is one
  openDirs,   \* host: the DIRs that are open
  opening,    \* per thread: the DIR it has opened and not yet registered
  surplus,    \* per thread: the DIR it has to close for want of a slot
  dirHeld,    \* handles the guest has and has not closed, each with its DIR
  dirsOpened, \* DIRs opened so far
  dirRead     \* history: the last readdir, of whose handle and what it read

dirVars == <<directory, dirent, openDirs, opening, surplus, dirHeld, dirsOpened, dirRead>>

Empty == 0

DirsInit ==
  /\ directory = [s \in DirSlots |-> NoDir]
  /\ dirent = [s \in DirSlots |-> NoDir]
  /\ openDirs = {}
  /\ opening = [t \in DirThreads |-> NoDir]
  /\ surplus = [t \in DirThreads |-> NoDir]
  /\ dirHeld = {}
  /\ dirsOpened = 0
  /\ dirRead = [wanted |-> Empty, got |-> Empty]

Ready(t) == opening[t] = NoDir /\ surplus[t] = NoDir

\* opendir
OpenDir(t) ==
  /\ Ready(t) /\ dirsOpened < MaxDirs
  /\ dirsOpened' = dirsOpened + 1
  /\ openDirs' = openDirs \cup {dirsOpened + 1}
  /\ opening' = [opening EXCEPT ![t] = dirsOpened + 1]
  /\ UNCHANGED <<directory, dirent, surplus, dirHeld, dirRead>>

FreeDirSlots == {s \in DirSlots : directory[s] = NoDir}
FirstFree == CHOOSE s \in FreeDirSlots : \A u \in FreeDirSlots : s <= u
DirentsUsed == Cardinality({s \in DirSlots : dirent[s] # NoDir})

\* guest_handle_for_directory gives up at the first free slot it can find no
\* dirent for.
HasSlot == FreeDirSlots # {} /\ (dirent[FirstFree] # NoDir \/ DirentsUsed < Dirents)

RegisterDir(t) ==
  /\ opening[t] # NoDir
  /\ opening' = [opening EXCEPT ![t] = NoDir]
  /\ IF HasSlot
     THEN /\ directory' = [directory EXCEPT ![FirstFree] = opening[t]]
          /\ dirent' = IF dirent[FirstFree] = NoDir THEN [dirent EXCEPT ![FirstFree] = Empty]
                       ELSE dirent
          /\ dirHeld' = dirHeld \cup {[slot |-> FirstFree, dir |-> opening[t]]}
          /\ UNCHANGED surplus
     ELSE /\ surplus' = [surplus EXCEPT ![t] = opening[t]]
          /\ UNCHANGED <<directory, dirent, dirHeld>>
  /\ UNCHANGED <<openDirs, dirsOpened, dirRead>>

ForgetSurplus(t) ==
  /\ surplus[t] # NoDir
  /\ surplus' = [surplus EXCEPT ![t] = NoDir]
  /\ UNCHANGED <<directory, dirent, openDirs, opening, dirHeld, dirsOpened, dirRead>>

CloseSurplus(t) ==
  /\ surplus[t] # NoDir
  /\ openDirs' = openDirs \ {surplus[t]}
  /\ surplus' = [surplus EXCEPT ![t] = NoDir]
  /\ UNCHANGED <<directory, dirent, opening, dirHeld, dirsOpened, dirRead>>

\* readdir: the slot's dirent is written over.
ReadDir(t) ==
  /\ Ready(t)
  /\ \E h \in dirHeld :
       /\ directory[h.slot] # NoDir
       /\ dirent' = [dirent EXCEPT ![h.slot] = directory[h.slot]]
       /\ dirRead' = [wanted |-> h.dir, got |-> directory[h.slot]]
  /\ UNCHANGED <<directory, openDirs, opening, surplus, dirHeld, dirsOpened>>

\* closedir: the slot keeps its dirent.
CloseDir(t) ==
  /\ Ready(t)
  /\ \E h \in dirHeld :
       /\ directory[h.slot] # NoDir
       /\ openDirs' = openDirs \ {directory[h.slot]}
       /\ directory' = [directory EXCEPT ![h.slot] = NoDir]
       /\ dirHeld' = dirHeld \ {h}
  /\ UNCHANGED <<dirent, opening, surplus, dirsOpened, dirRead>>

DirsNext ==
  \E t \in DirThreads :
    OpenDir(t) \/ RegisterDir(t) \/ CloseSurplus(t) \/ ReadDir(t) \/ CloseDir(t)

DirsSpec == DirsInit /\ [][DirsNext]_dirVars

-----------------------------------------------------------------------------
\* Every open DIR is in one slot or in the hands of the thread that opened it, the
\* ones the table had no room for too; a guest that does not use a handle it has
\* closed reads the directory it opened; and there are no more dirents than slots
\* were ever in use together.
DirectoriesSound ==
  /\ openDirs = ({directory[s] : s \in DirSlots} \cup {opening[t] : t \in DirThreads}
                  \cup {surplus[t] : t \in DirThreads}) \ {NoDir}
  /\ \A s, u \in DirSlots : s # u /\ directory[s] # NoDir => directory[s] # directory[u]
  /\ dirRead.got = dirRead.wanted
  /\ \A s \in DirSlots : directory[s] # NoDir => dirent[s] # NoDir

-----------------------------------------------------------------------------
(* Why it holds.  A DIR is a number that is not given out again, in one    *)
(* place at a time, and the guest's handles name what their slots hold.    *)
DirsTyped ==
  /\ directory \in [DirSlots -> Nat \cup {NoDir}] /\ dirent \in [DirSlots -> Nat \cup {NoDir}]
  /\ opening \in [DirThreads -> Nat \cup {NoDir}] /\ surplus \in [DirThreads -> Nat \cup {NoDir}]
  /\ dirsOpened \in Nat
  /\ dirHeld \subseteq [slot : DirSlots, dir : Nat]

DirsNumbered ==
  /\ \A s \in DirSlots : directory[s] \in Nat => directory[s] <= dirsOpened
  /\ \A t \in DirThreads : /\ opening[t] \in Nat => opening[t] <= dirsOpened
                           /\ surplus[t] \in Nat => surplus[t] <= dirsOpened

OnePlace ==
  /\ \A s \in DirSlots, t \in DirThreads :
       directory[s] # NoDir => directory[s] # opening[t] /\ directory[s] # surplus[t]
  /\ \A t \in DirThreads : opening[t] = NoDir \/ surplus[t] = NoDir
  /\ \A t, u \in DirThreads : /\ opening[t] # NoDir => opening[t] # surplus[u]
                              /\ opening[t] # NoDir /\ opening[t] = opening[u] => t = u
                              /\ surplus[t] # NoDir /\ surplus[t] = surplus[u] => t = u

HeldKnown == \A h \in dirHeld : directory[h.slot] = h.dir

DirsInv == DirsTyped /\ DirsNumbered /\ OnePlace /\ HeldKnown /\ DirectoriesSound

=============================================================================
