---------------------------- MODULE GuestExecution ----------------------------
(***************************************************************************)
(* How host threads run guest code (compat_runtime.c, import_gateway.S):   *)
(* compat_runtime32_call takes a stack slot for the thread, enters the     *)
(* guest on the next slice of it and comes back when the guest function    *)
(* returns or is abandoned; an import leaves the guest for host code,      *)
(* which may make further calls, and the gateway then resumes the guest or *)
(* abandons it.                                                            *)
(*                                                                         *)
(* The trap flags are thread-local and shared by every call nested on the  *)
(* thread: a call clears them when it starts and nobody clears them when   *)
(* it ends.                                                                *)
(***************************************************************************)
EXTENDS Integers, FiniteSets

CONSTANTS
  Threads, None,
  First,           \* the thread that runs the program's entry
  Slots,           \* kGuestStackSize / kGuestStackPerThread
  MaxDepth,        \* kGuestStackPerThread / stack_slice_size
  LockEnabled,     \* LP32_GUEST_LOCK is set
  MaxCalls         \* BOUND: guest calls made

ASSUME ExecutionAssumption ==
  /\ First \in Threads /\ None \notin Threads
  /\ Slots \in Nat /\ None \notin 0 .. Slots - 1 /\ MaxDepth \in Nat \ {0}
  /\ LockEnabled \in BOOLEAN
  /\ MaxCalls \in Nat

VARIABLES
  mode,       \* per thread: unborn, host, enter (wants to run guest code),
              \* guest, gateway (an import's dispatch has returned), done
  depth,      \* guest_call_depth
  slot,       \* guest_thread_slot, or None
  slotsInUse, \* guest_stack_slots_in_use
  execLock,   \* holder of guest_execution_lock
  heldFlag,   \* guest_execution_lock_held
  trapped,    \* last_call_trapped
  leave,      \* lp32_leave_guest
  calls,      \* calls made so far
  outcome,    \* history: how the thread's last call ended
  refused     \* history: a call was refused since the thread's last one began

stack == <<depth, slot, slotsInUse>>
lock == <<execLock, heldFlag>>
flags == <<trapped, leave>>
vars == <<mode, stack, lock, flags, calls, outcome, refused>>

Init ==
  /\ mode = [t \in Threads |-> IF t = First THEN "host" ELSE "unborn"]
  /\ depth = [t \in Threads |-> 0]
  /\ slot = [t \in Threads |-> None]
  /\ slotsInUse = {}
  /\ execLock = None
  /\ heldFlag = [t \in Threads |-> FALSE]
  /\ trapped = [t \in Threads |-> FALSE]
  /\ leave = [t \in Threads |-> FALSE]
  /\ calls = 0
  /\ outcome = [t \in Threads |-> "none"]
  /\ refused = [t \in Threads |-> FALSE]

-----------------------------------------------------------------------------
(* lp32_guest_execution_enter and _leave *)

TakesLock(t) ==
  IF ~ LockEnabled \/ heldFlag[t] THEN UNCHANGED lock
  ELSE /\ execLock = None
       /\ execLock' = t
       /\ heldFlag' = [heldFlag EXCEPT ![t] = TRUE]

DropsLock(t) ==
  IF ~ LockEnabled \/ ~ heldFlag[t] THEN UNCHANGED lock
  ELSE /\ execLock' = None
       /\ heldFlag' = [heldFlag EXCEPT ![t] = FALSE]

-----------------------------------------------------------------------------
(* compat_runtime32_call *)

FreeSlots == (0 .. Slots - 1) \ slotsInUse
LowestFree == CHOOSE s \in FreeSlots : \A u \in FreeSlots : s <= u

SlotFor(t) == IF slot[t] # None THEN slot[t] ELSE LowestFree

\* The thread's stack has a slice for one more call.
HasSlice(t) == depth[t] + 1 <= MaxDepth

CallsGuest(t) ==
  /\ mode[t] = "host"
  /\ calls < MaxCalls
  /\ calls' = calls + 1

\* No slot for the thread, or its slot has no slice left.  Only one flag is set.
CallRefused(t) ==
  /\ CallsGuest(t)
  /\ (slot[t] = None /\ FreeSlots = {}) \/ ~ HasSlice(t)
  /\ trapped' = [trapped EXCEPT ![t] = TRUE]
  /\ outcome' = [outcome EXCEPT ![t] = "refused"]
  /\ refused' = [refused EXCEPT ![t] = TRUE]
  /\ UNCHANGED <<mode, stack, lock, leave>>

ClearsLeaveOnly(t) ==
  leave' = [leave EXCEPT ![t] = FALSE] /\ UNCHANGED trapped

ClearsFlags(t) ==
  /\ trapped' = [trapped EXCEPT ![t] = FALSE]
  /\ leave' = [leave EXCEPT ![t] = FALSE]

Call(t) ==
  /\ CallsGuest(t)
  /\ slot[t] # None \/ FreeSlots # {}
  /\ HasSlice(t)
  /\ slot' = [slot EXCEPT ![t] = SlotFor(t)]
  /\ slotsInUse' = slotsInUse \cup {SlotFor(t)}
  /\ ClearsFlags(t)
  /\ refused' = [refused EXCEPT ![t] = FALSE]
  /\ depth' = [depth EXCEPT ![t] = @ + 1]
  /\ mode' = [mode EXCEPT ![t] = "enter"]
  /\ UNCHANGED <<lock, outcome>>

\* run_compat32, and the gateway resuming the guest.
Enter(t) ==
  /\ mode[t] = "enter"
  /\ TakesLock(t)
  /\ mode' = [mode EXCEPT ![t] = "guest"]
  /\ UNCHANGED <<stack, flags, calls, outcome, refused>>

\* The guest function returns through the exit thunk.
Exit(t) ==
  /\ mode[t] = "guest"
  /\ DropsLock(t)
  /\ depth' = [depth EXCEPT ![t] = @ - 1]
  /\ mode' = [mode EXCEPT ![t] = "host"]
  /\ outcome' = [outcome EXCEPT ![t] = "returned"]
  /\ UNCHANGED <<slot, slotsInUse, flags, calls, refused>>

-----------------------------------------------------------------------------
(* lp32_import_gateway *)

ImportHolding(t) ==
  /\ mode[t] = "guest"
  /\ mode' = [mode EXCEPT ![t] = "host"]
  /\ UNCHANGED <<stack, lock, flags, calls, outcome, refused>>

Import(t) ==
  /\ mode[t] = "guest"
  /\ DropsLock(t)
  /\ mode' = [mode EXCEPT ![t] = "host"]
  /\ UNCHANGED <<stack, flags, calls, outcome, refused>>

\* The import was one the bridge does not have, or one that escapes the guest.
Trap(t) ==
  /\ mode[t] = "host"
  /\ depth[t] > 0
  /\ trapped' = [trapped EXCEPT ![t] = TRUE]
  /\ leave' = [leave EXCEPT ![t] = TRUE]
  /\ mode' = [mode EXCEPT ![t] = "gateway"]
  /\ UNCHANGED <<stack, lock, calls, outcome, refused>>

ImportReturns(t) ==
  /\ mode[t] = "host"
  /\ depth[t] > 0
  /\ mode' = [mode EXCEPT ![t] = "gateway"]
  /\ UNCHANGED <<stack, lock, flags, calls, outcome, refused>>

Resume(t) ==
  /\ mode[t] = "gateway"
  /\ ~ leave[t]
  /\ mode' = [mode EXCEPT ![t] = "enter"]
  /\ UNCHANGED <<stack, lock, flags, calls, outcome, refused>>

\* Unwinds run_compat32; the lock was not taken again.
Escape(t) ==
  /\ mode[t] = "gateway"
  /\ leave[t]
  /\ DropsLock(t)
  /\ depth' = [depth EXCEPT ![t] = @ - 1]
  /\ mode' = [mode EXCEPT ![t] = "host"]
  /\ outcome' = [outcome EXCEPT ![t] = "abandoned"]
  /\ UNCHANGED <<slot, slotsInUse, flags, calls, refused>>

-----------------------------------------------------------------------------
(* Threads *)

\* pthread_create; the new thread is scheduled some time later.
PthreadCreate(t, u) ==
  /\ mode[t] = "host" /\ depth[t] > 0
  /\ mode[u] = "unborn"
  /\ mode' = [mode EXCEPT ![u] = "host"]
  /\ UNCHANGED <<stack, lock, flags, calls, outcome, refused>>

KeepsSlot(t) == UNCHANGED <<slot, slotsInUse>>

\* The slot's thread-local destructor, release_guest_stack_slot.
ReleasesSlot(t) ==
  /\ slot' = [slot EXCEPT ![t] = None]
  /\ slotsInUse' = slotsInUse \ {slot[t]}

\* run_guest_thread returns, or pthread_exit ends the thread inside an import.
ThreadEnds(t) ==
  /\ mode[t] = "host"
  /\ depth[t] > 0 \/ (t # First /\ outcome[t] # "none")
  /\ ReleasesSlot(t)
  /\ mode' = [mode EXCEPT ![t] = "done"]
  /\ depth' = [depth EXCEPT ![t] = 0]
  /\ UNCHANGED <<lock, flags, calls, outcome, refused>>

-----------------------------------------------------------------------------
Gateway(t) == ImportReturns(t) \/ Resume(t) \/ Escape(t) \/ Enter(t) \/ Exit(t)

Step(t) ==
  \/ CallRefused(t) \/ Call(t) \/ Import(t) \/ Trap(t) \/ Gateway(t)
  \/ ThreadEnds(t) \/ \E u \in Threads : PthreadCreate(t, u)

Next == \E t \in Threads : Step(t)

Spec == Init /\ [][Next]_vars

\* The host runs every thread, its mutexes hand themselves over, and guest code
\* reaches an import or returns.  Nothing is assumed of an import: it may block
\* for ever.
Fairness ==
  \A t \in Threads :
    /\ SF_vars(Enter(t))
    /\ WF_vars(Resume(t)) /\ WF_vars(Escape(t))
    /\ WF_vars(Import(t) \/ Exit(t))

FairSpec == Spec /\ Fairness

-----------------------------------------------------------------------------
\* The type invariant: threads, stack slots, locks and flags.
TypeOK ==
  /\ mode \in [Threads -> {"unborn", "host", "enter", "guest", "gateway", "done"}]
  /\ depth \in [Threads -> 0 .. MaxDepth]
  /\ slot \in [Threads -> (0 .. Slots - 1) \cup {None}]
  /\ slotsInUse \subseteq 0 .. Slots - 1
  /\ execLock \in Threads \cup {None}
  /\ heldFlag \in [Threads -> BOOLEAN]
  /\ trapped \in [Threads -> BOOLEAN]
  /\ leave \in [Threads -> BOOLEAN]
  /\ calls \in 0 .. MaxCalls
  /\ outcome \in [Threads -> {"none", "returned", "abandoned", "refused"}]
  /\ refused \in [Threads -> BOOLEAN]

\* With the lock enabled one thread at a time runs guest instructions, and no
\* thread holds the lock in host code, where an import may block: through
\* nested calls, escapes and the end of a thread inside an import (the comment
\* above lp32_guest_execution_enter).
GuestIntervalsSerialized ==
  LockEnabled => \A t \in Threads :
    /\ mode[t] = "guest" <=> execLock = t
    /\ heldFlag[t] <=> execLock = t

\* Every live thread that has called the guest has a stack slot of its own, and
\* the bitmap is exactly those, so no two guest stacks overlap and none is lost
\* when a thread ends in the middle of an import (acquire_guest_stack_slot, release_guest_stack_slot).
StacksDisjoint ==
  /\ \A t \in Threads : depth[t] > 0 => slot[t] # None
  /\ \A t, u \in Threads : t # u /\ slot[t] # None => slot[t] # slot[u]
  /\ slotsInUse = {slot[t] : t \in {u \in Threads : mode[u] # "done"}} \ {None}

\* What compat_runtime32_last_call_trapped says of a call that ends is right,
\* whatever calls the call's imports made: an abandoned call reports a trap, and
\* one that returned does not, unless a call nested in it was refused.
TrapReportHonest ==
  [][\A t \in Threads : mode'[t] = "host" /\ depth'[t] < depth[t] =>
       /\ outcome'[t] = "abandoned" => trapped'[t]
       /\ outcome'[t] = "returned" /\ trapped'[t] => refused'[t]]_vars

\* Guest code never runs with an escape pending: a trap in an earlier call on the
\* thread, nested or finished, cannot make a later call's first harmless import
\* abandon it.
NoPendingEscape ==
  \A t \in Threads : mode[t] \in {"enter", "guest"} => ~ leave[t]

\* A thread that wants to run guest code does: the lock is never kept by a thread
\* whose import blocks.
GuestRuns == \A t \in Threads : mode[t] = "enter" ~> mode[t] = "guest"

=============================================================================
