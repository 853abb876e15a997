------------------------- MODULE GuestExecutionProofs -------------------------
(***************************************************************************)
(* GuestExecution's safety, for every set of threads, number of stack      *)
(* slots, depth of calls and either setting of the lock.                   *)
(*                                                                         *)
(* One inductive invariant, IInv, carries all of it.  The slots need the   *)
(* link between the bitmap and the threads in both directions (SlotsHeld); *)
(* the trap flags need to be followed through the host code in which they  *)
(* are set (FlagsInv), for the calls they are judged on end elsewhere.     *)
(***************************************************************************)
EXTENDS GuestExecution, WellFoundedInduction, TLAPS

\* Guest code runs, or is about to, only inside a call.
Inside == \A t \in Threads : mode[t] \in {"enter", "guest", "gateway"} => depth[t] > 0

SlotsHeld ==
  /\ \A t \in Threads : depth[t] > 0 => slot[t] # None
  /\ \A t \in Threads : mode[t] = "done" => slot[t] = None
  /\ \A t \in Threads : slot[t] # None => slot[t] \in slotsInUse
  /\ \A s \in slotsInUse : \E t \in Threads : slot[t] = s
  /\ \A t, u \in Threads : t # u /\ slot[t] # None => slot[t] # slot[u]

\* An escape is pending only where a trap is reported, and a trap reported
\* without one was a refusal.
FlagsInv ==
  \A t \in Threads :
    /\ leave[t] => trapped[t]
    /\ trapped[t] /\ ~ leave[t] => refused[t]

IInv == TypeOK /\ Inside /\ SlotsHeld /\ FlagsInv /\ NoPendingEscape /\ GuestIntervalsSerialized

-----------------------------------------------------------------------------
\* A non-empty set of naturals has a least element, which LowestFree chooses.
LEMMA LeastExists ==
  ASSUME NEW S \in SUBSET Nat, S # {}
  PROVE  \E s \in S : \A u \in S : s <= u
<1>1. PICK s \in S : \A u \in S : ~ (<<u, s>> \in OpToRel(<, Nat))
  BY NatLessThanWellFounded, WFMin, Zenon
<1>2. \A u \in S : ~ (u < s)
  BY <1>1 DEF OpToRel
<1> QED
  BY <1>2

\* The slot a call runs on is the thread's own or one that is free.
LEMMA SlotForType ==
  ASSUME NEW t \in Threads, TypeOK, slot[t] # None \/ FreeSlots # {}
  PROVE  /\ SlotFor(t) \in 0 .. Slots - 1
         /\ slot[t] # None => SlotFor(t) = slot[t]
         /\ slot[t] = None => SlotFor(t) \notin slotsInUse
<1>1. CASE slot[t] # None
  BY <1>1 DEF SlotFor, TypeOK
<1>2. CASE slot[t] = None
  <2>1. FreeSlots \in SUBSET Nat /\ FreeSlots # {}
    BY <1>2, ExecutionAssumption DEF FreeSlots
  <2>2. \E s \in FreeSlots : \A u \in FreeSlots : s <= u
    BY <2>1, LeastExists
  <2>3. LowestFree \in FreeSlots
    BY <2>2 DEF LowestFree
  <2> QED
    BY <1>2, <2>3 DEF SlotFor, FreeSlots
<1> QED
  BY <1>1, <1>2

-----------------------------------------------------------------------------
LEMMA InitIInv == Init => IInv
  BY ExecutionAssumption
  DEF Init, IInv, TypeOK, Inside, SlotsHeld, FlagsInv, NoPendingEscape, GuestIntervalsSerialized

\* A call takes its slot, clears the flags and has one slice more.
LEMMA CallStep ==
  ASSUME IInv, NEW t \in Threads, Call(t)
  PROVE  IInv'
<1> USE DEF IInv
<1>1. slot[t] # None \/ FreeSlots # {}
  BY DEF Call
<1>2. /\ SlotFor(t) \in 0 .. Slots - 1
      /\ slot[t] # None => SlotFor(t) = slot[t]
      /\ slot[t] = None => SlotFor(t) \notin slotsInUse
  BY <1>1, SlotForType
<1>3. TypeOK'
  <2>1. mode' \in [Threads -> {"unborn", "host", "enter", "guest", "gateway", "done"}]
    BY DEF Call, CallsGuest, HasSlice, ClearsFlags, TypeOK
  <2>2. depth' \in [Threads -> 0 .. MaxDepth] /\ calls' \in 0 .. MaxCalls
    BY <1>2, ExecutionAssumption DEF Call, CallsGuest, HasSlice, ClearsFlags, TypeOK, Inside, stack
  <2>3. slot' \in [Threads -> (0 .. Slots - 1) \cup {None}] /\ slotsInUse' \subseteq 0 .. Slots - 1
    BY <1>2, ExecutionAssumption DEF Call, CallsGuest, HasSlice, ClearsFlags, TypeOK, stack
  <2>4. execLock' \in Threads \cup {None} /\ heldFlag' \in [Threads -> BOOLEAN]
    BY DEF Call, CallsGuest, HasSlice, ClearsFlags, TypeOK, lock
  <2>5. trapped' \in [Threads -> BOOLEAN] /\ leave' \in [Threads -> BOOLEAN]
    BY DEF Call, CallsGuest, HasSlice, ClearsFlags, TypeOK, flags
  <2>6. outcome' \in [Threads -> {"none", "returned", "abandoned", "refused"}] /\ refused' \in [Threads -> BOOLEAN]
    BY DEF Call, CallsGuest, HasSlice, ClearsFlags, TypeOK
  <2> QED
    BY <2>1, <2>2, <2>3, <2>4, <2>5, <2>6 DEF TypeOK
<1>4. Inside'
  BY DEF Call, CallsGuest, TypeOK, Inside
<1>5. SlotsHeld'
  BY <1>2, ExecutionAssumption DEF Call, CallsGuest, TypeOK, SlotsHeld
<1>6. FlagsInv' /\ NoPendingEscape'
  BY DEF Call, CallsGuest, ClearsFlags, TypeOK, FlagsInv, NoPendingEscape
<1>7. GuestIntervalsSerialized'
  BY ExecutionAssumption DEF Call, CallsGuest, TypeOK, GuestIntervalsSerialized, lock
<1> QED
  BY <1>3, <1>4, <1>5, <1>6, <1>7

\* The steps that enter and leave the guest move the lock with them.
LEMMA IntervalStep ==
  ASSUME IInv, NEW t \in Threads, Enter(t) \/ Exit(t) \/ Import(t) \/ Escape(t)
  PROVE  IInv'
<1> USE DEF IInv
<1>1. TypeOK' /\ Inside'
  <2>1. mode' \in [Threads -> {"unborn", "host", "enter", "guest", "gateway", "done"}]
    BY DEF Enter, Exit, Import, Escape, TakesLock, DropsLock, TypeOK
  <2>2. depth' \in [Threads -> 0 .. MaxDepth] /\ calls' \in 0 .. MaxCalls
    BY ExecutionAssumption DEF Enter, Exit, Import, Escape, TakesLock, DropsLock, TypeOK, Inside, stack
  <2>3. slot' \in [Threads -> (0 .. Slots - 1) \cup {None}] /\ slotsInUse' \subseteq 0 .. Slots - 1
    BY ExecutionAssumption DEF Enter, Exit, Import, Escape, TakesLock, DropsLock, TypeOK, stack
  <2>4. execLock' \in Threads \cup {None} /\ heldFlag' \in [Threads -> BOOLEAN]
    BY DEF Enter, Exit, Import, Escape, TakesLock, DropsLock, TypeOK, lock
  <2>5. trapped' \in [Threads -> BOOLEAN] /\ leave' \in [Threads -> BOOLEAN]
    BY DEF Enter, Exit, Import, Escape, TakesLock, DropsLock, TypeOK, flags
  <2>6. outcome' \in [Threads -> {"none", "returned", "abandoned", "refused"}] /\ refused' \in [Threads -> BOOLEAN]
    BY DEF Enter, Exit, Import, Escape, TakesLock, DropsLock, TypeOK
  <2>7. Inside'
    BY DEF Enter, Exit, Import, Escape, TakesLock, DropsLock, TypeOK, Inside, stack
  <2> QED
    BY <2>1, <2>2, <2>3, <2>4, <2>5, <2>6, <2>7 DEF TypeOK
<1>2. SlotsHeld'
  BY <1>1 DEF Enter, Exit, Import, Escape, TypeOK, Inside, SlotsHeld, stack
<1>3. FlagsInv' /\ NoPendingEscape'
  BY DEF Enter, Exit, Import, Escape, TypeOK, FlagsInv, NoPendingEscape, flags
<1>4. GuestIntervalsSerialized'
  BY ExecutionAssumption
  DEF Enter, Exit, Import, Escape, TakesLock, DropsLock, TypeOK, GuestIntervalsSerialized, lock
<1> QED
  BY <1>1, <1>2, <1>3, <1>4

\* The steps in host code: refusals, traps and the gateway's decision.
LEMMA HostStep ==
  ASSUME IInv, NEW t \in Threads, CallRefused(t) \/ Trap(t) \/ ImportReturns(t) \/ Resume(t)
  PROVE  IInv'
<1> USE DEF IInv
<1>1. TypeOK' /\ Inside'
  <2>1. mode' \in [Threads -> {"unborn", "host", "enter", "guest", "gateway", "done"}]
    BY DEF CallRefused, CallsGuest, Trap, ImportReturns, Resume, TypeOK
  <2>2. depth' \in [Threads -> 0 .. MaxDepth] /\ calls' \in 0 .. MaxCalls
    BY ExecutionAssumption DEF CallRefused, CallsGuest, Trap, ImportReturns, Resume, TypeOK, Inside, stack
  <2>3. slot' \in [Threads -> (0 .. Slots - 1) \cup {None}] /\ slotsInUse' \subseteq 0 .. Slots - 1
    BY ExecutionAssumption DEF CallRefused, CallsGuest, Trap, ImportReturns, Resume, TypeOK, stack
  <2>4. execLock' \in Threads \cup {None} /\ heldFlag' \in [Threads -> BOOLEAN]
    BY DEF CallRefused, CallsGuest, Trap, ImportReturns, Resume, TypeOK, lock
  <2>5. trapped' \in [Threads -> BOOLEAN] /\ leave' \in [Threads -> BOOLEAN]
    BY DEF CallRefused, CallsGuest, Trap, ImportReturns, Resume, TypeOK, flags
  <2>6. outcome' \in [Threads -> {"none", "returned", "abandoned", "refused"}] /\ refused' \in [Threads -> BOOLEAN]
    BY DEF CallRefused, CallsGuest, Trap, ImportReturns, Resume, TypeOK
  <2>7. Inside'
    BY DEF CallRefused, CallsGuest, Trap, ImportReturns, Resume, TypeOK, Inside, stack
  <2> QED
    BY <2>1, <2>2, <2>3, <2>4, <2>5, <2>6, <2>7 DEF TypeOK
<1>2. SlotsHeld'
  <2>1. UNCHANGED <<depth, slot, slotsInUse>>
    BY DEF CallRefused, Trap, ImportReturns, Resume, stack
  <2>2. \A u \in Threads : mode'[u] = "done" => mode[u] = "done"
    BY DEF CallRefused, Trap, ImportReturns, Resume, TypeOK
  <2>3. QED
    BY <2>1, <2>2 DEF SlotsHeld
<1>3. FlagsInv' /\ NoPendingEscape'
  BY DEF CallRefused, CallsGuest, Trap, ImportReturns, Resume, TypeOK, FlagsInv, NoPendingEscape, flags
<1>4. GuestIntervalsSerialized'
  BY ExecutionAssumption
  DEF CallRefused, CallsGuest, Trap, ImportReturns, Resume, TypeOK, GuestIntervalsSerialized, lock
<1> QED
  BY <1>1, <1>2, <1>3, <1>4

\* A thread begins, and ends in host code at any depth.
LEMMA ThreadStep ==
  ASSUME IInv, NEW t \in Threads, ThreadEnds(t) \/ \E u \in Threads : PthreadCreate(t, u)
  PROVE  IInv'
<1> USE DEF IInv
<1>1. TypeOK' /\ Inside'
  <2>1. mode' \in [Threads -> {"unborn", "host", "enter", "guest", "gateway", "done"}]
    BY DEF ThreadEnds, PthreadCreate, ReleasesSlot, TypeOK
  <2>2. depth' \in [Threads -> 0 .. MaxDepth] /\ calls' \in 0 .. MaxCalls
    BY ExecutionAssumption DEF ThreadEnds, PthreadCreate, ReleasesSlot, TypeOK, Inside, stack
  <2>3. slot' \in [Threads -> (0 .. Slots - 1) \cup {None}] /\ slotsInUse' \subseteq 0 .. Slots - 1
    BY ExecutionAssumption DEF ThreadEnds, PthreadCreate, ReleasesSlot, TypeOK, stack
  <2>4. execLock' \in Threads \cup {None} /\ heldFlag' \in [Threads -> BOOLEAN]
    BY DEF ThreadEnds, PthreadCreate, ReleasesSlot, TypeOK, lock
  <2>5. trapped' \in [Threads -> BOOLEAN] /\ leave' \in [Threads -> BOOLEAN]
    BY DEF ThreadEnds, PthreadCreate, ReleasesSlot, TypeOK, flags
  <2>6. outcome' \in [Threads -> {"none", "returned", "abandoned", "refused"}] /\ refused' \in [Threads -> BOOLEAN]
    BY DEF ThreadEnds, PthreadCreate, ReleasesSlot, TypeOK
  <2>7. Inside'
    BY DEF ThreadEnds, PthreadCreate, ReleasesSlot, TypeOK, Inside, stack
  <2> QED
    BY <2>1, <2>2, <2>3, <2>4, <2>5, <2>6, <2>7 DEF TypeOK
<1>2. SlotsHeld'
  <2>1. CASE \E u \in Threads : PthreadCreate(t, u)
    BY <2>1 DEF PthreadCreate, TypeOK, SlotsHeld, stack
  <2>2. CASE ThreadEnds(t)
    <3>1. /\ slot' = [slot EXCEPT ![t] = None] /\ slotsInUse' = slotsInUse \ {slot[t]}
          /\ mode' = [mode EXCEPT ![t] = "done"] /\ depth' = [depth EXCEPT ![t] = 0]
      BY <2>2 DEF ThreadEnds, ReleasesSlot
    <3>2. None \notin slotsInUse
      BY ExecutionAssumption DEF TypeOK
    <3>3. \A u \in Threads : slot'[u] # None => u # t /\ slot'[u] = slot[u]
      BY <3>1 DEF TypeOK
    <3>4. \A u \in Threads : /\ depth'[u] > 0 => slot'[u] # None
                             /\ mode'[u] = "done" => slot'[u] = None
      BY <3>1 DEF TypeOK, SlotsHeld
    <3>5. \A u \in Threads : slot'[u] # None => slot'[u] \in slotsInUse'
      BY <3>1, <3>3 DEF SlotsHeld
    <3>6. \A s \in slotsInUse' : \E u \in Threads : slot'[u] = s
      BY <3>1, <3>2 DEF TypeOK, SlotsHeld
    <3>7. \A u, v \in Threads : u # v /\ slot'[u] # None => slot'[u] # slot'[v]
      BY <3>3 DEF SlotsHeld
    <3> QED
      BY <3>4, <3>5, <3>6, <3>7 DEF SlotsHeld
  <2> QED
    BY <2>1, <2>2
<1>3. FlagsInv' /\ NoPendingEscape'
  BY DEF ThreadEnds, PthreadCreate, TypeOK, FlagsInv, NoPendingEscape, flags
<1>4. GuestIntervalsSerialized'
  BY ExecutionAssumption
  DEF ThreadEnds, PthreadCreate, TypeOK, GuestIntervalsSerialized, lock
<1> QED
  BY <1>1, <1>2, <1>3, <1>4

LEMMA NextIInv == IInv /\ [Next]_vars => IInv'
<1> SUFFICES ASSUME IInv, [Next]_vars PROVE IInv'
  OBVIOUS
<1>1. CASE UNCHANGED vars
  BY <1>1
  DEF IInv, TypeOK, Inside, SlotsHeld, FlagsInv, NoPendingEscape, GuestIntervalsSerialized,
      vars, stack, lock, flags
<1>2. CASE Next
  <2>1. PICK t \in Threads : Step(t)
    BY <1>2 DEF Next
  <2> QED
    BY <2>1, CallStep, IntervalStep, HostStep, ThreadStep DEF Step, Gateway
<1> QED
  BY <1>1, <1>2

\* The inductive invariant holds in every reachable state.
THEOREM ExecutionInvariant == Spec => []IInv
  BY InitIInv, NextIInv, PTL DEF Spec

-----------------------------------------------------------------------------
\* Threads, slots, locks and flags keep their types: no call is ever deeper than
\* its stack has slices (compat_runtime32_call).
THEOREM ExecutionTypeCorrect == Spec => []TypeOK
<1>1. IInv => TypeOK
  BY DEF IInv
<1> QED
  BY <1>1, ExecutionInvariant, PTL

\* With LP32_GUEST_LOCK set, guest instructions are run by one thread at a time
\* and no host code runs under the lock (lp32_guest_execution_enter and _leave).
THEOREM GuestSerialized == Spec => []GuestIntervalsSerialized
<1>1. IInv => GuestIntervalsSerialized
  BY DEF IInv
<1> QED
  BY <1>1, ExecutionInvariant, PTL

\* No two threads share a guest stack and no slot is lost, for any number of
\* threads and slots (acquire_guest_stack_slot, release_guest_stack_slot).
THEOREM StacksStayDisjoint == Spec => []StacksDisjoint
<1>1. IInv => StacksDisjoint
  <2> SUFFICES ASSUME IInv PROVE StacksDisjoint
    OBVIOUS
  <2>1. slotsInUse \subseteq {slot[t] : t \in {u \in Threads : mode[u] # "done"}} \ {None}
    <3> SUFFICES ASSUME NEW s \in slotsInUse
                 PROVE  s \in {slot[t] : t \in {u \in Threads : mode[u] # "done"}} \ {None}
      OBVIOUS
    <3>1. PICK t \in Threads : slot[t] = s
      BY DEF IInv, SlotsHeld
    <3>2. s # None
      BY ExecutionAssumption DEF IInv, TypeOK
    <3> QED
      BY <3>1, <3>2 DEF IInv, SlotsHeld
  <2>2. {slot[t] : t \in {u \in Threads : mode[u] # "done"}} \ {None} \subseteq slotsInUse
    BY DEF IInv, SlotsHeld
  <2> QED
    BY <2>1, <2>2 DEF IInv, SlotsHeld, StacksDisjoint
<1> QED
  BY <1>1, ExecutionInvariant, PTL

\* An escape set by one call never waits for another's import
\* (dispatch_bridge_stages sets lp32_leave_guest, compat_runtime32_call clears it).
THEOREM EscapesStayInTheirCall == Spec => []NoPendingEscape
<1>1. IInv => NoPendingEscape
  BY DEF IInv
<1> QED
  BY <1>1, ExecutionInvariant, PTL

\* compat_runtime32_last_call_trapped is right about every call that ends.
THEOREM TrapReportsAreHonest == Spec => TrapReportHonest
<1> DEFINE Honest ==
      \A t \in Threads : mode'[t] = "host" /\ depth'[t] < depth[t] =>
        /\ outcome'[t] = "abandoned" => trapped'[t]
        /\ outcome'[t] = "returned" /\ trapped'[t] => refused'[t]
<1>1. IInv /\ [Next]_vars => [Honest]_vars
  <2> SUFFICES ASSUME IInv, Next PROVE Honest
    BY DEF Honest
  <2>1. PICK t \in Threads : Step(t)
    BY DEF Next
  <2> SUFFICES ASSUME NEW u \in Threads, mode'[u] = "host", depth'[u] < depth[u]
               PROVE  /\ outcome'[u] = "abandoned" => trapped'[u]
                      /\ outcome'[u] = "returned" /\ trapped'[u] => refused'[u]
    BY DEF Honest
  <2>2. u = t /\ (Exit(t) \/ Escape(t))
    BY <2>1
    DEF IInv, TypeOK, Step, Gateway, CallRefused, CallsGuest, Call, Import, Trap, ImportReturns,
        Resume, Escape, Enter, Exit, ThreadEnds, PthreadCreate, stack
  <2>3. CASE Exit(t)
    BY <2>2, <2>3 DEF IInv, TypeOK, FlagsInv, NoPendingEscape, Exit, flags
  <2>4. CASE Escape(t)
    BY <2>2, <2>4 DEF IInv, TypeOK, FlagsInv, Escape, flags
  <2> QED
    BY <2>2, <2>3, <2>4
<1>2. Spec => [][Honest]_vars
  BY <1>1, ExecutionInvariant, PTL DEF Spec
<1> QED
  BY <1>2 DEF TrapReportHonest, Honest

=============================================================================
