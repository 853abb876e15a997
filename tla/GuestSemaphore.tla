---------------------------- MODULE GuestSemaphore ----------------------------
(***************************************************************************)
(* The Multiprocessing Services semaphores of compat_runtime.c: a table of *)
(* slots, each with a mutex, a condition, a count and a generation, handed *)
(* to the guest as handles (generation mod 2^16, slot).                    *)
(*                                                                         *)
(* Every critical section on a slot's mutex runs to its unlock without     *)
(* blocking, except the wait, which leaves it in pthread_cond_wait; so one *)
(* section is one action, and a wait is split at its pthread_cond_wait.    *)
(* A create reads the `initialized' flags without the slots' mutexes, one  *)
(* flag at a time, so its scan is a step per flag.                         *)
(*                                                                         *)
(* An incarnation numbers the creations; it is a history variable, the     *)
(* code does not have it: `held' pairs each handle the guest has been      *)
(* given with the incarnation the handle was given for.                    *)
(***************************************************************************)
EXTENDS Integers, FiniteSets

CONSTANTS
  Threads,            \* the guest threads
  Capacity,           \* kGuestSemaphoreCapacity
  GenerationModulus,  \* kGuestSemaphoreSlotMask + 1: generations in a handle
  Maxima,             \* the `maximum' arguments the guest passes
  MaxCreates          \* BOUND: creations explored

ASSUME SemaphoreAssumption ==
  /\ Capacity \in Nat /\ Capacity > 1
  /\ GenerationModulus \in Nat /\ GenerationModulus > 1 /\ GenerationModulus % 2 = 0
  /\ IsFiniteSet(Threads)
  /\ Maxima \subseteq Nat \ {0}
  /\ MaxCreates \in Nat

Slots == 1 .. Capacity - 1

VARIABLES
  sem,         \* guest_semaphores: slot -> record
  highWater,   \* guest_semaphore_high_water
  liveCount,   \* guest_semaphore_live_count
  tableLock,   \* holder of guest_semaphore_table_lock, or {}
  pc,          \* where each thread is
  at,          \* per thread: slot under the create's scan, or waited on
  seen,        \* per thread: the generation a create made or a wait read
  wanted,      \* history: the incarnation a create made, or the one the
               \* handle given to a wait was made for
  created,     \* history: creations so far
  held,        \* handles the guest has been given
  last         \* history: outcome of the last operation to end

table == <<sem, highWater, liveCount, tableLock, created>>
local == <<at, seen, wanted>>
vars == <<table, pc, local, held, last>>

Handle(slot, generation) ==
  [slot |-> slot, generation |-> generation % GenerationModulus]

Empty == [initialized |-> FALSE, generation |-> 0, count |-> 0,
          maximum |-> 0, incarnation |-> 0]

\* pthread_cond_wait: asleep on the slot's condition, or woken and about to
\* retake its mutex.
Sleepers(s) == {t \in Threads : pc[t] = "sleep" /\ at[t] = s}
Awake(s) == {t \in Threads : pc[t] = "woken" /\ at[t] = s
                               /\ seen[t] = sem[s].generation}

NoOutcome == [op |-> "none", ok |-> FALSE, asked |-> 0, hit |-> 0]

\* `asked' is the incarnation the caller's handle was made for, `hit' the one
\* the operation acted on.
Outcome(op, ok, asked, hit) ==
  last' = [op |-> op, ok |-> ok, asked |-> asked, hit |-> hit]

\* The call returns to the guest; its locals are gone.
Leaves(t) ==
  /\ pc' = [pc EXCEPT ![t] = "run"]
  /\ at' = [at EXCEPT ![t] = 1]
  /\ seen' = [seen EXCEPT ![t] = 0]
  /\ wanted' = [wanted EXCEPT ![t] = 0]

Fails(op, h) ==
  /\ Outcome(op, FALSE, h.incarnation, 0)
  /\ UNCHANGED <<table, pc, local, held>>

-----------------------------------------------------------------------------
Init ==
  /\ sem = [s \in Slots |-> Empty]
  /\ highWater = 1
  /\ liveCount = 0
  /\ tableLock = {}
  /\ pc = [t \in Threads |-> "run"]
  /\ at = [t \in Threads |-> 1]
  /\ seen = [t \in Threads |-> 0]
  /\ wanted = [t \in Threads |-> 0]
  /\ created = 0
  /\ held = {}
  /\ last = NoOutcome

-----------------------------------------------------------------------------
(* guest_semaphore_create *)

CreateLockFree(t) ==
  /\ pc[t] = "run"
  /\ created < MaxCreates
  /\ tableLock' = {t}
  /\ pc' = [pc EXCEPT ![t] = "scan"]
  /\ at' = [at EXCEPT ![t] = 1]
  /\ UNCHANGED <<sem, highWater, liveCount, created, seen, wanted, held, last>>

CreateLock(t) ==
  /\ pc[t] = "run"
  /\ created < MaxCreates
  /\ tableLock = {}
  /\ tableLock' = {t}
  /\ pc' = [pc EXCEPT ![t] = "scan"]
  /\ at' = [at EXCEPT ![t] = 1]
  /\ UNCHANGED <<sem, highWater, liveCount, created, seen, wanted, held, last>>

\* One iteration of the scan over a slot in use.
ScanNext(t) ==
  /\ pc[t] = "scan"
  /\ at[t] < highWater
  /\ sem[at[t]].initialized
  /\ at' = [at EXCEPT ![t] = @ + 1]
  /\ UNCHANGED <<table, pc, seen, wanted, held, last>>

ScanFree(t) ==
  /\ pc[t] = "scan"
  /\ at[t] < highWater
  /\ ~ sem[at[t]].initialized
  /\ pc' = [pc EXCEPT ![t] = "commit"]
  /\ UNCHANGED <<table, local, held, last>>

\* The scan found none: take a slot never used.
ScanHighWater(t) ==
  /\ pc[t] = "scan"
  /\ at[t] = highWater
  /\ highWater < Capacity
  /\ highWater' = highWater + 1
  /\ pc' = [pc EXCEPT ![t] = "commit"]
  /\ UNCHANGED <<sem, liveCount, tableLock, created, local, held, last>>

ScanExhausted(t) ==
  /\ pc[t] = "scan"
  /\ at[t] = highWater
  /\ highWater >= Capacity
  /\ tableLock' = {}
  /\ Outcome("create", FALSE, 0, 0)
  /\ Leaves(t)
  /\ UNCHANGED <<sem, highWater, liveCount, created, held>>

CreateScan(t) == ScanNext(t) \/ ScanFree(t) \/ ScanHighWater(t) \/ ScanExhausted(t)

\* A generation whose low bits are zero is skipped: with slot bits it would
\* make a handle below 2^16.
NextGeneration(g) ==
  IF (g + 1) % GenerationModulus = 0 THEN g + 2 ELSE g + 1

\* The handle is computed while the slot's mutex is held.
CreateCommit(t) ==
  LET s == at[t]
      g == NextGeneration(sem[s].generation) IN
  /\ pc[t] = "commit"
  /\ \E maximum \in Maxima : \E initial \in 0 .. maximum :
       sem' = [sem EXCEPT ![s] =
                 [initialized |-> TRUE, generation |-> g, count |-> initial,
                  maximum |-> maximum, incarnation |-> created + 1]]
  /\ created' = created + 1
  /\ seen' = [seen EXCEPT ![t] = g]
  /\ wanted' = [wanted EXCEPT ![t] = created + 1]
  /\ pc' = [pc EXCEPT ![t] = "publish"]
  /\ UNCHANGED <<highWater, liveCount, tableLock, at, held, last>>

\* The live count is raised after the slot's mutex is dropped; the handle
\* reaches the guest only when the call returns.
CreateReturn(t) ==
  /\ pc[t] = "publish"
  /\ liveCount' = liveCount + 1
  /\ tableLock' = {}
  /\ held' = held \cup {[handle |-> Handle(at[t], seen[t]), incarnation |-> wanted[t]]}
  /\ Outcome("create", TRUE, wanted[t], wanted[t])
  /\ Leaves(t)
  /\ UNCHANGED <<sem, highWater, created>>

-----------------------------------------------------------------------------
MatchesIgnoringGeneration(h) == sem[h.slot].initialized

\* guest_semaphore_acquire: the checks made with the slot's mutex held.  A
\* slot that was never constructed is not initialized either.
Matches(h) ==
  /\ sem[h.slot].initialized
  /\ sem[h.slot].generation % GenerationModulus = h.generation

DeleteWakesOne(t, s) == pc' = [u \in Threads |->
  IF u = t THEN "discount"
  ELSE IF Sleepers(s) # {} /\ u = CHOOSE w \in Sleepers(s) : TRUE THEN "woken" ELSE pc[u]]

\* pthread_cond_broadcast on the slot's condition, the live count still to go.
DeleteWakes(t, s) == pc' = [u \in Threads |->
  IF u = t THEN "discount" ELSE IF u \in Sleepers(s) THEN "woken" ELSE pc[u]]

WakeNone(s) == UNCHANGED pc

\* pthread_cond_signal on the slot's condition.
WakeOne(s) ==
  \/ /\ Sleepers(s) = {}
     /\ UNCHANGED pc
  \/ \E u \in Sleepers(s) : pc' = [pc EXCEPT ![u] = "woken"]

RetiredInPlace(record) == [record EXCEPT !.initialized = FALSE]

Retired(record) ==
  [record EXCEPT !.initialized = FALSE, !.generation = record.generation + 1]

\* MPDeleteSemaphore
Delete(t) ==
  /\ pc[t] = "run"
  /\ \E h \in held : LET s == h.handle.slot IN
       /\ Matches(h.handle)
       /\ sem' = [sem EXCEPT ![s] = Retired(@)]
       /\ DeleteWakes(t, s)
       /\ Outcome("delete", TRUE, h.incarnation, sem[s].incarnation)
       /\ UNCHANGED <<highWater, liveCount, tableLock, created, local, held>>

\* The live count is lowered after the slot's mutex is dropped.
DeleteReturn(t) ==
  /\ pc[t] = "discount"
  /\ liveCount' = liveCount - 1
  /\ Leaves(t)
  /\ UNCHANGED <<sem, highWater, tableLock, created, held, last>>

Raised(record) ==
  IF record.count < record.maximum THEN record.count + 1 ELSE record.count

\* MPSignalSemaphore
Signal(t) ==
  /\ pc[t] = "run"
  /\ \E h \in held : LET s == h.handle.slot IN
       /\ Matches(h.handle)
       /\ sem' = [sem EXCEPT ![s].count = Raised(sem[s])]
       /\ WakeOne(s)
       /\ Outcome("signal", TRUE, h.incarnation, sem[s].incarnation)
       /\ UNCHANGED <<highWater, liveCount, tableLock, created, local, held>>

\* Any of the operations on a handle guest_semaphore_acquire does not accept.
Reject(t) ==
  /\ pc[t] = "run"
  /\ \E h \in held : \E op \in {"delete", "signal", "wait"} :
       ~ Matches(h.handle) /\ Fails(op, h)

-----------------------------------------------------------------------------
(* MPWaitOnSemaphore *)

\* The body of the wait after its loop: a token is taken.
WaitTake(t) ==
  /\ pc[t] = "run"
  /\ \E h \in held : LET s == h.handle.slot IN
       /\ Matches(h.handle)
       /\ sem[s].count > 0
       /\ sem' = [sem EXCEPT ![s].count = sem[s].count - 1]
       /\ Outcome("wait", TRUE, h.incarnation, sem[s].incarnation)
       /\ UNCHANGED <<highWater, liveCount, tableLock, created, pc, local, held>>

\* With no token and duration zero it fails; other durations are not looked at.
WaitPoll(t) ==
  /\ pc[t] = "run"
  /\ \E h \in held :
       Matches(h.handle) /\ sem[h.handle.slot].count <= 0 /\ Fails("wait", h)

WaitSleep(t) ==
  /\ pc[t] = "run"
  /\ \E h \in held : LET s == h.handle.slot IN
       /\ Matches(h.handle)
       /\ sem[s].count <= 0
       /\ pc' = [pc EXCEPT ![t] = "sleep"]
       /\ at' = [at EXCEPT ![t] = s]
       /\ seen' = [seen EXCEPT ![t] = sem[s].generation]
       /\ wanted' = [wanted EXCEPT ![t] = h.incarnation]
       /\ UNCHANGED <<table, held, last>>

\* POSIX lets pthread_cond_wait return without a wakeup.
SpuriousWake(t) ==
  /\ pc[t] = "sleep"
  /\ pc' = [pc EXCEPT ![t] = "woken"]
  /\ UNCHANGED <<table, local, held, last>>

StillWaitingOnLive(t) == sem[at[t]].initialized

\* The condition of the wait's loop that names the incarnation waited on.
StillWaiting(t) ==
  sem[at[t]].initialized /\ sem[at[t]].generation = seen[t]

\* Back from pthread_cond_wait with the mutex: sleep again, take, or give up.
RecheckSleep(t) ==
  /\ pc[t] = "woken"
  /\ StillWaiting(t)
  /\ sem[at[t]].count <= 0
  /\ pc' = [pc EXCEPT ![t] = "sleep"]
  /\ UNCHANGED <<table, local, held, last>>

RecheckTake(t) ==
  LET s == at[t] IN
  /\ pc[t] = "woken"
  /\ StillWaiting(t)
  /\ sem[s].count > 0
  /\ sem' = [sem EXCEPT ![s].count = sem[s].count - 1]
  /\ Outcome("wait", TRUE, wanted[t], sem[s].incarnation)
  /\ Leaves(t)
  /\ UNCHANGED <<highWater, liveCount, tableLock, created, held>>

RecheckFail(t) ==
  /\ pc[t] = "woken"
  /\ ~ StillWaiting(t)
  /\ Outcome("wait", FALSE, wanted[t], 0)
  /\ Leaves(t)
  /\ UNCHANGED <<table, held>>

Recheck(t) == RecheckSleep(t) \/ RecheckTake(t) \/ RecheckFail(t)

-----------------------------------------------------------------------------
Create(t) == CreateLock(t) \/ CreateScan(t) \/ CreateCommit(t) \/ CreateReturn(t)
Wait(t) == WaitTake(t) \/ WaitPoll(t) \/ WaitSleep(t) \/ SpuriousWake(t) \/ Recheck(t)

Step(t) ==
  Create(t) \/ Delete(t) \/ DeleteReturn(t) \/ Signal(t) \/ Reject(t) \/ Wait(t)

Next == \E t \in Threads : Step(t)

Spec == Init /\ [][Next]_vars

\* A thread inside a call keeps running: the host scheduler runs every woken
\* pthread, and no create waits for anything once it has the table lock.
\* What the guest calls next is its own choice and gets no fairness.
Fairness ==
  \A t \in Threads :
    WF_vars(Recheck(t)) /\ WF_vars(CreateScan(t) \/ CreateCommit(t) \/ CreateReturn(t))
                        /\ WF_vars(DeleteReturn(t))

FairSpec == Spec /\ Fairness

-----------------------------------------------------------------------------
(* The refinement mapping: the incarnation in use in a slot is alive. *)

Alive == {sem[s].incarnation : s \in {u \in Slots : sem[u].initialized}}
SlotOf(i) == CHOOSE s \in Slots : sem[s].initialized /\ sem[s].incarnation = i
Tokens == [i \in 1 .. MaxCreates |-> IF i \in Alive THEN sem[SlotOf(i)].count ELSE 0]
Limit == [i \in 1 .. MaxCreates |-> IF i \in Alive THEN sem[SlotOf(i)].maximum ELSE 0]

Promise == INSTANCE SemaphorePromise WITH
  Ids <- 1 .. MaxCreates, alive <- Alive, dead <- (1 .. created) \ Alive,
  tokens <- Tokens, limit <- Limit

\* The slot table implements the promise: identities are never confused, a
\* failing operation fails for the promised reason, tokens are conserved.
ImplementsPromise == Promise!Spec

-----------------------------------------------------------------------------
SemaphoreRecord == [initialized : BOOLEAN, generation : Nat, count : Nat,
                    maximum : Nat, incarnation : Nat]
HeldHandle == [handle : [slot : Slots, generation : Nat], incarnation : Nat]

\* The type invariant: every variable of the semaphore table and of the calls
\* in progress has its type, and a call past its scan stands on a real slot.
TypeOK ==
  /\ sem \in [Slots -> SemaphoreRecord]
  /\ highWater \in 1 .. Capacity
  /\ liveCount \in Int
  /\ tableLock \in SUBSET Threads
  /\ pc \in [Threads -> {"run", "scan", "commit", "publish", "discount", "sleep", "woken"}]
  /\ at \in [Threads -> 1 .. Capacity]
  /\ \A t \in Threads : pc[t] \in {"commit", "publish", "sleep", "woken"} => at[t] \in Slots
  /\ seen \in [Threads -> Nat]
  /\ wanted \in [Threads -> Nat]
  /\ created \in Nat
  /\ held \subseteq HeldHandle
  /\ last \in [op : {"none", "create", "delete", "signal", "wait"}, ok : BOOLEAN,
               asked : Nat, hit : Nat]

\* No thread is asleep on a semaphore that is gone: deletion broadcasts before
\* the slot can be reused, so a signal to the slot's next semaphore can never
\* be swallowed by a waiter of the previous one, though both use the same
\* condition (guest_semaphore, MPDeleteSemaphore).
NoStaleSleeper ==
  \A t \in Threads : pc[t] = "sleep" =>
    /\ sem[at[t]].initialized
    /\ sem[at[t]].generation = seen[t]

\* No lost wakeup: while some thread sleeps on a semaphore, every token of it
\* is owed to a thread already woken.  Barging waits and spurious returns of
\* pthread_cond_wait may take tokens first, but no token is left lying beside
\* a sleeper (MPSignalSemaphore signals under the mutex even at the maximum).
NoLostWakeup ==
  \A s \in Slots : Sleepers(s) # {} => sem[s].count <= Cardinality(Awake(s))

\* An operation never succeeds on a semaphore other than the one its handle was
\* made for, however many deletes and creates of the slot come between
\* (guest_semaphore_acquire, the loop of MPWaitOnSemaphore).
StaleHandleRejected == last.ok => last.asked = last.hit

InUse == {s \in Slots : sem[s].initialized}

\* guest_semaphore_live_count is the number of semaphores in use, but for the
\* creates and deletes between a slot's mutex and the counter, and it never
\* wraps below zero: two racing deletes of one handle count once.
LiveCountExact ==
  /\ liveCount >= 0
  /\ liveCount + Cardinality({t \in Threads : pc[t] = "publish"})
       = Cardinality(InUse) + Cardinality({t \in Threads : pc[t] = "discount"})

\* Live generations are odd and free ones even, so a handle takes only half of
\* its 2^16 values: a slot's handles repeat after 2^15 creations.
LiveGenerationsOdd ==
  \A s \in Slots : sem[s].initialized <=> sem[s].generation % 2 = 1

\* What makes the above inductive.  One create at a time is past the table
\* lock; the slot it settles on is free and stays free; a handle, a returning
\* create and a wait never know a later generation than the slot's, and if they
\* know the slot's live generation they know its incarnation.
Creating == {"scan", "commit", "publish"}

CreatesAlone == \A t \in Threads : pc[t] \in Creating => tableLock = {t}

ScanFindsFree ==
  /\ \A s \in Slots : s >= highWater => ~ sem[s].initialized
  /\ \A t \in Threads :
       /\ pc[t] = "scan" => at[t] <= highWater
       /\ pc[t] = "commit" => at[t] < highWater /\ ~ sem[at[t]].initialized

WaitInv == CreatesAlone /\ ScanFindsFree /\ NoStaleSleeper /\ NoLostWakeup

Knows(s, generation, incarnation) ==
  /\ generation <= sem[s].generation
  /\ (generation = sem[s].generation /\ sem[s].initialized) => incarnation = sem[s].incarnation

GenerationsBounded ==
  /\ created <= MaxCreates
  /\ \A t \in Threads : pc[t] \in {"scan", "commit"} => created < MaxCreates
  /\ \A s \in Slots :
       sem[s].generation <= IF sem[s].initialized THEN 2 * created - 1 ELSE 2 * created

\* Generations stay below the modulus: no handle repeats.
NoWrap == 2 * MaxCreates < GenerationModulus

HandlesKnow ==
  \A h \in held : Knows(h.handle.slot, h.handle.generation, h.incarnation)

InCall == {"publish", "sleep", "woken"}

CallsKnow == \A t \in Threads : pc[t] \in InCall => Knows(at[t], seen[t], wanted[t])

HandleInv == GenerationsBounded /\ HandlesKnow /\ CallsKnow /\ StaleHandleRejected

\* The count of live semaphores is right but for the calls that are between a
\* slot's mutex and the counter, and a slot's generation tells whether it is in
\* use (guest_semaphore_live_count, MPDeleteSemaphore).
TableExact == LiveCountExact /\ LiveGenerationsOdd

\* What the refinement rests on beside that.  An incarnation is alive in one
\* slot and generation at most, and whoever holds a handle for it, waits on it
\* or is about to return it knows that place; and the semaphore of a create
\* that has not returned is in its slot, as no handle to it is out.
Placed(i, s, generation) ==
  \A u \in InUse : sem[u].incarnation = i => u = s /\ sem[u].generation = generation

SlotsPlaced ==
  \A s \in InUse :
    sem[s].incarnation \in 1 .. created /\ Placed(sem[s].incarnation, s, sem[s].generation)

HandlesPlaced ==
  \A h \in held :
    h.incarnation \in 1 .. created /\ Placed(h.incarnation, h.handle.slot, h.handle.generation)

CallsPlaced ==
  \A t \in Threads : pc[t] \in InCall =>
    wanted[t] \in 1 .. created /\ Placed(wanted[t], at[t], seen[t])

NotYetHeld ==
  \A t \in Threads : pc[t] = "publish" =>
    /\ at[t] \in InUse /\ sem[at[t]].incarnation = wanted[t]
    /\ \A h \in held : h.incarnation # wanted[t]

IncarnationInv == SlotsPlaced /\ HandlesPlaced /\ CallsPlaced /\ NotYetHeld

\* A thread waiting on a semaphore that is deleted comes back from the wait.
DeletedWaiterReturns ==
  \A t \in Threads :
    (/\ pc[t] \in {"sleep", "woken"}
     /\ ~ (sem[at[t]].initialized /\ sem[at[t]].generation = seen[t])) ~> pc[t] = "run"

=============================================================================
