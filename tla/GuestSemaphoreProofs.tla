------------------------- MODULE GuestSemaphoreProofs -------------------------
(***************************************************************************)
(* Proofs about GuestSemaphore: for any number of threads, slots and       *)
(* creations, its type invariant, the absence of stale sleepers and of     *)
(* lost wakeups; and, while no slot's generation wraps, that a stale       *)
(* handle is rejected.  Then that the slot table keeps its books and its   *)
(* promise: its generations tell which slots are in use, its live count is *)
(* the number of semaphores; and, while no slot's generation wraps, every  *)
(* step of it is a step of SemaphorePromise or one the guest cannot see.   *)
(***************************************************************************)
EXTENDS GuestSemaphore, FiniteSetTheorems, TLAPS

-----------------------------------------------------------------------------
(* Type correctness *)

\* A slot's record stays one when its fields are assigned.
LEMMA CommitTyped ==
  ASSUME TypeOK, NEW s \in Slots, NEW x \in SemaphoreRecord, sem' = [sem EXCEPT ![s] = x]
  PROVE  sem' \in [Slots -> SemaphoreRecord]
BY DEF TypeOK

\* So does the record a delete leaves in the slot.
LEMMA RetireTyped ==
  ASSUME TypeOK, NEW s \in Slots, sem' = [sem EXCEPT ![s] = Retired(@)]
  PROVE  sem' \in [Slots -> SemaphoreRecord]
<1>1. sem[s] \in SemaphoreRecord
  BY DEF TypeOK
<1>2. Retired(sem[s]) \in SemaphoreRecord
  <2> DEFINE r == sem[s]
  <2>1. r.generation + 1 \in Nat
    BY <1>1 DEF SemaphoreRecord
  <2>2. QED
    BY <1>1, <2>1 DEF Retired, SemaphoreRecord
<1>3. sem' = [sem EXCEPT ![s] = Retired(sem[s])]
  OBVIOUS
<1>4. QED
  BY <1>2, <1>3, CommitTyped

\* And the record with another count of tokens.
LEMMA CountTyped ==
  ASSUME TypeOK, NEW s \in Slots, NEW n \in Nat, sem' = [sem EXCEPT ![s].count = n]
  PROVE  sem' \in [Slots -> SemaphoreRecord]
<1> DEFINE x == [sem[s] EXCEPT !.count = n]
<1>1. sem[s] \in SemaphoreRecord
  BY DEF TypeOK
<1>2. x \in SemaphoreRecord
  BY <1>1 DEF SemaphoreRecord
<1>3. sem' = [sem EXCEPT ![s] = x]
  OBVIOUS
<1>4. QED
  BY <1>2, <1>3, CommitTyped

\* A held handle names a slot with a record.
LEMMA HeldTyped ==
  ASSUME TypeOK, NEW h \in held
  PROVE  /\ h.handle.slot \in Slots
         /\ h.handle.generation \in Nat
         /\ h.incarnation \in Nat
         /\ sem[h.handle.slot] \in SemaphoreRecord
         /\ sem[h.handle.slot].count \in Nat
         /\ sem[h.handle.slot].maximum \in Nat
         /\ sem[h.handle.slot].generation \in Nat
         /\ sem[h.handle.slot].incarnation \in Nat
<1>1. h \in HeldHandle
  BY DEF TypeOK
<1>2. /\ h.handle.slot \in Slots
      /\ h.handle.generation \in Nat
      /\ h.incarnation \in Nat
  BY <1>1 DEF HeldHandle
<1>3. sem[h.handle.slot] \in SemaphoreRecord
  BY <1>2 DEF TypeOK
<1>4. QED
  BY <1>2, <1>3 DEF SemaphoreRecord

\* The generation a create gives is a number.
LEMMA NextGenerationTyped ==
  ASSUME NEW g \in Nat
  PROVE  NextGeneration(g) \in Nat
<1>1. NextGeneration(g) = g + 1 \/ NextGeneration(g) = g + 2
  BY Zenon DEF NextGeneration
<1>2. QED
  BY <1>1

\* So is the count a signal leaves.
LEMMA RaisedTyped ==
  ASSUME TypeOK, NEW h \in held
  PROVE  Raised(sem[h.handle.slot]) \in Nat
<1>1. sem[h.handle.slot].count \in Nat
  BY HeldTyped
<1>2. QED
  BY <1>1 DEF Raised

\* Each step of guest_semaphore_create keeps the types.
LEMMA CreateKeepsTypes ==
  ASSUME TypeOK, NEW t \in Threads, Create(t)
  PROVE  TypeOK'
<1> USE SemaphoreAssumption DEF TypeOK, Slots, table, local
<1>1. CASE CreateLock(t)
  BY <1>1 DEF CreateLock
<1>2. CASE ScanNext(t)
  BY <1>2, SMTT(30) DEF ScanNext
<1>3. CASE ScanFree(t)
  BY <1>3 DEF ScanFree
<1>4. CASE ScanHighWater(t)
  BY <1>4 DEF ScanHighWater
<1>5. CASE ScanExhausted(t)
  BY <1>5 DEF ScanExhausted, Leaves, Outcome
<1>6. CASE CreateCommit(t)
  <2> DEFINE s == at[t]
             g == NextGeneration(sem[s].generation)
  <2>1. s \in Slots /\ sem[s] \in SemaphoreRecord /\ created \in Nat
    BY <1>6 DEF CreateCommit
  <2>2. g \in Nat
    <3>1. sem[s].generation \in Nat
      BY <2>1 DEF SemaphoreRecord
    <3>2. QED
      BY <3>1, NextGenerationTyped
  <2>3. sem' \in [Slots -> SemaphoreRecord]
    <3>1. PICK m \in Nat, n \in Nat :
            sem' = [sem EXCEPT ![s] = [initialized |-> TRUE, generation |-> g, count |-> n,
                                       maximum |-> m, incarnation |-> created + 1]]
      <4>1. Maxima \subseteq Nat /\ \A m \in Nat : 0 .. m \subseteq Nat
        OBVIOUS
      <4>2. QED
        BY <1>6, <4>1 DEF CreateCommit
    <3>2. [initialized |-> TRUE, generation |-> g, count |-> n,
           maximum |-> m, incarnation |-> created + 1] \in SemaphoreRecord
      BY <2>1, <2>2 DEF SemaphoreRecord
    <3>3. QED
      BY <2>1, <3>1, <3>2, CommitTyped
  <2>4. seen' \in [Threads -> Nat] /\ wanted' \in [Threads -> Nat] /\ created' \in Nat
    BY <1>6, <2>1, <2>2 DEF CreateCommit
  <2>5. QED
    BY <1>6, <2>1, <2>3, <2>4 DEF CreateCommit
<1>7. CASE CreateReturn(t)
  BY <1>7, SMTT(30) DEF CreateReturn, Leaves, Outcome, HeldHandle, Handle
<1>8. QED
  BY <1>1, <1>2, <1>3, <1>4, <1>5, <1>6, <1>7 DEF Create, CreateScan

\* So do the deletes, the signals and the operations that are refused.
LEMMA DeleteAndSignalKeepTypes ==
  ASSUME TypeOK, NEW t \in Threads,
         Delete(t) \/ DeleteReturn(t) \/ Signal(t) \/ Reject(t)
  PROVE  TypeOK'
<1> USE SemaphoreAssumption DEF TypeOK, Slots, table, local, Outcome
<1>1. CASE Delete(t)
  <2>1. PICK h \in held :
          /\ sem' = [sem EXCEPT ![h.handle.slot] = Retired(@)]
          /\ DeleteWakes(t, h.handle.slot)
          /\ Outcome("delete", TRUE, h.incarnation, sem[h.handle.slot].incarnation)
          /\ UNCHANGED <<highWater, liveCount, tableLock, created, local, held>>
    BY <1>1 DEF Delete
  <2>2. sem' \in [Slots -> SemaphoreRecord]
    BY <2>1, HeldTyped, RetireTyped
  <2>3. last' \in [op : {"none", "create", "delete", "signal", "wait"}, ok : BOOLEAN,
                   asked : Nat, hit : Nat]
    BY <2>1, HeldTyped DEF SemaphoreRecord
  <2>4. /\ pc' \in [Threads -> {"run", "scan", "commit", "publish", "discount", "sleep", "woken"}]
        /\ \A u \in Threads : pc'[u] \in {"run", "discount"} \/ pc'[u] = pc[u]
                               \/ (pc'[u] = "woken" /\ pc[u] = "sleep")
    BY <2>1 DEF DeleteWakes, Sleepers
  <2>5. QED
    BY <2>1, <2>2, <2>3, <2>4
<1>2. CASE DeleteReturn(t)
  BY <1>2 DEF DeleteReturn, Leaves
<1>3. CASE Signal(t)
  <2>1. PICK h \in held :
          /\ sem' = [sem EXCEPT ![h.handle.slot].count = Raised(sem[h.handle.slot])]
          /\ WakeOne(h.handle.slot)
          /\ Outcome("signal", TRUE, h.incarnation, sem[h.handle.slot].incarnation)
          /\ UNCHANGED <<highWater, liveCount, tableLock, created, local, held>>
    BY <1>3 DEF Signal
  <2>2. sem' \in [Slots -> SemaphoreRecord]
    <3>1. Raised(sem[h.handle.slot]) \in Nat
      BY RaisedTyped
    <3>2. QED
      BY <2>1, <3>1, HeldTyped, CountTyped
  <2>3. last' \in [op : {"none", "create", "delete", "signal", "wait"}, ok : BOOLEAN,
                   asked : Nat, hit : Nat]
    BY <2>1, HeldTyped DEF SemaphoreRecord
  <2>4. /\ pc' \in [Threads -> {"run", "scan", "commit", "publish", "discount", "sleep", "woken"}]
        /\ \A u \in Threads : pc'[u] = pc[u] \/ (pc'[u] = "woken" /\ pc[u] = "sleep")
    BY <2>1 DEF WakeOne, Sleepers
  <2>5. QED
    BY <2>1, <2>2, <2>3, <2>4
<1>4. CASE Reject(t)
  BY <1>4, SMTT(30) DEF Reject, Fails, HeldHandle
<1>5. QED
  BY <1>1, <1>2, <1>3, <1>4

\* And the waits.
LEMMA WaitKeepsTypes ==
  ASSUME TypeOK, NEW t \in Threads, Wait(t)
  PROVE  TypeOK'
<1> USE SemaphoreAssumption DEF TypeOK, Slots, table, local, Outcome
<1>1. CASE WaitTake(t)
  <2>1. PICK h \in held :
          /\ sem[h.handle.slot].count > 0
          /\ sem' = [sem EXCEPT ![h.handle.slot].count = sem[h.handle.slot].count - 1]
          /\ Outcome("wait", TRUE, h.incarnation, sem[h.handle.slot].incarnation)
          /\ UNCHANGED <<highWater, liveCount, tableLock, created, pc, local, held>>
    BY <1>1 DEF WaitTake
  <2>2. sem' \in [Slots -> SemaphoreRecord]
    <3>1. sem[h.handle.slot].count - 1 \in Nat
      <4>1. sem[h.handle.slot].count \in Nat
        BY HeldTyped
      <4>2. sem[h.handle.slot].count > 0
        BY <2>1
      <4>3. QED
        BY <4>1, <4>2
    <3>2. QED
      BY <2>1, <3>1, HeldTyped, CountTyped
  <2>3. last' \in [op : {"none", "create", "delete", "signal", "wait"}, ok : BOOLEAN,
                   asked : Nat, hit : Nat]
    BY <2>1, HeldTyped DEF SemaphoreRecord
  <2>4. QED
    BY <2>1, <2>2, <2>3
<1>2. CASE WaitPoll(t)
  BY <1>2, SMTT(30) DEF WaitPoll, Fails, HeldHandle
<1>3. CASE WaitSleep(t)
  <2>1. PICK h \in held :
          /\ pc' = [pc EXCEPT ![t] = "sleep"]
          /\ at' = [at EXCEPT ![t] = h.handle.slot]
          /\ seen' = [seen EXCEPT ![t] = sem[h.handle.slot].generation]
          /\ wanted' = [wanted EXCEPT ![t] = h.incarnation]
          /\ UNCHANGED <<table, held, last>>
    BY <1>3 DEF WaitSleep
  <2>2. /\ h.handle.slot \in Slots
        /\ sem[h.handle.slot].generation \in Nat
        /\ h.incarnation \in Nat
    BY HeldTyped DEF SemaphoreRecord
  <2>3. UNCHANGED <<sem, highWater, liveCount, tableLock, created, held, last>>
    BY <2>1
  <2>4. /\ seen' \in [Threads -> Nat]
        /\ wanted' \in [Threads -> Nat]
    BY <2>1, <2>2
  <2>5. pc' = [pc EXCEPT ![t] = "sleep"] /\ at' = [at EXCEPT ![t] = h.handle.slot]
    BY <2>1
  <2>6. /\ at' \in [Threads -> 1..Capacity]
        /\ \A u \in Threads : pc'[u] \in {"commit", "publish", "sleep", "woken"} => at'[u] \in Slots
    BY <2>2, <2>5, SMTT(30)
  <2>7. QED
    BY <2>3, <2>4, <2>5, <2>6
<1>4. CASE SpuriousWake(t)
  BY <1>4 DEF SpuriousWake
<1>5. CASE RecheckSleep(t)
  BY <1>5 DEF RecheckSleep
<1>6. CASE RecheckTake(t)
  <2>1. at[t] \in Slots /\ sem[at[t]] \in SemaphoreRecord
    BY <1>6 DEF RecheckTake
  <2>2. sem' \in [Slots -> SemaphoreRecord]
    <3>1. sem[at[t]].count - 1 \in Nat
      <4>1. sem[at[t]].count \in Nat
        BY <2>1 DEF SemaphoreRecord
      <4>2. sem[at[t]].count > 0
        BY <1>6 DEF RecheckTake
      <4>3. QED
        BY <4>1, <4>2
    <3>2. QED
      BY <1>6, <2>1, <3>1, CountTyped DEF RecheckTake
  <2>3. last' \in [op : {"none", "create", "delete", "signal", "wait"}, ok : BOOLEAN,
                   asked : Nat, hit : Nat]
    BY <1>6, <2>1 DEF RecheckTake, SemaphoreRecord
  <2>4. QED
    BY <1>6, <2>2, <2>3, SMTT(30) DEF RecheckTake, Leaves
<1>7. CASE RecheckFail(t)
  BY <1>7 DEF RecheckFail, Leaves
<1>8. QED
  BY <1>1, <1>2, <1>3, <1>4, <1>5, <1>6, <1>7 DEF Wait, Recheck

\* Every variable of the table and of every call keeps its type, for any
\* number of threads, slots and creations.
THEOREM TypeCorrect == Spec => []TypeOK
<1>1. Init => TypeOK
  BY SemaphoreAssumption DEF Init, TypeOK, Slots, Empty, SemaphoreRecord, NoOutcome
<1>2. TypeOK /\ [Next]_vars => TypeOK'
  <2> SUFFICES ASSUME TypeOK, [Next]_vars PROVE TypeOK'
    OBVIOUS
  <2>1. ASSUME NEW t \in Threads, Step(t) PROVE TypeOK'
    BY <2>1, CreateKeepsTypes, DeleteAndSignalKeepTypes, WaitKeepsTypes DEF Step
  <2>2. CASE UNCHANGED vars
    BY <2>2 DEF vars, table, local, TypeOK
  <2>3. QED
    BY <2>1, <2>2 DEF Next
<1>3. QED
  BY <1>1, <1>2, PTL DEF Spec

-----------------------------------------------------------------------------
(* What each operation does to the slots and to where the threads are *)

\* A step that leaves the slots alone.
LEMMA QuietSteps ==
  ASSUME TypeOK, NEW t \in Threads,
         \/ CreateLock(t) \/ ScanNext(t) \/ ScanFree(t) \/ ScanHighWater(t) \/ ScanExhausted(t)
         \/ CreateReturn(t) \/ DeleteReturn(t) \/ Reject(t) \/ WaitPoll(t) \/ WaitSleep(t)
         \/ SpuriousWake(t) \/ RecheckSleep(t) \/ RecheckFail(t)
  PROVE  /\ sem' = sem
         /\ \A u \in Threads \ {t} : pc'[u] = pc[u] /\ at'[u] = at[u] /\ seen'[u] = seen[u]
                                      /\ wanted'[u] = wanted[u]
<1> USE DEF TypeOK, table, local
<1>1. CASE CreateLock(t) \/ ScanNext(t) \/ ScanFree(t) \/ ScanHighWater(t)
  BY <1>1 DEF CreateLock, ScanNext, ScanFree, ScanHighWater
<1>2. CASE ScanExhausted(t) \/ CreateReturn(t) \/ DeleteReturn(t)
  BY <1>2 DEF ScanExhausted, CreateReturn, DeleteReturn, Leaves
<1>3. CASE Reject(t) \/ WaitPoll(t) \/ WaitSleep(t)
  BY <1>3, ZenonT(40) DEF Reject, WaitPoll, WaitSleep, Fails
<1>4. CASE SpuriousWake(t) \/ RecheckSleep(t) \/ RecheckFail(t)
  BY <1>4 DEF SpuriousWake, RecheckSleep, RecheckFail, Leaves
<1>5. QED
  BY <1>1, <1>2, <1>3, <1>4

\* guest_semaphore_create fills in the slot it found.
LEMMA CommitStep ==
  ASSUME TypeOK, NEW t \in Threads, CreateCommit(t)
  PROVE  /\ at[t] \in Slots
         /\ \A u \in Slots \ {at[t]} : sem'[u] = sem[u]
         /\ sem'[at[t]].initialized
         /\ sem'[at[t]].generation = NextGeneration(sem[at[t]].generation)
         /\ sem'[at[t]].incarnation = created + 1
         /\ pc'[t] = "publish"
         /\ seen'[t] = NextGeneration(sem[at[t]].generation)
         /\ wanted'[t] = created + 1
         /\ \A u \in Threads \ {t} : pc'[u] = pc[u] /\ seen'[u] = seen[u] /\ wanted'[u] = wanted[u]
         /\ created' = created + 1
         /\ UNCHANGED <<highWater, tableLock, at, held, last>>
<1> DEFINE s == at[t]
           g == NextGeneration(sem[s].generation)
<1>1. at[t] \in Slots
  BY DEF TypeOK, CreateCommit
<1>2. PICK m \in Nat, n \in Nat :
        sem' = [sem EXCEPT ![s] = [initialized |-> TRUE, generation |-> g, count |-> n,
                                   maximum |-> m, incarnation |-> created + 1]]
  <2>1. Maxima \subseteq Nat /\ \A m \in Nat : 0 .. m \subseteq Nat
    BY SemaphoreAssumption
  <2>2. QED
    BY <2>1 DEF CreateCommit
<1>3. QED
  BY <1>1, <1>2 DEF CreateCommit, TypeOK

\* MPDeleteSemaphore frees the slot and wakes everyone asleep on it.
LEMMA DeleteStep ==
  ASSUME TypeOK, NEW t \in Threads, Delete(t)
  PROVE  \E h \in held :
           LET s == h.handle.slot IN
           /\ Matches(h.handle)
           /\ \A u \in Slots \ {s} : sem'[u] = sem[u]
           /\ ~ sem'[s].initialized
           /\ sem'[s].generation = sem[s].generation + 1
           /\ \A u \in Threads :
                pc'[u] = IF u = t THEN "discount"
                         ELSE IF pc[u] = "sleep" /\ at[u] = s THEN "woken" ELSE pc[u]
           /\ last'.asked = h.incarnation /\ last'.hit = sem[s].incarnation
           /\ UNCHANGED <<highWater, tableLock, created, at, seen, wanted, held>>
<1>1. PICK h \in held :
        /\ Matches(h.handle)
        /\ sem' = [sem EXCEPT ![h.handle.slot] = Retired(@)]
        /\ DeleteWakes(t, h.handle.slot)
        /\ Outcome("delete", TRUE, h.incarnation, sem[h.handle.slot].incarnation)
        /\ UNCHANGED <<highWater, liveCount, tableLock, created, local, held>>
  BY DEF Delete
<1> DEFINE s == h.handle.slot
<1>2. s \in Slots /\ sem[s] \in SemaphoreRecord
  BY HeldTyped
<1>3. /\ \A u \in Slots \ {s} : sem'[u] = sem[u]
      /\ ~ sem'[s].initialized
      /\ sem'[s].generation = sem[s].generation + 1
  BY <1>1, <1>2 DEF TypeOK, Retired, SemaphoreRecord
<1>4. \A u \in Threads :
        pc'[u] = IF u = t THEN "discount"
                 ELSE IF pc[u] = "sleep" /\ at[u] = s THEN "woken" ELSE pc[u]
  BY <1>1 DEF DeleteWakes, Sleepers
<1>5. last'.asked = h.incarnation /\ last'.hit = sem[s].incarnation
  BY <1>1 DEF Outcome
<1>6. QED
  BY <1>1, <1>3, <1>4, <1>5 DEF local

\* An assignment to one slot's count changes nothing else of the slots.
LEMMA CountStep ==
  ASSUME TypeOK, NEW s \in Slots, NEW n \in Nat, sem' = [sem EXCEPT ![s].count = n]
  PROVE  /\ sem'[s].count = n
         /\ \A u \in Slots : /\ sem'[u].initialized = sem[u].initialized
                             /\ sem'[u].generation = sem[u].generation
                             /\ sem'[u].incarnation = sem[u].incarnation
         /\ \A u \in Slots \ {s} : sem'[u] = sem[u]
BY DEF TypeOK, SemaphoreRecord

\* MPSignalSemaphore adds at most one token and wakes one sleeper, if any.
LEMMA SignalStep ==
  ASSUME TypeOK, NEW t \in Threads, Signal(t)
  PROVE  \E h \in held :
           LET s == h.handle.slot IN
           /\ Matches(h.handle)
           /\ sem'[s].count <= sem[s].count + 1
           /\ \A u \in Slots : /\ sem'[u].initialized = sem[u].initialized
                               /\ sem'[u].generation = sem[u].generation
                               /\ sem'[u].incarnation = sem[u].incarnation
           /\ \A u \in Slots \ {s} : sem'[u] = sem[u]
           /\ WakeOne(s)
           /\ last'.asked = h.incarnation /\ last'.hit = sem[s].incarnation
           /\ UNCHANGED <<highWater, tableLock, created, at, seen, wanted, held>>
<1>1. PICK h \in held :
        /\ Matches(h.handle)
        /\ sem' = [sem EXCEPT ![h.handle.slot].count = Raised(sem[h.handle.slot])]
        /\ WakeOne(h.handle.slot)
        /\ Outcome("signal", TRUE, h.incarnation, sem[h.handle.slot].incarnation)
        /\ UNCHANGED <<highWater, liveCount, tableLock, created, local, held>>
  BY DEF Signal
<1>2. h.handle.slot \in Slots /\ Raised(sem[h.handle.slot]) \in Nat
  BY HeldTyped, RaisedTyped
<1>3. Raised(sem[h.handle.slot]) <= sem[h.handle.slot].count + 1
  <2>1. sem[h.handle.slot].count \in Nat
    BY HeldTyped
  <2>2. QED
    BY <2>1 DEF Raised
<1>4. last'.asked = h.incarnation /\ last'.hit = sem[h.handle.slot].incarnation
  BY <1>1 DEF Outcome
<1>5. QED
  BY <1>1, <1>2, <1>3, <1>4, CountStep DEF local

\* MPWaitOnSemaphore finding a token at once.
LEMMA WaitTakeStep ==
  ASSUME TypeOK, NEW t \in Threads, WaitTake(t)
  PROVE  \E h \in held :
           LET s == h.handle.slot IN
           /\ Matches(h.handle)
           /\ sem'[s].count <= sem[s].count
           /\ \A u \in Slots : /\ sem'[u].initialized = sem[u].initialized
                               /\ sem'[u].generation = sem[u].generation
                               /\ sem'[u].incarnation = sem[u].incarnation
           /\ \A u \in Slots \ {s} : sem'[u] = sem[u]
           /\ last'.asked = h.incarnation /\ last'.hit = sem[s].incarnation
           /\ UNCHANGED <<highWater, tableLock, created, pc, at, seen, wanted, held>>
<1>1. PICK h \in held :
        /\ Matches(h.handle)
        /\ sem[h.handle.slot].count > 0
        /\ sem' = [sem EXCEPT ![h.handle.slot].count = sem[h.handle.slot].count - 1]
        /\ Outcome("wait", TRUE, h.incarnation, sem[h.handle.slot].incarnation)
        /\ UNCHANGED <<highWater, liveCount, tableLock, created, pc, local, held>>
  BY DEF WaitTake
<1> DEFINE n == sem[h.handle.slot].count
<1>2. h.handle.slot \in Slots /\ n \in Nat
  BY HeldTyped
<1>3. n > 0
  BY <1>1
<1>4. n - 1 \in Nat /\ n - 1 <= n
  BY <1>2, <1>3
<1>5. last'.asked = h.incarnation /\ last'.hit = sem[h.handle.slot].incarnation
  BY <1>1 DEF Outcome
<1>6. QED
  BY <1>1, <1>2, <1>4, <1>5, CountStep DEF local

\* The end of the wait's loop with a token.
LEMMA RecheckTakeStep ==
  ASSUME TypeOK, NEW t \in Threads, RecheckTake(t)
  PROVE  /\ at[t] \in Slots
         /\ sem[at[t]].count \in Nat
         /\ sem'[at[t]].count = sem[at[t]].count - 1
         /\ \A u \in Slots : /\ sem'[u].initialized = sem[u].initialized
                             /\ sem'[u].generation = sem[u].generation
                             /\ sem'[u].incarnation = sem[u].incarnation
         /\ \A u \in Slots \ {at[t]} : sem'[u] = sem[u]
         /\ last'.asked = wanted[t] /\ last'.hit = sem[at[t]].incarnation
         /\ pc' = [pc EXCEPT ![t] = "run"]
         /\ \A u \in Threads \ {t} : at'[u] = at[u] /\ seen'[u] = seen[u] /\ wanted'[u] = wanted[u]
         /\ UNCHANGED <<highWater, tableLock, created, held>>
<1> DEFINE n == sem[at[t]].count
<1>1. at[t] \in Slots /\ sem[at[t]] \in SemaphoreRecord
  BY DEF RecheckTake, TypeOK
<1>2. n \in Nat
  BY <1>1 DEF SemaphoreRecord
<1>3. n > 0
  BY DEF RecheckTake
<1>4. n - 1 \in Nat
  BY <1>2, <1>3
<1>5. sem' = [sem EXCEPT ![at[t]].count = n - 1]
  BY DEF RecheckTake
<1>6. last'.asked = wanted[t] /\ last'.hit = sem[at[t]].incarnation
  BY DEF RecheckTake, Outcome
<1>7. QED
  BY <1>1, <1>2, <1>4, <1>5, <1>6, CountStep DEF RecheckTake, Leaves, TypeOK

-----------------------------------------------------------------------------
(* No stale sleeper, no lost wakeup *)

\* One create at a time, standing on a free slot.
LEMMA CreatesStayAlone ==
  ASSUME TypeOK, CreatesAlone, ScanFindsFree, NEW t \in Threads, Step(t)
  PROVE  CreatesAlone' /\ ScanFindsFree'
<1> USE DEF CreatesAlone, ScanFindsFree, Creating
<1>1. CASE CreateLock(t)
  BY <1>1, SemaphoreAssumption DEF CreateLock, TypeOK, table, local
<1>2. CASE ScanNext(t)
  BY <1>2, SemaphoreAssumption DEF ScanNext, TypeOK, table, local
<1>3. CASE ScanFree(t)
  BY <1>3 DEF ScanFree, TypeOK, table, local
<1>4. CASE ScanHighWater(t)
  <2>1. \A s \in Slots : s >= highWater' => ~ sem'[s].initialized
    BY <1>4, SemaphoreAssumption DEF ScanHighWater, TypeOK, Slots
  <2>2. ~ sem'[at'[t]].initialized
    BY <1>4, SemaphoreAssumption DEF ScanHighWater, TypeOK, Slots, local
  <2>3. QED
    BY <1>4, <2>1, <2>2 DEF ScanHighWater, TypeOK, local
<1>5. CASE ScanExhausted(t)
  BY <1>5 DEF ScanExhausted, Leaves, TypeOK
<1>6. CASE CreateCommit(t)
  <2>1. tableLock = {t} /\ at[t] \in Slots /\ ~ sem[at[t]].initialized /\ at[t] < highWater
    BY <1>6 DEF CreateCommit, TypeOK
  <2>2. /\ pc'[t] = "publish" /\ \A u \in Threads \ {t} : pc'[u] = pc[u]
        /\ \A u \in Slots \ {at[t]} : sem'[u] = sem[u]
        /\ UNCHANGED <<highWater, tableLock, at>>
    BY <1>6, CommitStep
  <2>3. CreatesAlone'
    BY <2>1, <2>2
  <2>4. \A u \in Threads \ {t} : pc'[u] \notin {"scan", "commit", "publish"}
    BY <2>1, <2>2
  <2>5. \A s \in Slots : s >= highWater => s # at[t]
    BY <2>1, SemaphoreAssumption DEF TypeOK, Slots
  <2>6. ScanFindsFree'
    BY <2>2, <2>4, <2>5
  <2>7. QED
    BY <2>3, <2>6
<1>7. CASE CreateReturn(t)
  BY <1>7 DEF CreateReturn, Leaves, TypeOK
<1>8. CASE Delete(t)
  <2>1. PICK h \in held :
          /\ \A u \in Slots \ {h.handle.slot} : sem'[u] = sem[u]
          /\ ~ sem'[h.handle.slot].initialized
          /\ \A u \in Threads :
               pc'[u] = IF u = t THEN "discount"
                        ELSE IF pc[u] = "sleep" /\ at[u] = h.handle.slot THEN "woken" ELSE pc[u]
          /\ UNCHANGED <<highWater, tableLock, at>>
    BY <1>8, DeleteStep
  <2>2. QED
    BY <2>1 DEF TypeOK
<1>9. CASE DeleteReturn(t)
  BY <1>9 DEF DeleteReturn, Leaves, TypeOK
<1>10. CASE Signal(t)
  <2>1. PICK h \in held :
          /\ \A u \in Slots : sem'[u].initialized = sem[u].initialized
          /\ WakeOne(h.handle.slot)
          /\ UNCHANGED <<highWater, tableLock, at>>
    BY <1>10, SignalStep
  <2>2. \A u \in Threads : pc'[u] = pc[u] \/ pc'[u] = "woken"
    BY <2>1 DEF WakeOne, TypeOK
  <2>3. QED
    BY <2>1, <2>2 DEF TypeOK
<1>11. CASE Reject(t) \/ WaitPoll(t)
  BY <1>11 DEF Reject, WaitPoll, Fails, table, local
<1>12. CASE WaitTake(t)
  <2>1. /\ \A u \in Slots : sem'[u].initialized = sem[u].initialized
        /\ UNCHANGED <<highWater, tableLock, pc, at>>
    BY <1>12, WaitTakeStep
  <2>2. QED
    BY <2>1 DEF TypeOK
<1>13. CASE WaitSleep(t)
  <2>1. pc' = [pc EXCEPT ![t] = "sleep"] /\ sem' = sem /\ UNCHANGED <<highWater, tableLock>>
    BY <1>13 DEF WaitSleep, table
  <2>2. QED
    BY <1>13, <2>1, QuietSteps DEF TypeOK
<1>14. CASE SpuriousWake(t) \/ RecheckSleep(t)
  BY <1>14 DEF SpuriousWake, RecheckSleep, TypeOK, table, local
<1>15. CASE RecheckTake(t)
  <2>1. QED
    BY <1>15, RecheckTakeStep DEF TypeOK
<1>16. CASE RecheckFail(t)
  BY <1>16 DEF RecheckFail, Leaves, TypeOK, table
<1>17. QED
  BY <1>1, <1>2, <1>3, <1>4, <1>5, <1>6, <1>7, <1>8, <1>9, <1>10, <1>11, <1>12, <1>13,
     <1>14, <1>15, <1>16 DEF Step, Create, CreateScan, Wait, Recheck

\* A sleeper's semaphore stays the one it fell asleep on.
LEMMA SleepersStayFresh ==
  ASSUME TypeOK, WaitInv, NEW t \in Threads, Step(t)
  PROVE  NoStaleSleeper'
<1> USE DEF NoStaleSleeper
<1>0. NoStaleSleeper /\ ScanFindsFree
  BY DEF WaitInv
<1>1. CASE \/ CreateLock(t) \/ ScanNext(t) \/ ScanFree(t) \/ ScanHighWater(t) \/ ScanExhausted(t)
           \/ CreateReturn(t) \/ DeleteReturn(t) \/ SpuriousWake(t) \/ RecheckFail(t)
  <2>1. pc'[t] # "sleep"
    BY <1>1 DEF CreateLock, ScanNext, ScanFree, ScanHighWater, ScanExhausted, CreateReturn,
                DeleteReturn, SpuriousWake, RecheckFail, Leaves, TypeOK
  <2>2. QED
    BY <1>0, <1>1, <2>1, QuietSteps
<1>2. CASE CreateCommit(t)
  <2>1. ~ sem[at[t]].initialized
    BY <1>0, <1>2 DEF CreateCommit, ScanFindsFree
  <2>2. \A u \in Threads : pc'[u] = "sleep" => at[u] \in Slots \ {at[t]} /\ u # t
    <3>1. pc'[t] # "sleep" /\ \A u \in Threads \ {t} : pc'[u] = pc[u]
      BY <1>2, CommitStep
    <3>2. \A u \in Threads : pc[u] = "sleep" => at[u] \in Slots
      BY DEF TypeOK
    <3>3. QED
      BY <1>0, <2>1, <3>1, <3>2
  <2>3. QED
    BY <1>0, <1>2, <2>2, CommitStep
<1>3. CASE Delete(t)
  <2>1. PICK h \in held :
          /\ \A u \in Slots \ {h.handle.slot} : sem'[u] = sem[u]
          /\ \A u \in Threads :
               pc'[u] = IF u = t THEN "discount"
                        ELSE IF pc[u] = "sleep" /\ at[u] = h.handle.slot THEN "woken" ELSE pc[u]
          /\ UNCHANGED <<at, seen>>
    BY <1>3, DeleteStep
  <2>2. \A u \in Threads : pc'[u] = "sleep" => pc[u] = "sleep" /\ at[u] \in Slots \ {h.handle.slot}
    BY <2>1 DEF TypeOK
  <2>3. QED
    BY <1>0, <2>1, <2>2
<1>4. CASE Signal(t)
  <2>1. PICK h \in held :
          /\ \A u \in Slots : /\ sem'[u].initialized = sem[u].initialized
                              /\ sem'[u].generation = sem[u].generation
          /\ WakeOne(h.handle.slot)
          /\ UNCHANGED <<at, seen>>
    BY <1>4, SignalStep
  <2>2. \A u \in Threads : pc'[u] = pc[u] \/ pc'[u] = "woken"
    BY <2>1 DEF WakeOne, TypeOK
  <2>3. QED
    BY <1>0, <2>1, <2>2 DEF TypeOK
<1>5. CASE WaitTake(t)
  <2>1. /\ \A u \in Slots : /\ sem'[u].initialized = sem[u].initialized
                            /\ sem'[u].generation = sem[u].generation
        /\ UNCHANGED <<pc, at, seen>>
    BY <1>5, WaitTakeStep
  <2>2. QED
    BY <1>0, <2>1 DEF TypeOK
<1>6. CASE Reject(t) \/ WaitPoll(t)
  BY <1>0, <1>6 DEF Reject, WaitPoll, Fails, table, local
<1>7. CASE WaitSleep(t)
  <2>1. sem[at'[t]].initialized /\ sem[at'[t]].generation = seen'[t]
    BY <1>7 DEF WaitSleep, Matches, TypeOK
  <2>2. QED
    BY <1>0, <1>7, <2>1, QuietSteps
<1>8. CASE RecheckSleep(t)
  <2>1. sem[at'[t]].initialized /\ sem[at'[t]].generation = seen'[t]
    BY <1>8 DEF RecheckSleep, StillWaiting, local
  <2>2. QED
    BY <1>0, <1>8, <2>1, QuietSteps
<1>9. CASE RecheckTake(t)
  <2>1. pc'[t] # "sleep"
    BY <1>9, RecheckTakeStep DEF TypeOK
  <2>2. \A u \in Threads \ {t} : pc'[u] = pc[u]
    BY <1>9, RecheckTakeStep DEF TypeOK
  <2>3. QED
    BY <1>0, <1>9, <2>1, <2>2, RecheckTakeStep DEF TypeOK
<1>10. QED
  BY <1>1, <1>2, <1>3, <1>4, <1>5, <1>6, <1>7, <1>8, <1>9
     DEF Step, Create, CreateScan, Wait, Recheck

\* The woken are finitely many.
LEMMA AwakeFinite ==
  ASSUME NEW s \in Slots
  PROVE  IsFiniteSet(Awake(s)) /\ Cardinality(Awake(s)) \in Nat
<1>1. Awake(s) \subseteq Threads /\ IsFiniteSet(Threads)
  BY SemaphoreAssumption DEF Awake
<1>2. QED
  BY <1>1, FS_Subset, FS_CardinalityType

\* A slot keeps NoLostWakeup when it gains no sleeper and no token and loses no
\* woken thread.
LEMMA WakeupFrame ==
  ASSUME TypeOK, TypeOK', NoLostWakeup, NEW s \in Slots,
         Sleepers(s)' \subseteq Sleepers(s),
         Awake(s) \subseteq Awake(s)',
         sem'[s].count <= sem[s].count
  PROVE  Sleepers(s)' # {} => sem'[s].count <= Cardinality(Awake(s)')
<1>1. IsFiniteSet(Awake(s)')
  <2>1. Awake(s)' \subseteq Threads
    BY DEF Awake
  <2>2. QED
    BY <2>1, SemaphoreAssumption, FS_Subset
<1>2. Cardinality(Awake(s)) <= Cardinality(Awake(s)') /\ Cardinality(Awake(s)') \in Nat
  BY <1>1, FS_Subset, FS_CardinalityType
<1>3. Cardinality(Awake(s)) \in Nat
  BY AwakeFinite
<1>4. sem[s].count \in Nat /\ sem'[s].count \in Nat
  BY DEF TypeOK, SemaphoreRecord
<1>5. Sleepers(s) # {} => sem[s].count <= Cardinality(Awake(s))
  BY DEF NoLostWakeup
<1>6. ASSUME Sleepers(s)' # {} PROVE sem'[s].count <= Cardinality(Awake(s)')
  <2>1. sem[s].count <= Cardinality(Awake(s))
    BY <1>5, <1>6
  <2>2. QED
    BY <1>2, <1>3, <1>4, <2>1
<1>7. QED
  BY <1>6

\* A step of a thread that was running and has not fallen asleep.
LEMMA WakeupRunning ==
  ASSUME TypeOK, TypeOK', NoLostWakeup, NEW t \in Threads, pc[t] # "woken",
         pc'[t] # "sleep", sem' = sem,
         \A u \in Threads \ {t} : pc'[u] = pc[u] /\ at'[u] = at[u] /\ seen'[u] = seen[u]
  PROVE  NoLostWakeup'
<1> SUFFICES ASSUME NEW s \in Slots
             PROVE  Sleepers(s)' # {} => sem'[s].count <= Cardinality(Awake(s)')
  BY DEF NoLostWakeup
<1>1. Sleepers(s)' \subseteq Sleepers(s)
  BY DEF Sleepers
<1>2. Awake(s) \subseteq Awake(s)'
  BY DEF Awake
<1>3. sem'[s].count <= sem[s].count
  BY DEF TypeOK, SemaphoreRecord
<1>4. QED
  BY <1>1, <1>2, <1>3, WakeupFrame

\* The signal that wakes a sleeper owes it the token it adds.
LEMMA SignalOwes ==
  ASSUME TypeOK, TypeOK', NoLostWakeup, NEW s \in Slots, NEW w \in Sleepers(s),
         seen[w] = sem[s].generation, sem'[s].generation = sem[s].generation,
         sem'[s].count <= sem[s].count + 1,
         pc' = [pc EXCEPT ![w] = "woken"], at' = at, seen' = seen
  PROVE  sem'[s].count <= Cardinality(Awake(s)')
<1>1. w \in Threads /\ pc[w] = "sleep" /\ at[w] = s
  BY DEF Sleepers
<1>2. Awake(s)' = Awake(s) \cup {w} /\ w \notin Awake(s)
  BY <1>1 DEF Awake, TypeOK
<1>3. Cardinality(Awake(s)') = Cardinality(Awake(s)) + 1
  BY <1>2, AwakeFinite, FS_AddElement
<1>4. sem[s].count <= Cardinality(Awake(s))
  BY DEF NoLostWakeup
<1>5. sem[s].count \in Nat /\ sem'[s].count \in Nat /\ Cardinality(Awake(s)) \in Nat
  BY AwakeFinite DEF TypeOK, SemaphoreRecord
<1>6. QED
  BY <1>3, <1>4, <1>5

\* A woken thread takes with the token its own place among the owed.
LEMMA TakePays ==
  ASSUME TypeOK, TypeOK', NoLostWakeup, NEW t \in Threads, RecheckTake(t),
         NEW s \in Slots, s = at[t], Sleepers(s)' # {}
  PROVE  sem'[s].count <= Cardinality(Awake(s)')
<1>1. /\ sem[s].count \in Nat
      /\ sem'[s].count = sem[s].count - 1
      /\ sem'[s].generation = sem[s].generation
      /\ pc'[t] = "run"
      /\ \A u \in Threads \ {t} : pc'[u] = pc[u] /\ at'[u] = at[u] /\ seen'[u] = seen[u]
  BY RecheckTakeStep DEF TypeOK
<1>2. pc[t] = "woken" /\ seen[t] = sem[s].generation
  BY DEF RecheckTake, StillWaiting
<1>3. {u \in Threads : pc'[u] = "woken" /\ at'[u] = s /\ seen'[u] = sem'[s].generation}
        = Awake(s) \ {t}
  BY <1>1, <1>2 DEF Awake
<1>4. t \in Awake(s)
  BY <1>2 DEF Awake
<1>5. Cardinality(Awake(s) \ {t}) = Cardinality(Awake(s)) - 1
  BY <1>1, <1>4, AwakeFinite, FS_RemoveElement
<1>6. Sleepers(s) # {}
  <2>1. PICK u \in Threads : pc'[u] = "sleep" /\ at'[u] = s
    BY DEF Sleepers
  <2>2. u # t
    BY <1>1, <2>1
  <2>3. QED
    BY <1>1, <2>1, <2>2 DEF Sleepers
<1>7. sem[s].count <= Cardinality(Awake(s)) /\ Cardinality(Awake(s)) \in Nat
  BY <1>1, <1>6, AwakeFinite DEF NoLostWakeup
<1>8. sem'[s].count <= Cardinality(Awake(s) \ {t})
  BY <1>1, <1>5, <1>7
<1>9. QED
  BY <1>3, <1>8 DEF Awake

\* No step leaves a token beside a sleeper.
LEMMA WakeupsKept ==
  ASSUME TypeOK, TypeOK', WaitInv, NEW t \in Threads, Step(t)
  PROVE  NoLostWakeup'
<1>0. NoLostWakeup /\ NoStaleSleeper /\ ScanFindsFree
  BY DEF WaitInv
<1>1. CASE \/ CreateLock(t) \/ ScanNext(t) \/ ScanFree(t) \/ ScanHighWater(t) \/ ScanExhausted(t)
           \/ CreateReturn(t) \/ DeleteReturn(t) \/ Reject(t) \/ WaitPoll(t) \/ SpuriousWake(t)
  <2>1. pc[t] # "woken" /\ pc'[t] # "sleep"
    BY <1>1 DEF CreateLock, ScanNext, ScanFree, ScanHighWater, ScanExhausted, CreateReturn,
                DeleteReturn, Reject, WaitPoll, Fails, SpuriousWake, Leaves, TypeOK
  <2>2. QED
    BY <1>0, <1>1, <2>1, QuietSteps, WakeupRunning
<1>2. CASE WaitSleep(t) \/ RecheckSleep(t)
  <2> SUFFICES ASSUME NEW s \in Slots, Sleepers(s)' # {}
               PROVE  sem'[s].count <= Cardinality(Awake(s)')
    BY DEF NoLostWakeup
  <2>1. CASE s = at'[t]
    <3>1. sem'[s].count <= 0
      BY <1>2, <2>1 DEF WaitSleep, RecheckSleep, TypeOK, table, local
    <3>2. sem'[s].count \in Nat /\ Cardinality(Awake(s)') \in Nat
      <4>1. Awake(s)' \subseteq Threads
        BY DEF Awake
      <4>2. QED
        BY <4>1, SemaphoreAssumption, FS_Subset, FS_CardinalityType DEF TypeOK, SemaphoreRecord
    <3>3. QED
      BY <3>1, <3>2
  <2>2. CASE s # at'[t]
    <3>1. sem' = sem /\ \A u \in Threads \ {t} : pc'[u] = pc[u] /\ at'[u] = at[u] /\ seen'[u] = seen[u]
      BY <1>2, QuietSteps
    <3>2. pc[t] = "woken" => at'[t] = at[t]
      BY <1>2 DEF WaitSleep, RecheckSleep, local
    <3>3. Sleepers(s)' \subseteq Sleepers(s) /\ Awake(s) \subseteq Awake(s)'
      BY <2>2, <3>1, <3>2 DEF Sleepers, Awake
    <3>4. sem'[s].count <= sem[s].count
      BY <3>1 DEF TypeOK, SemaphoreRecord
    <3>5. QED
      BY <1>0, <3>3, <3>4, WakeupFrame
  <2>3. QED
    BY <2>1, <2>2
<1>3. CASE RecheckFail(t)
  <2> SUFFICES ASSUME NEW s \in Slots, Sleepers(s)' # {}
               PROVE  sem'[s].count <= Cardinality(Awake(s)')
    BY DEF NoLostWakeup
  <2>1. sem' = sem /\ pc'[t] = "run"
        /\ \A u \in Threads \ {t} : pc'[u] = pc[u] /\ at'[u] = at[u] /\ seen'[u] = seen[u]
    BY <1>3, QuietSteps DEF RecheckFail, Leaves, TypeOK
  <2>2. Sleepers(s)' \subseteq Sleepers(s)
    BY <2>1 DEF Sleepers
  <2>3. sem[s].initialized
    BY <1>0, <2>2 DEF Sleepers, NoStaleSleeper
  <2>4. t \notin Awake(s)
    BY <1>3, <2>3 DEF RecheckFail, StillWaiting, Awake
  <2>5. Awake(s) \subseteq Awake(s)'
    BY <2>1, <2>4 DEF Awake
  <2>6. sem'[s].count <= sem[s].count
    BY <2>1 DEF TypeOK, SemaphoreRecord
  <2>7. QED
    BY <1>0, <2>2, <2>5, <2>6, WakeupFrame
<1>4. CASE CreateCommit(t)
  <2> SUFFICES ASSUME NEW s \in Slots, Sleepers(s)' # {}
               PROVE  sem'[s].count <= Cardinality(Awake(s)')
    BY DEF NoLostWakeup
  <2>1. /\ pc'[t] = "publish" /\ pc[t] = "commit" /\ at' = at
        /\ \A u \in Threads \ {t} : pc'[u] = pc[u] /\ seen'[u] = seen[u]
    BY <1>4, CommitStep DEF CreateCommit
  <2>2. Sleepers(s)' \subseteq Sleepers(s)
    BY <2>1 DEF Sleepers
  <2>3. s # at[t]
    BY <1>0, <2>1, <2>2 DEF Sleepers, NoStaleSleeper, ScanFindsFree
  <2>4. sem'[s] = sem[s]
    BY <1>4, <2>3, CommitStep
  <2>5. Awake(s) \subseteq Awake(s)'
    BY <2>1, <2>4 DEF Awake
  <2>6. sem'[s].count <= sem[s].count
    BY <2>4 DEF TypeOK, SemaphoreRecord
  <2>7. QED
    BY <1>0, <2>2, <2>5, <2>6, WakeupFrame
<1>5. CASE Delete(t)
  <2> SUFFICES ASSUME NEW s \in Slots, Sleepers(s)' # {}
               PROVE  sem'[s].count <= Cardinality(Awake(s)')
    BY DEF NoLostWakeup
  <2>1. PICK h \in held :
          /\ \A u \in Slots \ {h.handle.slot} : sem'[u] = sem[u]
          /\ \A u \in Threads :
               pc'[u] = IF u = t THEN "discount"
                        ELSE IF pc[u] = "sleep" /\ at[u] = h.handle.slot THEN "woken" ELSE pc[u]
          /\ UNCHANGED <<at, seen>>
    BY <1>5, DeleteStep
  <2>2. Sleepers(s)' \subseteq Sleepers(s) /\ s # h.handle.slot
    BY <2>1 DEF Sleepers
  <2>3. sem'[s] = sem[s]
    BY <2>1, <2>2
  <2>4. pc[t] = "run"
    BY <1>5 DEF Delete
  <2>5. Awake(s) \subseteq Awake(s)'
    BY <2>1, <2>3, <2>4 DEF Awake
  <2>6. sem'[s].count <= sem[s].count
    BY <2>3 DEF TypeOK, SemaphoreRecord
  <2>7. QED
    BY <1>0, <2>2, <2>5, <2>6, WakeupFrame
<1>6. CASE Signal(t)
  <2> SUFFICES ASSUME NEW s \in Slots, Sleepers(s)' # {}
               PROVE  sem'[s].count <= Cardinality(Awake(s)')
    BY DEF NoLostWakeup
  <2>1. PICK h \in held :
          /\ sem'[h.handle.slot].count <= sem[h.handle.slot].count + 1
          /\ \A u \in Slots : sem'[u].generation = sem[u].generation
          /\ \A u \in Slots \ {h.handle.slot} : sem'[u] = sem[u]
          /\ WakeOne(h.handle.slot)
          /\ UNCHANGED <<at, seen>>
    BY <1>6, SignalStep
  <2>2. CASE s = h.handle.slot
    <3>1. CASE Sleepers(s) = {} /\ pc' = pc
      BY <2>1, <3>1 DEF Sleepers
    <3>2. CASE \E w \in Sleepers(s) : pc' = [pc EXCEPT ![w] = "woken"]
      <4>1. PICK w \in Sleepers(s) : pc' = [pc EXCEPT ![w] = "woken"]
        BY <3>2
      <4>2. seen[w] = sem[s].generation
        BY <1>0 DEF Sleepers, NoStaleSleeper
      <4>3. QED
        BY <1>0, <2>1, <2>2, <4>1, <4>2, SignalOwes
    <3>3. QED
      BY <2>1, <2>2, <3>1, <3>2 DEF WakeOne
  <2>3. CASE s # h.handle.slot
    <3>1. sem'[s] = sem[s]
      BY <2>1, <2>3
    <3>2. \A u \in Threads : pc'[u] = pc[u] \/ (pc'[u] = "woken" /\ pc[u] = "sleep")
      BY <2>1 DEF WakeOne, Sleepers, TypeOK
    <3>3. Sleepers(s)' \subseteq Sleepers(s) /\ Awake(s) \subseteq Awake(s)'
      BY <2>1, <3>1, <3>2 DEF Sleepers, Awake
    <3>4. sem'[s].count <= sem[s].count
      BY <3>1 DEF TypeOK, SemaphoreRecord
    <3>5. QED
      BY <1>0, <3>3, <3>4, WakeupFrame
  <2>4. QED
    BY <2>2, <2>3
<1>7. CASE WaitTake(t)
  <2> SUFFICES ASSUME NEW s \in Slots
               PROVE  Sleepers(s)' # {} => sem'[s].count <= Cardinality(Awake(s)')
    BY DEF NoLostWakeup
  <2>1. PICK h \in held :
          /\ sem'[h.handle.slot].count <= sem[h.handle.slot].count
          /\ \A u \in Slots : sem'[u].generation = sem[u].generation
          /\ \A u \in Slots \ {h.handle.slot} : sem'[u] = sem[u]
          /\ UNCHANGED <<pc, at, seen>>
    BY <1>7, WaitTakeStep
  <2>2. Sleepers(s)' \subseteq Sleepers(s) /\ Awake(s) \subseteq Awake(s)'
    BY <2>1 DEF Sleepers, Awake
  <2>3. sem[s].count \in Nat
    BY DEF TypeOK, SemaphoreRecord
  <2>4. sem'[s].count <= sem[s].count
    BY <2>1, <2>3
  <2>5. QED
    BY <1>0, <2>2, <2>4, WakeupFrame
<1>8. CASE RecheckTake(t)
  <2> SUFFICES ASSUME NEW s \in Slots, Sleepers(s)' # {}
               PROVE  sem'[s].count <= Cardinality(Awake(s)')
    BY DEF NoLostWakeup
  <2>1. CASE s = at[t]
    BY <1>0, <1>8, <2>1, TakePays
  <2>2. CASE s # at[t]
    <3>1. /\ sem'[s] = sem[s] /\ pc'[t] = "run"
          /\ \A u \in Threads \ {t} : pc'[u] = pc[u] /\ at'[u] = at[u] /\ seen'[u] = seen[u]
      BY <1>8, <2>2, RecheckTakeStep DEF TypeOK
    <3>2. Sleepers(s)' \subseteq Sleepers(s) /\ Awake(s) \subseteq Awake(s)'
      BY <2>2, <3>1 DEF Sleepers, Awake
    <3>3. sem'[s].count <= sem[s].count
      BY <3>1 DEF TypeOK, SemaphoreRecord
    <3>4. QED
      BY <1>0, <3>2, <3>3, WakeupFrame
  <2>3. QED
    BY <2>1, <2>2
<1>9. QED
  BY <1>1, <1>2, <1>3, <1>4, <1>5, <1>6, <1>7, <1>8
     DEF Step, Create, CreateScan, Wait, Recheck

\* The inductive invariant behind the waits: creates are alone, the slot they
\* stand on is free, no sleeper is stale and no wakeup lost.
THEOREM WaitInvariant == Spec => []WaitInv
<1>1. Init => WaitInv
  BY SemaphoreAssumption DEF Init, WaitInv, CreatesAlone, ScanFindsFree, Creating,
     NoStaleSleeper, NoLostWakeup, Sleepers, Empty, Slots
<1>2. TypeOK /\ TypeOK' /\ WaitInv /\ [Next]_vars => WaitInv'
  <2> SUFFICES ASSUME TypeOK, TypeOK', WaitInv, [Next]_vars PROVE WaitInv'
    OBVIOUS
  <2>1. ASSUME NEW t \in Threads, Step(t) PROVE WaitInv'
    <3>1. CreatesAlone' /\ ScanFindsFree'
      BY <2>1, CreatesStayAlone DEF WaitInv
    <3>2. NoStaleSleeper' /\ NoLostWakeup'
      BY <2>1, SleepersStayFresh, WakeupsKept
    <3>3. QED
      BY <3>1, <3>2 DEF WaitInv
  <2>2. CASE UNCHANGED vars
    BY <2>2 DEF vars, table, local, WaitInv, CreatesAlone, ScanFindsFree, NoStaleSleeper,
       NoLostWakeup, Sleepers, Awake
  <2>3. QED
    BY <2>1, <2>2 DEF Next
<1>3. QED
  BY <1>1, <1>2, TypeCorrect, PTL DEF Spec

\* No thread stays asleep on a semaphore that is gone.
THEOREM NoStaleSleepers == Spec => []NoStaleSleeper
<1>1. WaitInv => NoStaleSleeper
  BY DEF WaitInv
<1>2. QED
  BY <1>1, WaitInvariant, PTL

\* No token lies beside a sleeper, however creates, deletes, signals, waits and
\* spurious wakeups interleave.
THEOREM NoLostWakeups == Spec => []NoLostWakeup
<1>1. WaitInv => NoLostWakeup
  BY DEF WaitInv
<1>2. QED
  BY <1>1, WaitInvariant, PTL

-----------------------------------------------------------------------------
(* Stale handles, while no generation wraps *)

\* Below the modulus a generation is its own residue.
LEMMA SmallResidue ==
  ASSUME NEW g \in Nat, NEW m \in Nat, g < m
  PROVE  g % m = g
OBVIOUS

\* A handle that matches a slot was made for the semaphore now in it.
LEMMA MatchIsExact ==
  ASSUME TypeOK, HandleInv, NoWrap, NEW h \in held, Matches(h.handle)
  PROVE  /\ sem[h.handle.slot].initialized
         /\ sem[h.handle.slot].generation = h.handle.generation
         /\ sem[h.handle.slot].incarnation = h.incarnation
<1> DEFINE r == sem[h.handle.slot]
<1>1. /\ h.handle.slot \in Slots /\ r.generation \in Nat
      /\ h.handle.generation \in Nat
  BY HeldTyped
<1>2. r.initialized /\ r.generation % GenerationModulus = h.handle.generation
  BY DEF Matches
<1>3. created \in Nat /\ created <= MaxCreates /\ r.generation <= 2 * created - 1
  BY <1>1, <1>2 DEF HandleInv, GenerationsBounded, TypeOK
<1>4. r.generation < GenerationModulus
  BY <1>1, <1>3, SemaphoreAssumption DEF NoWrap
<1>5. r.generation % GenerationModulus = r.generation
  BY <1>1, <1>4, SmallResidue, SemaphoreAssumption
<1>6. Knows(h.handle.slot, h.handle.generation, h.incarnation)
  BY DEF HandleInv, HandlesKnow
<1>7. QED
  BY <1>2, <1>5, <1>6 DEF Knows

\* The generation a create gives is the next one: the skip is not needed.
LEMMA NextIsSuccessor ==
  ASSUME NoWrap, NEW g \in Nat, NEW c \in Nat, g <= 2 * c, c < MaxCreates
  PROVE  NextGeneration(g) = g + 1
<1>1. g + 1 \in Nat /\ g + 1 < GenerationModulus /\ g + 1 # 0
  BY SemaphoreAssumption DEF NoWrap
<1>2. (g + 1) % GenerationModulus = g + 1
  BY <1>1, SmallResidue, SemaphoreAssumption
<1>3. QED
  BY <1>1, <1>2 DEF NextGeneration

Advances(s) ==
  \/ /\ sem'[s].initialized = sem[s].initialized
     /\ sem'[s].generation = sem[s].generation
     /\ sem'[s].incarnation = sem[s].incarnation
  \/ sem'[s].generation = sem[s].generation + 1

\* A slot keeps its semaphore or moves to the next generation.
LEMMA SlotsAdvance ==
  ASSUME TypeOK, WaitInv, HandleInv, NoWrap, NEW t \in Threads, Step(t), NEW s \in Slots
  PROVE  Advances(s)
<1>1. CASE CreateCommit(t)
  <2>1. /\ at[t] \in Slots /\ ~ sem[at[t]].initialized /\ created < MaxCreates
        /\ sem[at[t]].generation \in Nat /\ created \in Nat
    BY <1>1 DEF CreateCommit, WaitInv, ScanFindsFree, HandleInv, GenerationsBounded, TypeOK,
                SemaphoreRecord
  <2>2. sem[at[t]].generation <= 2 * created
    BY <2>1 DEF HandleInv, GenerationsBounded
  <2>3. NextGeneration(sem[at[t]].generation) = sem[at[t]].generation + 1
    BY <2>1, <2>2, NextIsSuccessor
  <2>4. QED
    BY <1>1, <2>3, CommitStep DEF Advances
<1>2. CASE Delete(t)
  BY <1>2, DeleteStep DEF Advances
<1>3. CASE Signal(t)
  BY <1>3, SignalStep DEF Advances
<1>4. CASE WaitTake(t)
  BY <1>4, WaitTakeStep DEF Advances
<1>5. CASE RecheckTake(t)
  BY <1>5, RecheckTakeStep DEF Advances
<1>6. CASE sem' = sem
  BY <1>6 DEF Advances
<1>7. QED
  BY <1>1, <1>2, <1>3, <1>4, <1>5, <1>6, QuietSteps
     DEF Step, Create, CreateScan, Wait, Recheck

\* What a handle or a call knows of a slot stays true of it.
LEMMA KnowsStays ==
  ASSUME TypeOK, NEW s \in Slots, NEW g \in Nat, NEW i, Knows(s, g, i), Advances(s)
  PROVE  Knows(s, g, i)'
<1>1. sem[s].generation \in Nat
  BY DEF TypeOK, SemaphoreRecord
<1>2. QED
  BY <1>1 DEF Knows, Advances

\* A slot's generation counts its creations and deletions.
LEMMA GenerationsStayBounded ==
  ASSUME TypeOK, WaitInv, HandleInv, NoWrap, NEW t \in Threads, Step(t)
  PROVE  GenerationsBounded'
<1> USE DEF GenerationsBounded
<1>0. GenerationsBounded /\ created \in Nat /\ MaxCreates \in Nat
      /\ \A s \in Slots : sem[s].generation \in Nat
  BY SemaphoreAssumption DEF HandleInv, TypeOK, SemaphoreRecord
<1>1. CASE CreateLock(t)
  BY <1>0, <1>1 DEF CreateLock, TypeOK
<1>2. CASE CreateCommit(t)
  <2>1. /\ at[t] \in Slots /\ ~ sem[at[t]].initialized /\ created < MaxCreates
        /\ tableLock = {t}
    BY <1>0, <1>2 DEF CreateCommit, WaitInv, CreatesAlone, Creating, ScanFindsFree, TypeOK
  <2>2. NextGeneration(sem[at[t]].generation) = sem[at[t]].generation + 1
    BY <1>0, <2>1, NextIsSuccessor
  <2>3. /\ created' = created + 1
        /\ sem'[at[t]].initialized /\ sem'[at[t]].generation = sem[at[t]].generation + 1
        /\ \A s \in Slots \ {at[t]} : sem'[s] = sem[s]
    BY <1>2, <2>2, CommitStep
  <2>4. \A u \in Threads : pc'[u] \notin {"scan", "commit"}
    <3>1. \A u \in Threads \ {t} : pc[u] \notin Creating
      BY <2>1 DEF WaitInv, CreatesAlone
    <3>2. QED
      BY <1>2, <3>1, CommitStep DEF Creating
  <2>5. \A s \in Slots :
          sem'[s].generation <= IF sem'[s].initialized THEN 2 * created' - 1 ELSE 2 * created'
    BY <1>0, <2>1, <2>3
  <2>6. QED
    BY <1>0, <2>1, <2>3, <2>4, <2>5
<1>3. CASE Delete(t)
  <2>1. PICK h \in held :
          /\ Matches(h.handle)
          /\ \A u \in Slots \ {h.handle.slot} : sem'[u] = sem[u]
          /\ ~ sem'[h.handle.slot].initialized
          /\ sem'[h.handle.slot].generation = sem[h.handle.slot].generation + 1
          /\ \A u \in Threads :
               pc'[u] = IF u = t THEN "discount"
                        ELSE IF pc[u] = "sleep" /\ at[u] = h.handle.slot THEN "woken" ELSE pc[u]
          /\ created' = created
    BY <1>3, DeleteStep
  <2>2. sem[h.handle.slot].initialized /\ h.handle.slot \in Slots
    BY <2>1, HeldTyped DEF Matches
  <2>3. \A s \in Slots :
          sem'[s].generation <= IF sem'[s].initialized THEN 2 * created' - 1 ELSE 2 * created'
    BY <1>0, <2>1, <2>2
  <2>4. \A u \in Threads : pc'[u] \in {"scan", "commit"} => pc[u] = pc'[u]
    BY <2>1
  <2>5. QED
    BY <1>0, <2>1, <2>3, <2>4
<1>4. ASSUME \A u \in Slots : /\ sem'[u].initialized = sem[u].initialized
                              /\ sem'[u].generation = sem[u].generation,
             created' = created,
             \A u \in Threads : pc'[u] \in {"scan", "commit"} => pc[u] \in {"scan", "commit"}
      PROVE GenerationsBounded'
  BY <1>0, <1>4
<1>5. CASE Signal(t)
  <2>1. \A u \in Threads : pc'[u] = pc[u] \/ pc'[u] = "woken"
    BY <1>5, SignalStep DEF WakeOne, TypeOK
  <2>2. QED
    BY <1>4, <1>5, <2>1, SignalStep
<1>6. CASE WaitTake(t)
  BY <1>4, <1>6, WaitTakeStep
<1>7. CASE RecheckTake(t)
  <2>1. \A u \in Threads : pc'[u] = pc[u] \/ pc'[u] = "run"
    BY <1>7, RecheckTakeStep DEF TypeOK
  <2>2. QED
    BY <1>4, <1>7, <2>1, RecheckTakeStep
<1>8. CASE \/ ScanNext(t) \/ ScanFree(t) \/ ScanHighWater(t) \/ ScanExhausted(t)
           \/ CreateReturn(t) \/ DeleteReturn(t) \/ Reject(t) \/ WaitPoll(t) \/ WaitSleep(t)
           \/ SpuriousWake(t) \/ RecheckSleep(t) \/ RecheckFail(t)
  <2>1. sem' = sem /\ \A u \in Threads \ {t} : pc'[u] = pc[u]
    BY <1>8, QuietSteps
  <2>2. created' = created /\ (pc'[t] \in {"scan", "commit"} => pc[t] \in {"scan", "commit"})
    BY <1>8 DEF ScanNext, ScanFree, ScanHighWater, ScanExhausted, CreateReturn, DeleteReturn,
                Reject, WaitPoll, Fails, WaitSleep, SpuriousWake, RecheckSleep, RecheckFail,
                Leaves, TypeOK, table, local
  <2>3. QED
    BY <1>4, <2>1, <2>2
<1>9. QED
  BY <1>1, <1>2, <1>3, <1>5, <1>6, <1>7, <1>8 DEF Step, Create, CreateScan, Wait, Recheck

\* A returning create and a wait keep knowing their slot; a new one knows it.
LEMMA CallsStayKnowing ==
  ASSUME TypeOK, WaitInv, HandleInv, NoWrap, NEW t \in Threads, Step(t)
  PROVE  CallsKnow'
<1>1. ASSUME NEW u \in Threads, pc[u] \in InCall,
             at'[u] = at[u], seen'[u] = seen[u], wanted'[u] = wanted[u]
      PROVE  Knows(at[u], seen[u], wanted[u])'
  <2>1. Knows(at[u], seen[u], wanted[u]) /\ at[u] \in Slots /\ seen[u] \in Nat
    BY <1>1 DEF HandleInv, CallsKnow, InCall, TypeOK
  <2>2. Advances(at[u])
    BY <2>1, SlotsAdvance
  <2>3. sem[at[u]].generation \in Nat
    BY <2>1 DEF TypeOK, SemaphoreRecord
  <2>4. QED
    BY <1>1, <2>1, <2>2, <2>3 DEF Knows, Advances
<1>2. CASE CreateCommit(t)
  <2>1. pc[t] = "commit" /\ at' = at /\ at[t] \in Slots
        /\ \A u \in Threads \ {t} : pc'[u] = pc[u] /\ seen'[u] = seen[u] /\ wanted'[u] = wanted[u]
    BY <1>2, CommitStep DEF CreateCommit
  <2>2. /\ seen'[t] = sem'[at[t]].generation /\ wanted'[t] = sem'[at[t]].incarnation
        /\ seen'[t] \in Nat
    <3>1. sem[at[t]].generation \in Nat
      BY <2>1 DEF TypeOK, SemaphoreRecord
    <3>2. QED
      BY <1>2, <3>1, CommitStep, NextGenerationTyped
  <2>3. Knows(at[t], seen[t], wanted[t])'
    BY <2>1, <2>2 DEF Knows
  <2>4. QED
    BY <1>1, <2>1, <2>3 DEF CallsKnow
<1>3. CASE WaitSleep(t)
  <2>1. PICK h \in held :
          /\ Matches(h.handle)
          /\ at' = [at EXCEPT ![t] = h.handle.slot]
          /\ seen' = [seen EXCEPT ![t] = sem[h.handle.slot].generation]
          /\ wanted' = [wanted EXCEPT ![t] = h.incarnation]
          /\ sem' = sem
    BY <1>3 DEF WaitSleep, table
  <2>2. sem[h.handle.slot].incarnation = h.incarnation /\ sem[h.handle.slot].generation \in Nat
    BY <2>1, MatchIsExact, HeldTyped
  <2>3. Knows(at[t], seen[t], wanted[t])'
    BY <2>1, <2>2 DEF Knows, TypeOK
  <2>4. \A u \in Threads \ {t} : pc'[u] = pc[u] /\ at'[u] = at[u] /\ seen'[u] = seen[u]
                                  /\ wanted'[u] = wanted[u]
    BY <1>3, QuietSteps
  <2>5. QED
    BY <1>1, <2>3, <2>4 DEF CallsKnow
<1>4. ASSUME \A u \in Threads : pc'[u] \in InCall =>
               pc[u] \in InCall /\ at'[u] = at[u] /\ seen'[u] = seen[u] /\ wanted'[u] = wanted[u]
      PROVE  CallsKnow'
  BY <1>1, <1>4 DEF CallsKnow
<1>5. CASE Delete(t)
  BY <1>4, <1>5, DeleteStep DEF InCall
<1>6. CASE Signal(t)
  <2>1. /\ \A u \in Threads : pc'[u] = pc[u] \/ (pc'[u] = "woken" /\ pc[u] = "sleep")
        /\ UNCHANGED <<at, seen, wanted>>
    BY <1>6, SignalStep DEF WakeOne, Sleepers, TypeOK
  <2>2. QED
    BY <1>4, <2>1 DEF InCall
<1>7. CASE WaitTake(t)
  BY <1>4, <1>7, WaitTakeStep
<1>8. CASE RecheckTake(t)
  <2>1. pc'[t] = "run" /\ \A u \in Threads \ {t} : pc'[u] = pc[u]
    BY <1>8, RecheckTakeStep DEF TypeOK
  <2>2. QED
    BY <1>4, <1>8, <2>1, RecheckTakeStep DEF InCall
<1>9. CASE CreateLock(t) \/ ScanNext(t) \/ ScanFree(t) \/ ScanHighWater(t)
           \/ ScanExhausted(t) \/ CreateReturn(t) \/ DeleteReturn(t) \/ RecheckFail(t)
  <2>1. pc'[t] \notin InCall
    BY <1>9 DEF CreateLock, ScanNext, ScanFree, ScanHighWater, ScanExhausted, CreateReturn,
                DeleteReturn, RecheckFail, Leaves, TypeOK, InCall
  <2>2. QED
    BY <1>4, <1>9, <2>1, QuietSteps
<1>10. CASE Reject(t) \/ WaitPoll(t)
  BY <1>4, <1>10 DEF Reject, WaitPoll, Fails, local
<1>11. CASE SpuriousWake(t) \/ RecheckSleep(t)
  <2>1. /\ pc[t] \in InCall /\ UNCHANGED <<at, seen, wanted>>
        /\ \A u \in Threads \ {t} : pc'[u] = pc[u]
    BY <1>11, QuietSteps DEF SpuriousWake, RecheckSleep, local, InCall
  <2>2. QED
    BY <1>4, <2>1
<1>12. QED
  BY <1>2, <1>3, <1>5, <1>6, <1>7, <1>8, <1>9, <1>10, <1>11
     DEF Step, Create, CreateScan, Wait, Recheck

\* A handle knows its slot for as long as the guest keeps it.
LEMMA HandlesStayKnowing ==
  ASSUME TypeOK, WaitInv, HandleInv, NoWrap, NEW t \in Threads, Step(t)
  PROVE  HandlesKnow'
<1>1. ASSUME NEW h \in held
      PROVE  Knows(h.handle.slot, h.handle.generation, h.incarnation)'
  <2>1. /\ h.handle.slot \in Slots /\ h.handle.generation \in Nat
        /\ Knows(h.handle.slot, h.handle.generation, h.incarnation)
    BY HeldTyped DEF HandleInv, HandlesKnow
  <2>2. QED
    BY <2>1, SlotsAdvance, KnowsStays
<1>2. CASE CreateReturn(t)
  <2>0. PICK h : h = [handle |-> Handle(at[t], seen[t]), incarnation |-> wanted[t]]
    OBVIOUS
  <2>1. held' = held \cup {h} /\ sem' = sem /\ pc[t] = "publish"
    BY <1>2, <2>0 DEF CreateReturn
  <2>2. at[t] \in Slots /\ seen[t] \in Nat /\ Knows(at[t], seen[t], wanted[t])
    BY <2>1 DEF HandleInv, CallsKnow, InCall, TypeOK
  <2>3. seen[t] < GenerationModulus
    <3>1. /\ sem[at[t]].generation \in Nat /\ created \in Nat /\ created <= MaxCreates
          /\ sem[at[t]].generation <= 2 * created
      BY <2>2 DEF HandleInv, GenerationsBounded, TypeOK, SemaphoreRecord
    <3>2. QED
      BY <2>2, <3>1, SemaphoreAssumption DEF Knows, NoWrap
  <2>4. seen[t] % GenerationModulus = seen[t]
    BY <2>2, <2>3, SmallResidue, SemaphoreAssumption
  <2>5. h.handle.slot = at[t] /\ h.handle.generation = seen[t] /\ h.incarnation = wanted[t]
    BY <2>0, <2>4 DEF Handle
  <2>6. Knows(h.handle.slot, h.handle.generation, h.incarnation)'
    BY <2>1, <2>2, <2>5 DEF Knows
  <2>7. QED
    BY <1>1, <2>1, <2>6 DEF HandlesKnow
<1>3. CASE held' = held
  BY <1>1, <1>3 DEF HandlesKnow
<1>4. CASE CreateCommit(t)
  BY <1>3, <1>4, CommitStep
<1>5. CASE Delete(t)
  BY <1>3, <1>5, DeleteStep
<1>6. CASE Signal(t)
  BY <1>3, <1>6, SignalStep
<1>7. CASE WaitTake(t) \/ RecheckTake(t)
  BY <1>3, <1>7, WaitTakeStep, RecheckTakeStep
<1>8. CASE \/ CreateLock(t) \/ ScanNext(t) \/ ScanFree(t) \/ ScanHighWater(t) \/ ScanExhausted(t)
           \/ DeleteReturn(t) \/ Reject(t) \/ WaitPoll(t) \/ WaitSleep(t)
           \/ SpuriousWake(t) \/ RecheckSleep(t) \/ RecheckFail(t)
  <2>1. held' = held
    BY <1>8 DEF CreateLock, ScanNext, ScanFree, ScanHighWater, ScanExhausted, DeleteReturn,
                Reject, WaitPoll, Fails, WaitSleep, SpuriousWake, RecheckSleep, RecheckFail
  <2>2. QED
    BY <1>3, <2>1
<1>9. QED
  BY <1>2, <1>4, <1>5, <1>6, <1>7, <1>8 DEF Step, Create, CreateScan, Wait, Recheck

\* An operation that succeeds acts on the semaphore its handle was made for.
LEMMA SuccessIsExact ==
  ASSUME TypeOK, WaitInv, HandleInv, NoWrap, NEW t \in Threads, Step(t)
  PROVE  StaleHandleRejected'
<1> USE DEF StaleHandleRejected
<1>1. CASE Delete(t)
  BY <1>1, DeleteStep, MatchIsExact
<1>2. CASE Signal(t)
  BY <1>2, SignalStep, MatchIsExact
<1>3. CASE WaitTake(t)
  BY <1>3, WaitTakeStep, MatchIsExact
<1>4. CASE RecheckTake(t)
  <2>1. pc[t] = "woken" /\ StillWaiting(t)
    BY <1>4 DEF RecheckTake
  <2>2. Knows(at[t], seen[t], wanted[t])
    BY <2>1 DEF HandleInv, CallsKnow, InCall
  <2>3. sem[at[t]].incarnation = wanted[t]
    BY <2>1, <2>2 DEF Knows, StillWaiting
  <2>4. QED
    BY <1>4, <2>3, RecheckTakeStep
<1>5. CASE CreateReturn(t) \/ ScanExhausted(t) \/ Reject(t) \/ WaitPoll(t) \/ RecheckFail(t)
  BY <1>5 DEF CreateReturn, ScanExhausted, Reject, WaitPoll, Fails, RecheckFail, Outcome
<1>6. CASE \/ CreateLock(t) \/ ScanNext(t) \/ ScanFree(t) \/ ScanHighWater(t) \/ CreateCommit(t)
           \/ DeleteReturn(t) \/ WaitSleep(t) \/ SpuriousWake(t) \/ RecheckSleep(t)
  BY <1>6 DEF HandleInv, CreateLock, ScanNext, ScanFree, ScanHighWater, CreateCommit,
              DeleteReturn, WaitSleep, SpuriousWake, RecheckSleep
<1>7. QED
  BY <1>1, <1>2, <1>3, <1>4, <1>5, <1>6 DEF Step, Create, CreateScan, Wait, Recheck

\* The strengthening of StaleHandleRejected is an invariant while no generation
\* wraps.
THEOREM HandleInvariant == NoWrap => (Spec => []HandleInv)
<1> SUFFICES ASSUME NoWrap PROVE Spec => []HandleInv
  OBVIOUS
<1>1. Init => HandleInv
  BY SemaphoreAssumption DEF Init, HandleInv, GenerationsBounded, HandlesKnow, CallsKnow, InCall,
     StaleHandleRejected, NoOutcome, Empty, Slots
<1>2. TypeOK /\ WaitInv /\ HandleInv /\ [Next]_vars => HandleInv'
  <2> SUFFICES ASSUME TypeOK, WaitInv, HandleInv, [Next]_vars PROVE HandleInv'
    OBVIOUS
  <2>1. ASSUME NEW t \in Threads, Step(t) PROVE HandleInv'
    <3>1. GenerationsBounded'
      BY <2>1, GenerationsStayBounded
    <3>2. HandlesKnow' /\ CallsKnow'
      BY <2>1, HandlesStayKnowing, CallsStayKnowing
    <3>3. StaleHandleRejected'
      BY <2>1, SuccessIsExact
    <3>4. QED
      BY <3>1, <3>2, <3>3 DEF HandleInv
  <2>2. CASE UNCHANGED vars
    BY <2>2 DEF vars, table, local, HandleInv, GenerationsBounded, HandlesKnow, CallsKnow, Knows,
       StaleHandleRejected
  <2>3. QED
    BY <2>1, <2>2 DEF Next
<1>3. QED
  BY <1>1, <1>2, TypeCorrect, WaitInvariant, PTL DEF Spec

\* While a slot is created fewer than 2^15 times, no delete, signal or wait ever
\* succeeds on a semaphore other than the one its handle was made for.
THEOREM StaleHandlesRejected == NoWrap => (Spec => []StaleHandleRejected)
<1>1. HandleInv => StaleHandleRejected
  BY DEF HandleInv
<1>2. QED
  BY <1>1, HandleInvariant, PTL

-----------------------------------------------------------------------------
(* What a step does to a slot *)

Fills(t, s) ==
  /\ CreateCommit(t) /\ s = at[t]
  /\ ~ sem[s].initialized /\ sem'[s].initialized
  /\ sem'[s].generation = NextGeneration(sem[s].generation)
  /\ sem'[s].incarnation = created + 1

Frees(t, s) ==
  /\ Delete(t)
  /\ sem[s].initialized /\ ~ sem'[s].initialized
  /\ sem'[s].generation = sem[s].generation + 1

Keeps(s) ==
  /\ sem'[s].initialized = sem[s].initialized
  /\ sem'[s].generation = sem[s].generation
  /\ sem'[s].incarnation = sem[s].incarnation

\* A step fills a slot, frees one, or leaves which semaphore is in it alone.
LEMMA SlotMoves ==
  ASSUME TypeOK, ScanFindsFree, NEW t \in Threads, Step(t), NEW s \in Slots
  PROVE  Keeps(s) \/ Fills(t, s) \/ Frees(t, s)
<1>1. CASE CreateCommit(t)
  <2>1. ~ sem[at[t]].initialized
    BY <1>1 DEF CreateCommit, ScanFindsFree
  <2>2. QED
    BY <1>1, <2>1, CommitStep DEF Keeps, Fills
<1>2. CASE Delete(t)
  BY <1>2, DeleteStep DEF Keeps, Frees, Matches
<1>3. CASE Signal(t)
  BY <1>3, SignalStep DEF Keeps
<1>4. CASE WaitTake(t)
  BY <1>4, WaitTakeStep DEF Keeps
<1>5. CASE RecheckTake(t)
  BY <1>5, RecheckTakeStep DEF Keeps
<1>6. CASE sem' = sem
  BY <1>6 DEF Keeps
<1>7. QED
  BY <1>1, <1>2, <1>3, <1>4, <1>5, <1>6, QuietSteps
     DEF Step, Create, CreateScan, Wait, Recheck

-----------------------------------------------------------------------------
(* Generations *)

\* After an even generation no residue is skipped: the modulus is even.
LEMMA NextIsOdd ==
  ASSUME NEW g \in Nat, g % 2 = 0
  PROVE  NextGeneration(g) = g + 1 /\ (g + 1) % 2 = 1
<1> DEFINE n == g + 1
           k == GenerationModulus \div 2
           q == n \div GenerationModulus
<1>1. k \in Nat /\ GenerationModulus = 2 * k /\ GenerationModulus \in Nat \ {0}
  BY SemaphoreAssumption
<1>2. n % 2 = 1
  OBVIOUS
<1>3. ASSUME n % GenerationModulus = 0 PROVE FALSE
  <2>1. q \in Nat /\ n = GenerationModulus * q
    BY <1>1, <1>3
  <2>2. n = 2 * (k * q) /\ k * q \in Nat
    <3>1. \A a, b \in Nat : (2 * a) * b = 2 * (a * b) /\ a * b \in Nat
      OBVIOUS
    <3> HIDE DEF k, q, n
    <3>2. n = (2 * k) * q
      BY <1>1, <2>1
    <3>3. QED
      BY <1>1, <2>1, <3>1, <3>2
  <2>3. n % 2 = 0
    <3> DEFINE p == k * q
    <3>1. n = 2 * p /\ p \in Nat
      BY <2>2
    <3> HIDE DEF p, n
    <3>2. QED
      BY <3>1
  <2>4. QED
    BY <1>2, <2>3
<1>4. QED
  BY <1>2, <1>3 DEF NextGeneration

\* A slot's generation is odd exactly while it is in use, for any number of
\* creations and whatever wraps: a handle takes half of its values.
THEOREM GenerationsTellUse == Spec => []LiveGenerationsOdd
<1>1. Init => LiveGenerationsOdd
  BY DEF Init, LiveGenerationsOdd, Empty, Slots
<1>2. TypeOK /\ WaitInv /\ LiveGenerationsOdd /\ [Next]_vars => LiveGenerationsOdd'
  <2> SUFFICES ASSUME TypeOK, WaitInv, LiveGenerationsOdd, [Next]_vars,
                      NEW s \in Slots
               PROVE  sem'[s].initialized <=> sem'[s].generation % 2 = 1
    BY DEF LiveGenerationsOdd
  <2>1. /\ sem[s].generation \in Nat /\ sem[s].initialized \in BOOLEAN
        /\ sem[s].initialized <=> sem[s].generation % 2 = 1
    BY DEF TypeOK, SemaphoreRecord, LiveGenerationsOdd
  <2>2. ASSUME NEW t \in Threads, Fills(t, s)
        PROVE  sem'[s].initialized <=> sem'[s].generation % 2 = 1
    <3>1. sem[s].generation % 2 = 0
      BY <2>1, <2>2 DEF Fills
    <3>2. QED
      BY <2>1, <2>2, <3>1, NextIsOdd DEF Fills
  <2>3. ASSUME NEW t \in Threads, Frees(t, s)
        PROVE  sem'[s].initialized <=> sem'[s].generation % 2 = 1
    <3>1. sem[s].generation % 2 = 1
      BY <2>1, <2>3 DEF Frees
    <3>2. (sem[s].generation + 1) % 2 = 0
      BY <2>1, <3>1
    <3>3. QED
      BY <2>3, <3>2 DEF Frees
  <2>4. CASE Keeps(s)
    BY <2>1, <2>4 DEF Keeps
  <2>5. CASE UNCHANGED vars
    BY <2>1, <2>5 DEF vars, table
  <2>6. QED
    BY <2>2, <2>3, <2>4, <2>5, SlotMoves DEF Next, WaitInv
<1>3. QED
  BY <1>1, <1>2, TypeCorrect, WaitInvariant, PTL DEF Spec

-----------------------------------------------------------------------------
(* The live count *)

Publishing == {t \in Threads : pc[t] = "publish"}
Discounting == {t \in Threads : pc[t] = "discount"}

CountBalances ==
  liveCount + Cardinality(Publishing) = Cardinality(InUse) + Cardinality(Discounting)

\* The sets that are counted are finite.
LEMMA CountedFinite ==
  /\ IsFiniteSet(Publishing) /\ Cardinality(Publishing) \in Nat
  /\ IsFiniteSet(Discounting) /\ Cardinality(Discounting) \in Nat
  /\ IsFiniteSet(InUse) /\ Cardinality(InUse) \in Nat
<1>1. IsFiniteSet(Threads) /\ IsFiniteSet(Slots)
  BY SemaphoreAssumption, FS_Interval DEF Slots
<1>2. Publishing \subseteq Threads /\ Discounting \subseteq Threads /\ InUse \subseteq Slots
  BY DEF Publishing, Discounting, InUse
<1>3. QED
  BY <1>1, <1>2, FS_Subset, FS_CardinalityType

\* One more member, or one less, in a finite set.
LEMMA OneMore ==
  ASSUME NEW S, IsFiniteSet(S), NEW x, x \notin S
  PROVE  Cardinality(S \cup {x}) = Cardinality(S) + 1
BY FS_AddElement

LEMMA OneLess ==
  ASSUME NEW S, IsFiniteSet(S), NEW x, x \in S
  PROVE  Cardinality(S \ {x}) = Cardinality(S) - 1
BY FS_RemoveElement

\* A create counts between its commit and its return, a delete between the
\* slot's mutex and the counter.
LEMMA BalanceKept ==
  ASSUME TypeOK, WaitInv, CountBalances, NEW t \in Threads, Step(t)
  PROVE  CountBalances'
<1> USE DEF CountBalances
<1>0. liveCount \in Int /\ ScanFindsFree
  BY DEF TypeOK, WaitInv
<1>1. CASE CreateCommit(t)
  <2>1. at[t] \in Slots /\ pc[t] = "commit" /\ ~ sem[at[t]].initialized
    BY <1>0, <1>1 DEF CreateCommit, TypeOK, ScanFindsFree
  <2>2. Publishing' = Publishing \cup {t} /\ t \notin Publishing
    BY <1>1, <2>1, CommitStep DEF Publishing
  <2>3. Discounting' = Discounting
    BY <1>1, <2>1, CommitStep DEF Discounting
  <2>4. InUse' = InUse \cup {at[t]} /\ at[t] \notin InUse
    BY <1>1, <2>1, CommitStep DEF InUse
  <2>5. liveCount' = liveCount
    BY <1>1 DEF CreateCommit
  <2>6. Cardinality(Publishing') = Cardinality(Publishing) + 1
    BY <2>2, CountedFinite, OneMore
  <2>7. Cardinality(InUse') = Cardinality(InUse) + 1
    BY <2>4, CountedFinite, OneMore
  <2>8. QED
    BY <1>0, <2>3, <2>5, <2>6, <2>7, CountedFinite
<1>2. CASE CreateReturn(t)
  <2>1. Publishing' = Publishing \ {t} /\ t \in Publishing
    BY <1>2 DEF Publishing, CreateReturn, Leaves, TypeOK
  <2>2. Discounting' = Discounting
    BY <1>2 DEF Discounting, CreateReturn, Leaves, TypeOK
  <2>3. InUse' = InUse
    BY <1>2 DEF InUse, CreateReturn
  <2>4. liveCount' = liveCount + 1
    BY <1>2 DEF CreateReturn
  <2>5. Cardinality(Publishing') = Cardinality(Publishing) - 1
    BY <2>1, CountedFinite, OneLess
  <2>6. QED
    BY <1>0, <2>2, <2>3, <2>4, <2>5, CountedFinite
<1>3. CASE Delete(t)
  <2>1. PICK h \in held : LET s == h.handle.slot IN
          /\ Matches(h.handle)
          /\ \A u \in Slots \ {s} : sem'[u] = sem[u]
          /\ ~ sem'[s].initialized
          /\ \A u \in Threads :
                pc'[u] = IF u = t THEN "discount"
                         ELSE IF pc[u] = "sleep" /\ at[u] = s THEN "woken" ELSE pc[u]
    BY <1>3, DeleteStep
  <2>2. pc[t] = "run" /\ h.handle.slot \in Slots
    BY <1>3, HeldTyped DEF Delete
  <2>3. Publishing' = Publishing
    BY <2>1, <2>2 DEF Publishing
  <2>4. Discounting' = Discounting \cup {t} /\ t \notin Discounting
    BY <2>1, <2>2 DEF Discounting
  <2>5. InUse' = InUse \ {h.handle.slot} /\ h.handle.slot \in InUse
    BY <2>1, <2>2 DEF InUse, Matches
  <2>6. liveCount' = liveCount
    BY <1>3 DEF Delete
  <2>7. Cardinality(Discounting') = Cardinality(Discounting) + 1
    BY <2>4, CountedFinite, OneMore
  <2>8. Cardinality(InUse') = Cardinality(InUse) - 1
    BY <2>5, CountedFinite, OneLess
  <2>9. QED
    BY <1>0, <2>3, <2>6, <2>7, <2>8, CountedFinite
<1>4. CASE DeleteReturn(t)
  <2>1. Discounting' = Discounting \ {t} /\ t \in Discounting
    BY <1>4 DEF Discounting, DeleteReturn, Leaves, TypeOK
  <2>2. Publishing' = Publishing
    BY <1>4 DEF Publishing, DeleteReturn, Leaves, TypeOK
  <2>3. InUse' = InUse
    BY <1>4 DEF InUse, DeleteReturn
  <2>4. liveCount' = liveCount - 1
    BY <1>4 DEF DeleteReturn
  <2>5. Cardinality(Discounting') = Cardinality(Discounting) - 1
    BY <2>1, CountedFinite, OneLess
  <2>6. QED
    BY <1>0, <2>2, <2>3, <2>4, <2>5, CountedFinite
<1>5. ASSUME liveCount' = liveCount, \A s \in Slots : Keeps(s),
             \A u \in Threads : \/ pc'[u] = pc[u]
                                \/ {pc[u], pc'[u]} \cap {"publish", "discount"} = {}
      PROVE  CountBalances'
  <2>1. InUse' = InUse
    BY <1>5 DEF InUse, Keeps
  <2>2. Publishing' = Publishing /\ Discounting' = Discounting
    BY <1>5 DEF Publishing, Discounting
  <2>3. QED
    BY <1>5, <2>1, <2>2
<1>6. CASE Signal(t)
  <2>1. liveCount' = liveCount
    BY <1>6 DEF Signal
  <2>2. \A u \in Threads : pc'[u] = pc[u] \/ (pc'[u] = "woken" /\ pc[u] = "sleep")
    BY <1>6, SignalStep DEF WakeOne, Sleepers, TypeOK
  <2>3. \A s \in Slots : Keeps(s)
    BY <1>6, SignalStep DEF Keeps
  <2>4. QED
    BY <1>5, <2>1, <2>2, <2>3
<1>7. CASE WaitTake(t)
  <2>1. liveCount' = liveCount /\ pc' = pc
    BY <1>7 DEF WaitTake
  <2>2. \A s \in Slots : Keeps(s)
    BY <1>7, WaitTakeStep DEF Keeps
  <2>3. QED
    BY <1>5, <2>1, <2>2
<1>8. CASE RecheckTake(t)
  <2>1. liveCount' = liveCount /\ pc[t] = "woken" /\ pc' = [pc EXCEPT ![t] = "run"]
    BY <1>8 DEF RecheckTake, Leaves
  <2>2. \A s \in Slots : Keeps(s)
    BY <1>8, RecheckTakeStep DEF Keeps
  <2>3. QED
    BY <1>5, <2>1, <2>2 DEF TypeOK
<1>9. CASE \/ CreateLock(t) \/ ScanNext(t) \/ ScanFree(t) \/ ScanHighWater(t) \/ ScanExhausted(t)
           \/ Reject(t) \/ WaitPoll(t) \/ WaitSleep(t)
           \/ SpuriousWake(t) \/ RecheckSleep(t) \/ RecheckFail(t)
  <2>1. sem' = sem /\ \A u \in Threads \ {t} : pc'[u] = pc[u]
    BY <1>9, QuietSteps
  <2>2. liveCount' = liveCount
    BY <1>9 DEF CreateLock, ScanNext, ScanFree, ScanHighWater, ScanExhausted, Reject, WaitPoll,
                Fails, WaitSleep, SpuriousWake, RecheckSleep, RecheckFail, table
  <2>3. pc'[t] = pc[t] \/ {pc[t], pc'[t]} \cap {"publish", "discount"} = {}
    BY <1>9 DEF CreateLock, ScanNext, ScanFree, ScanHighWater, ScanExhausted, Reject, WaitPoll,
                Fails, WaitSleep, SpuriousWake, RecheckSleep, RecheckFail, Leaves, TypeOK
  <2>4. QED
    BY <1>5, <2>1, <2>2, <2>3 DEF Keeps
<1>10. QED
  BY <1>1, <1>2, <1>3, <1>4, <1>6, <1>7, <1>8, <1>9
     DEF Step, Create, CreateScan, Wait, Recheck

\* The live count is balanced by the calls on their way to it, whatever wraps.
THEOREM CountsBalance == Spec => []CountBalances
<1>1. Init => CountBalances
  <2> SUFFICES ASSUME Init PROVE CountBalances
    OBVIOUS
  <2>1. Publishing = {} /\ Discounting = {} /\ InUse = {} /\ liveCount = 0
    BY DEF Init, Publishing, Discounting, InUse, Empty, Slots
  <2>2. QED
    BY <2>1, FS_EmptySet DEF CountBalances
<1>2. TypeOK /\ WaitInv /\ CountBalances /\ [Next]_vars => CountBalances'
  <2>1. CASE UNCHANGED vars
    BY <2>1 DEF vars, table, CountBalances, Publishing, Discounting, InUse
  <2>2. QED
    BY <2>1, BalanceKept DEF Next
<1>3. QED
  BY <1>1, <1>2, TypeCorrect, WaitInvariant, PTL DEF Spec

-----------------------------------------------------------------------------
(* Incarnations, while no generation wraps *)

\* Placed in the next state, of what is known in this one.
PlacedNext(i, s, generation) ==
  \A u \in InUse' : sem'[u].incarnation = i => u = s /\ sem'[u].generation = generation

\* Only a create makes an incarnation, and a new one.
LEMMA CreatedGrows ==
  ASSUME TypeOK, NEW t \in Threads, Step(t)
  PROVE  created' = created \/ (CreateCommit(t) /\ created' = created + 1)
BY DEF Step, Create, CreateLock, CreateScan, ScanNext, ScanFree, ScanHighWater, ScanExhausted,
       CreateCommit, CreateReturn, Delete, DeleteReturn, Signal, Reject, Fails, Wait, WaitTake,
       WaitPoll, WaitSleep, SpuriousWake, Recheck, RecheckSleep, RecheckTake, RecheckFail, table

\* An incarnation that exists stays where it is, or goes.
LEMMA PlacedStays ==
  ASSUME TypeOK, ScanFindsFree, NEW t \in Threads, Step(t),
         NEW i \in 1 .. created, NEW s, NEW g, Placed(i, s, g)
  PROVE  PlacedNext(i, s, g)
<1> SUFFICES ASSUME NEW u \in InUse', sem'[u].incarnation = i
             PROVE  u = s /\ sem'[u].generation = g
  BY DEF PlacedNext
<1>1. u \in Slots /\ sem'[u].initialized /\ created \in Nat
  BY DEF InUse, TypeOK
<1>2. ~ Frees(t, u) /\ ~ Fills(t, u)
  BY <1>1 DEF Frees, Fills
<1>3. Keeps(u)
  BY <1>1, <1>2, SlotMoves
<1>4. u \in InUse /\ sem[u].incarnation = i /\ sem'[u].generation = sem[u].generation
  BY <1>1, <1>3 DEF Keeps, InUse
<1>5. QED
  BY <1>4 DEF Placed

\* Two slots never hold one incarnation.
LEMMA SlotsStayPlaced ==
  ASSUME TypeOK, TypeOK', ScanFindsFree, SlotsPlaced, NEW t \in Threads, Step(t)
  PROVE  SlotsPlaced'
<1> SUFFICES ASSUME NEW s \in InUse'
             PROVE  /\ sem'[s].incarnation \in 1 .. created'
                    /\ PlacedNext(sem'[s].incarnation, s, sem'[s].generation)
  BY DEF SlotsPlaced, Placed, PlacedNext
<1>0. s \in Slots /\ sem'[s].initialized /\ created \in Nat
  BY DEF InUse, TypeOK
<1>1. CASE Keeps(s)
  <2>1. s \in InUse /\ sem'[s].incarnation = sem[s].incarnation
        /\ sem'[s].generation = sem[s].generation
    BY <1>0, <1>1 DEF Keeps, InUse
  <2>2. sem[s].incarnation \in 1 .. created /\ Placed(sem[s].incarnation, s, sem[s].generation)
    BY <2>1 DEF SlotsPlaced
  <2>3. PlacedNext(sem[s].incarnation, s, sem[s].generation)
    BY <2>2, PlacedStays
  <2>4. sem[s].incarnation \in 1 .. created'
    BY <1>0, <2>2, CreatedGrows
  <2>5. QED
    BY <2>1, <2>3, <2>4
<1>2. CASE Fills(t, s)
  <2>1. sem'[s].incarnation = created + 1 /\ created' = created + 1 /\ s = at[t]
    BY <1>2, CommitStep DEF Fills
  <2>2. ASSUME NEW u \in InUse', sem'[u].incarnation = created + 1
        PROVE  u = s
    <3>1. u \in Slots /\ sem'[u].initialized
      BY DEF InUse
    <3>2. CASE Keeps(u)
      <4>1. u \in InUse /\ sem[u].incarnation = created + 1
        BY <2>2, <3>1, <3>2 DEF Keeps, InUse
      <4>2. QED
        BY <1>0, <4>1 DEF SlotsPlaced
    <3>3. CASE Fills(t, u)
      BY <2>1, <3>3 DEF Fills
    <3>4. QED
      BY <3>1, <3>2, <3>3, SlotMoves DEF Frees
  <2>3. created + 1 \in 1 .. created'
    BY <1>0, <2>1
  <2>4. QED
    BY <2>1, <2>2, <2>3 DEF PlacedNext
<1>3. QED
  BY <1>0, <1>1, <1>2, SlotMoves DEF Frees

\* The handle a create returns has the generation of its slot.
LEMMA PublishedHandle ==
  ASSUME TypeOK, HandleInv, NoWrap, NEW t \in Threads, pc[t] = "publish"
  PROVE  /\ at[t] \in Slots /\ seen[t] \in Nat /\ seen[t] < GenerationModulus
         /\ Handle(at[t], seen[t]) = [slot |-> at[t], generation |-> seen[t]]
<1>1. at[t] \in Slots /\ seen[t] \in Nat /\ Knows(at[t], seen[t], wanted[t])
  BY DEF HandleInv, CallsKnow, InCall, TypeOK
<1>2. /\ sem[at[t]].generation \in Nat /\ created \in Nat /\ created <= MaxCreates
      /\ sem[at[t]].generation <= 2 * created
  BY <1>1 DEF HandleInv, GenerationsBounded, TypeOK, SemaphoreRecord
<1>3. seen[t] < GenerationModulus
  BY <1>1, <1>2, SemaphoreAssumption DEF Knows, NoWrap
<1>4. seen[t] % GenerationModulus = seen[t]
  BY <1>1, <1>3, SmallResidue, SemaphoreAssumption
<1>5. QED
  BY <1>1, <1>3, <1>4 DEF Handle

\* A step gives the guest at most the handle of the create that returns.
LEMMA HandlesGrow ==
  ASSUME TypeOK, NEW t \in Threads, Step(t)
  PROVE  \/ held' = held
         \/ /\ CreateReturn(t)
            /\ held' = held \cup {[handle |-> Handle(at[t], seen[t]), incarnation |-> wanted[t]]}
BY DEF Step, Create, CreateLock, CreateScan, ScanNext, ScanFree, ScanHighWater, ScanExhausted,
       CreateCommit, CreateReturn, Delete, DeleteReturn, Signal, Reject, Fails, Wait, WaitTake,
       WaitPoll, WaitSleep, SpuriousWake, Recheck, RecheckSleep, RecheckTake, RecheckFail

\* What a handle was made for is where the handle says, or nowhere.
LEMMA HandlesStayPlaced ==
  ASSUME TypeOK, WaitInv, HandleInv, NoWrap, IncarnationInv, NEW t \in Threads, Step(t)
  PROVE  HandlesPlaced'
<1> SUFFICES ASSUME NEW h \in held'
             PROVE  /\ h.incarnation \in 1 .. created'
                    /\ PlacedNext(h.incarnation, h.handle.slot, h.handle.generation)
  BY DEF HandlesPlaced, Placed, PlacedNext
<1>0. created \in Nat /\ ScanFindsFree
  BY DEF TypeOK, WaitInv
<1>1. h.incarnation \in 1 .. created /\ Placed(h.incarnation, h.handle.slot, h.handle.generation)
  <2>1. CASE h \in held
    BY <2>1 DEF IncarnationInv, HandlesPlaced
  <2>2. CASE CreateReturn(t)
             /\ h = [handle |-> Handle(at[t], seen[t]), incarnation |-> wanted[t]]
    <3>1. pc[t] = "publish"
      BY <2>2 DEF CreateReturn
    <3>2. wanted[t] \in 1 .. created /\ Placed(wanted[t], at[t], seen[t])
      BY <3>1 DEF IncarnationInv, CallsPlaced, InCall
    <3>3. h.handle = Handle(at[t], seen[t]) /\ h.incarnation = wanted[t]
      BY <2>2
    <3>4. h.handle.slot = at[t] /\ h.handle.generation = seen[t]
      <4>1. h.handle = [slot |-> at[t], generation |-> seen[t]]
        BY <3>1, <3>3, PublishedHandle
      <4>2. QED
        BY <4>1
    <3>5. QED
      BY <3>2, <3>3, <3>4
  <2>3. QED
    BY <2>1, <2>2, HandlesGrow
<1>2. PlacedNext(h.incarnation, h.handle.slot, h.handle.generation)
  BY <1>0, <1>1, PlacedStays
<1>3. QED
  BY <1>0, <1>1, <1>2, CreatedGrows

\* And so is what a call waits on or is about to return.
LEMMA CallsStayPlaced ==
  ASSUME TypeOK, WaitInv, HandleInv, NoWrap, IncarnationInv, NEW t \in Threads, Step(t)
  PROVE  CallsPlaced'
<1>0. created \in Nat /\ ScanFindsFree
  BY DEF TypeOK, WaitInv
<1>1. ASSUME NEW u \in Threads, pc[u] \in InCall
      PROVE  wanted[u] \in 1 .. created' /\ PlacedNext(wanted[u], at[u], seen[u])
  <2>1. wanted[u] \in 1 .. created /\ Placed(wanted[u], at[u], seen[u])
    BY <1>1 DEF IncarnationInv, CallsPlaced
  <2>2. PlacedNext(wanted[u], at[u], seen[u])
    BY <1>0, <2>1, PlacedStays
  <2>3. QED
    BY <1>0, <2>1, <2>2, CreatedGrows
<1>2. ASSUME \A u \in Threads : pc'[u] \in InCall =>
               /\ wanted'[u] \in 1 .. created'
               /\ PlacedNext(wanted'[u], at'[u], seen'[u])
      PROVE  CallsPlaced'
  BY <1>2 DEF CallsPlaced, Placed, PlacedNext
<1>3. CASE CreateCommit(t)
  <2>1. /\ at' = at /\ at[t] \in Slots /\ created' = created + 1
        /\ wanted'[t] = created + 1 /\ seen'[t] = sem'[at[t]].generation
        /\ \A u \in Threads \ {t} : pc'[u] = pc[u] /\ seen'[u] = seen[u] /\ wanted'[u] = wanted[u]
    BY <1>3, CommitStep
  <2>2. ASSUME NEW u \in InUse', sem'[u].incarnation = created + 1
        PROVE  u = at[t]
    <3>1. u \in Slots /\ sem'[u].initialized
      BY DEF InUse
    <3>2. ~ Keeps(u)
      <4>1. ASSUME Keeps(u) PROVE FALSE
        <5>1. u \in InUse /\ sem[u].incarnation = created + 1
          BY <2>2, <3>1, <4>1 DEF Keeps, InUse
        <5>2. QED
          BY <1>0, <5>1 DEF IncarnationInv, SlotsPlaced
      <4>2. QED
        BY <4>1
    <3>3. QED
      BY <1>0, <3>1, <3>2, SlotMoves DEF Fills, Frees
  <2>3. wanted'[t] \in 1 .. created' /\ PlacedNext(wanted'[t], at'[t], seen'[t])
    BY <1>0, <2>1, <2>2 DEF PlacedNext
  <2>4. QED
    BY <1>1, <1>2, <2>1, <2>3
<1>4. CASE WaitSleep(t)
  <2>1. PICK h \in held :
          /\ Matches(h.handle)
          /\ at' = [at EXCEPT ![t] = h.handle.slot]
          /\ seen' = [seen EXCEPT ![t] = sem[h.handle.slot].generation]
          /\ wanted' = [wanted EXCEPT ![t] = h.incarnation]
    BY <1>4 DEF WaitSleep
  <2>2. sem[h.handle.slot].generation = h.handle.generation
    BY <2>1, MatchIsExact
  <2>3. h.incarnation \in 1 .. created
        /\ Placed(h.incarnation, h.handle.slot, h.handle.generation)
    BY DEF IncarnationInv, HandlesPlaced
  <2>4. h.incarnation \in 1 .. created'
        /\ PlacedNext(h.incarnation, h.handle.slot, h.handle.generation)
    BY <1>0, <2>3, PlacedStays, CreatedGrows
  <2>5. /\ at'[t] = h.handle.slot /\ wanted'[t] = h.incarnation
        /\ seen'[t] = h.handle.generation
    BY <2>1, <2>2 DEF TypeOK
  <2>6. \A u \in Threads \ {t} : pc'[u] = pc[u] /\ at'[u] = at[u] /\ seen'[u] = seen[u]
                                  /\ wanted'[u] = wanted[u]
    BY <1>4, QuietSteps
  <2>7. QED
    BY <1>1, <1>2, <2>4, <2>5, <2>6
<1>5. ASSUME \A u \in Threads : pc'[u] \in InCall =>
               pc[u] \in InCall /\ at'[u] = at[u] /\ seen'[u] = seen[u] /\ wanted'[u] = wanted[u]
      PROVE  CallsPlaced'
  BY <1>1, <1>2, <1>5
<1>6. CASE Delete(t)
  BY <1>5, <1>6, DeleteStep DEF InCall
<1>7. CASE Signal(t)
  <2>1. /\ \A u \in Threads : pc'[u] = pc[u] \/ (pc'[u] = "woken" /\ pc[u] = "sleep")
        /\ UNCHANGED <<at, seen, wanted>>
    BY <1>7, SignalStep DEF WakeOne, Sleepers, TypeOK
  <2>2. QED
    BY <1>5, <2>1 DEF InCall
<1>8. CASE WaitTake(t)
  BY <1>5, <1>8, WaitTakeStep
<1>9. CASE RecheckTake(t)
  <2>1. pc'[t] = "run" /\ \A u \in Threads \ {t} : pc'[u] = pc[u]
    BY <1>9, RecheckTakeStep DEF TypeOK
  <2>2. QED
    BY <1>5, <1>9, <2>1, RecheckTakeStep DEF InCall
<1>10. CASE CreateLock(t) \/ ScanNext(t) \/ ScanFree(t) \/ ScanHighWater(t)
           \/ ScanExhausted(t) \/ CreateReturn(t) \/ DeleteReturn(t) \/ RecheckFail(t)
  <2>1. pc'[t] \notin InCall
    BY <1>10 DEF CreateLock, ScanNext, ScanFree, ScanHighWater, ScanExhausted, CreateReturn,
                 DeleteReturn, RecheckFail, Leaves, TypeOK, InCall
  <2>2. QED
    BY <1>5, <1>10, <2>1, QuietSteps
<1>11. CASE Reject(t) \/ WaitPoll(t)
  BY <1>5, <1>11 DEF Reject, WaitPoll, Fails, local
<1>12. CASE SpuriousWake(t) \/ RecheckSleep(t)
  <2>1. /\ pc[t] \in InCall /\ UNCHANGED <<at, seen, wanted>>
        /\ \A u \in Threads \ {t} : pc'[u] = pc[u]
    BY <1>12, QuietSteps DEF SpuriousWake, RecheckSleep, local, InCall
  <2>2. QED
    BY <1>5, <2>1
<1>13. QED
  BY <1>3, <1>4, <1>6, <1>7, <1>8, <1>9, <1>10, <1>11, <1>12
     DEF Step, Create, CreateScan, Wait, Recheck

\* Until its create returns, no handle of the guest can delete a semaphore.
LEMMA CreatedStaysUnheld ==
  ASSUME TypeOK, WaitInv, HandleInv, NoWrap, IncarnationInv, NEW t \in Threads, Step(t)
  PROVE  NotYetHeld'
<1>0. created \in Nat /\ ScanFindsFree /\ NotYetHeld /\ CreatesAlone
  BY DEF TypeOK, WaitInv, IncarnationInv
<1>1. CASE CreateCommit(t)
  <2>1. /\ tableLock = {t} /\ at' = at /\ held' = held /\ at[t] \in Slots
        /\ sem'[at[t]].initialized /\ sem'[at[t]].incarnation = created + 1
        /\ wanted'[t] = created + 1
        /\ \A u \in Threads \ {t} : pc'[u] = pc[u]
    BY <1>0, <1>1, CommitStep DEF CreateCommit, CreatesAlone, Creating
  <2>2. \A u \in Threads \ {t} : pc'[u] # "publish"
    BY <1>0, <2>1 DEF CreatesAlone, Creating
  <2>3. \A h \in held : h.incarnation # created + 1
    BY <1>0 DEF IncarnationInv, HandlesPlaced
  <2>4. QED
    BY <2>1, <2>2, <2>3 DEF NotYetHeld, InUse
<1>2. CASE CreateReturn(t)
  <2>1. pc'[t] = "run" /\ tableLock = {t} /\ \A u \in Threads \ {t} : pc'[u] = pc[u]
    BY <1>0, <1>2 DEF CreateReturn, Leaves, TypeOK, CreatesAlone, Creating
  <2>2. \A u \in Threads : pc'[u] # "publish"
    BY <1>0, <2>1 DEF CreatesAlone, Creating
  <2>3. QED
    BY <2>2 DEF NotYetHeld
<1>3. ASSUME held' = held, ~ CreateCommit(t),
             \A u \in Threads : pc'[u] = "publish" =>
               pc[u] = "publish" /\ at'[u] = at[u] /\ wanted'[u] = wanted[u]
      PROVE  NotYetHeld'
  <2> SUFFICES ASSUME NEW u \in Threads, pc'[u] = "publish"
               PROVE  /\ at'[u] \in InUse' /\ sem'[at'[u]].incarnation = wanted'[u]
                      /\ \A h \in held' : h.incarnation # wanted'[u]
    BY DEF NotYetHeld
  <2>1. /\ pc[u] = "publish" /\ at'[u] = at[u] /\ wanted'[u] = wanted[u]
        /\ at[u] \in InUse /\ sem[at[u]].incarnation = wanted[u]
        /\ \A h \in held : h.incarnation # wanted[u]
    BY <1>0, <1>3 DEF NotYetHeld
  <2>2. ~ Frees(t, at[u])
    <3>1. ASSUME Delete(t) PROVE sem'[at[u]] = sem[at[u]]
      <4>1. PICK h \in held : /\ Matches(h.handle)
                              /\ \A s \in Slots \ {h.handle.slot} : sem'[s] = sem[s]
        BY <3>1, DeleteStep
      <4>2. sem[h.handle.slot].incarnation = h.incarnation
        BY <4>1, MatchIsExact
      <4>3. h.handle.slot # at[u]
        BY <2>1, <4>2
      <4>4. QED
        BY <2>1, <4>1, <4>3 DEF InUse
    <3>2. QED
      BY <3>1 DEF Frees
  <2>3. Keeps(at[u])
    BY <1>0, <1>3, <2>1, <2>2, SlotMoves DEF Fills, InUse
  <2>4. QED
    BY <1>3, <2>1, <2>3 DEF Keeps, InUse
<1>4. CASE Delete(t)
  BY <1>3, <1>4, DeleteStep DEF Delete, CreateCommit
<1>5. CASE Signal(t)
  <2>1. /\ \A u \in Threads : pc'[u] = pc[u] \/ (pc'[u] = "woken" /\ pc[u] = "sleep")
        /\ UNCHANGED <<at, wanted, held>> /\ pc[t] = "run"
    BY <1>5, SignalStep DEF WakeOne, Sleepers, TypeOK, Signal
  <2>2. QED
    BY <1>3, <2>1 DEF CreateCommit
<1>6. CASE WaitTake(t)
  BY <1>3, <1>6, WaitTakeStep DEF WaitTake, CreateCommit
<1>7. CASE RecheckTake(t)
  <2>1. pc'[t] = "run" /\ \A u \in Threads \ {t} : pc'[u] = pc[u]
    BY <1>7, RecheckTakeStep DEF TypeOK
  <2>2. ~ CreateCommit(t)
    BY <1>7 DEF RecheckTake, CreateCommit
  <2>3. QED
    BY <1>3, <1>7, <2>1, <2>2, RecheckTakeStep
<1>8. CASE CreateLock(t) \/ ScanNext(t) \/ ScanFree(t) \/ ScanHighWater(t)
           \/ ScanExhausted(t) \/ DeleteReturn(t) \/ RecheckFail(t) \/ WaitSleep(t)
           \/ SpuriousWake(t) \/ RecheckSleep(t) \/ Reject(t) \/ WaitPoll(t)
  <2>1. pc'[t] # "publish" /\ pc[t] # "commit" /\ held' = held
    BY <1>8 DEF CreateLock, ScanNext, ScanFree, ScanHighWater, ScanExhausted, DeleteReturn,
                RecheckFail, WaitSleep, SpuriousWake, RecheckSleep, Reject, WaitPoll, Fails,
                Leaves, TypeOK
  <2>2. QED
    BY <1>3, <1>8, <2>1, QuietSteps DEF CreateCommit
<1>9. QED
  BY <1>1, <1>2, <1>4, <1>5, <1>6, <1>7, <1>8 DEF Step, Create, CreateScan, Wait, Recheck

\* Incarnations keep their places while no generation wraps.
THEOREM IncarnationInvariant == NoWrap => (Spec => []IncarnationInv)
<1> SUFFICES ASSUME NoWrap PROVE Spec => []IncarnationInv
  OBVIOUS
<1>1. Init => IncarnationInv
  BY DEF Init, IncarnationInv, SlotsPlaced, HandlesPlaced, CallsPlaced, NotYetHeld, InUse, Empty,
         Slots, InCall
<1>2. TypeOK /\ TypeOK' /\ WaitInv /\ HandleInv /\ IncarnationInv /\ [Next]_vars => IncarnationInv'
  <2> SUFFICES ASSUME TypeOK, TypeOK', WaitInv, HandleInv, IncarnationInv, [Next]_vars
               PROVE  IncarnationInv'
    OBVIOUS
  <2>1. ASSUME NEW t \in Threads, Step(t) PROVE IncarnationInv'
    <3>1. SlotsPlaced'
      BY <2>1, SlotsStayPlaced DEF WaitInv, IncarnationInv
    <3>2. HandlesPlaced' /\ CallsPlaced' /\ NotYetHeld'
      BY <2>1, HandlesStayPlaced, CallsStayPlaced, CreatedStaysUnheld
    <3>3. QED
      BY <3>1, <3>2 DEF IncarnationInv
  <2>2. CASE UNCHANGED vars
    BY <2>2 DEF vars, table, local, IncarnationInv, SlotsPlaced, HandlesPlaced, CallsPlaced,
                NotYetHeld, Placed, InUse
  <2>3. QED
    BY <2>1, <2>2 DEF Next
<1>3. QED
  BY <1>1, <1>2, TypeCorrect, WaitInvariant, HandleInvariant, PTL DEF Spec

\* The table's books: its live count never falls below zero and is the number
\* of semaphores but for the calls between a slot's mutex and the counter, and
\* its generations tell which slots are in use.
THEOREM TablesExact == NoWrap => (Spec => []TableExact)
<1> SUFFICES ASSUME NoWrap PROVE Spec => []TableExact
  OBVIOUS
<1>1. TypeOK /\ WaitInv /\ CountBalances /\ IncarnationInv /\ LiveGenerationsOdd => TableExact
  <2> SUFFICES ASSUME TypeOK, WaitInv, CountBalances, IncarnationInv, LiveGenerationsOdd
               PROVE  TableExact
    OBVIOUS
  <2>1. Cardinality(Publishing) <= Cardinality(InUse)
    <3>1. CASE Publishing = {}
      BY <3>1, FS_EmptySet, CountedFinite
    <3>2. CASE Publishing # {}
      <4>1. PICK t \in Threads : pc[t] = "publish"
        BY <3>2 DEF Publishing
      <4>2. Publishing = {t}
        BY <4>1 DEF Publishing, WaitInv, CreatesAlone, Creating
      <4>3. Cardinality(Publishing) = 1
        BY <4>2, FS_Singleton
      <4>4. InUse # {}
        BY <4>1 DEF IncarnationInv, NotYetHeld
      <4>5. Cardinality(InUse) # 0
        BY <4>4, CountedFinite, FS_EmptySet
      <4>6. QED
        BY <4>3, <4>5, CountedFinite
    <3>3. QED
      BY <3>1, <3>2
  <2>2. liveCount >= 0
    BY <2>1, CountedFinite DEF CountBalances, TypeOK
  <2>3. QED
    BY <2>2 DEF TableExact, LiveCountExact, CountBalances, Publishing, Discounting
<1>2. QED
  BY <1>1, TypeCorrect, WaitInvariant, IncarnationInvariant, CountsBalance, GenerationsTellUse, PTL

-----------------------------------------------------------------------------
(* The refinement *)

\* What the mapping gives the promise for an incarnation: the count and the
\* maximum of the slot it is in, or nothing.
MappingReads ==
  /\ \A s \in InUse :
       LET i == sem[s].incarnation IN
       /\ i \in 1 .. MaxCreates /\ i \in Alive
       /\ Tokens[i] = sem[s].count /\ Limit[i] = sem[s].maximum
  /\ \A i \in 1 .. MaxCreates : i \notin Alive => Tokens[i] = 0 /\ Limit[i] = 0
  /\ \A i \in Alive : \E s \in InUse : sem[s].incarnation = i
  /\ Alive \subseteq 1 .. created
  /\ DOMAIN Tokens = 1 .. MaxCreates /\ DOMAIN Limit = 1 .. MaxCreates
  /\ Tokens = [i \in 1 .. MaxCreates |-> Tokens[i]]
  /\ Limit = [i \in 1 .. MaxCreates |-> Limit[i]]

\* It does, as an incarnation is alive in one slot.
LEMMA MappingDefined ==
  TypeOK /\ GenerationsBounded /\ SlotsPlaced => MappingReads
<1> SUFFICES ASSUME TypeOK, GenerationsBounded, SlotsPlaced PROVE MappingReads
  OBVIOUS
<1>0. created \in Nat /\ created <= MaxCreates /\ MaxCreates \in Nat
  BY SemaphoreAssumption DEF TypeOK, GenerationsBounded
<1>1. /\ Tokens = [i \in 1 .. MaxCreates |-> IF i \in Alive THEN sem[SlotOf(i)].count ELSE 0]
      /\ Limit = [i \in 1 .. MaxCreates |-> IF i \in Alive THEN sem[SlotOf(i)].maximum ELSE 0]
  BY DEF Tokens, Limit
<1>2. ASSUME NEW s \in InUse
      PROVE  /\ sem[s].incarnation \in 1 .. created /\ sem[s].incarnation \in Alive
             /\ SlotOf(sem[s].incarnation) = s
  <2>1. s \in Slots /\ sem[s].initialized
    BY DEF InUse
  <2>2. sem[s].incarnation \in 1 .. created /\ Placed(sem[s].incarnation, s, sem[s].generation)
    BY DEF SlotsPlaced
  <2>3. PICK u : u = SlotOf(sem[s].incarnation)
    OBVIOUS
  <2>4. u \in Slots /\ sem[u].initialized /\ sem[u].incarnation = sem[s].incarnation
    BY <2>1, <2>3 DEF SlotOf
  <2>5. u = s
    BY <2>2, <2>4 DEF Placed, InUse
  <2>6. sem[s].incarnation \in Alive
    BY <2>1 DEF Alive
  <2>7. QED
    BY <2>2, <2>3, <2>5, <2>6
<1>3. \A i \in Alive : \E s \in InUse : sem[s].incarnation = i
  BY DEF Alive, InUse
<1>4. Alive \subseteq 1 .. created
  BY <1>2, <1>3
<1>5. \A i \in 1 .. created : i \in 1 .. MaxCreates
  BY <1>0
<1>6. ASSUME NEW s \in InUse
      PROVE  /\ sem[s].incarnation \in 1 .. MaxCreates /\ sem[s].incarnation \in Alive
             /\ Tokens[sem[s].incarnation] = sem[s].count
             /\ Limit[sem[s].incarnation] = sem[s].maximum
  BY <1>1, <1>2, <1>5
<1>7. \A i \in 1 .. MaxCreates : i \notin Alive => Tokens[i] = 0 /\ Limit[i] = 0
  BY <1>1
<1>8. /\ DOMAIN Tokens = 1 .. MaxCreates /\ DOMAIN Limit = 1 .. MaxCreates
      /\ Tokens = [i \in 1 .. MaxCreates |-> Tokens[i]]
      /\ Limit = [i \in 1 .. MaxCreates |-> Limit[i]]
  BY <1>1
<1>9. QED
  BY <1>3, <1>4, <1>6, <1>7, <1>8 DEF MappingReads

\* The invariant of the slot table the steps are mapped under.
MapInv == TypeOK /\ WaitInv /\ HandleInv /\ IncarnationInv /\ MappingReads

\* An operation on the tokens of one semaphore is one on its incarnation's.
LEMMA TokensMap ==
  ASSUME MapInv, MapInv', NEW s \in InUse, NEW n,
         \A u \in Slots : Keeps(u) /\ sem'[u].maximum = sem[u].maximum,
         sem'[s].count = n,
         \A u \in Slots \ {s} : sem'[u].count = sem[u].count
  PROVE  /\ Alive' = Alive
         /\ Tokens' = [Tokens EXCEPT ![sem[s].incarnation] = n]
         /\ Limit' = Limit
<1> DEFINE Ids == 1 .. MaxCreates
           i == sem[s].incarnation
<1>1. Alive' = Alive /\ InUse' = InUse
  BY DEF Alive, InUse, Keeps
<1>2. \A u \in InUse : u \in Slots /\ sem'[u].incarnation = sem[u].incarnation
  BY DEF InUse, Keeps
<1>3. MappingReads /\ MappingReads' /\ i \in Ids
  BY DEF MapInv, MappingReads
<1>4. ASSUME NEW j \in Ids
      PROVE  Tokens'[j] = (IF j = i THEN n ELSE Tokens[j]) /\ Limit'[j] = Limit[j]
  <2>1. CASE j \notin Alive
    BY <1>1, <1>3, <2>1 DEF MappingReads
  <2>2. CASE j \in Alive
    <3>1. PICK u \in InUse : sem[u].incarnation = j
      BY <1>3, <2>2 DEF MappingReads
    <3>2. Tokens[j] = sem[u].count /\ Limit[j] = sem[u].maximum
      BY <1>3, <3>1 DEF MappingReads
    <3>3. u \in InUse' /\ sem'[u].incarnation = j
      BY <1>1, <1>2, <3>1
    <3>4. Tokens'[j] = sem'[u].count /\ Limit'[j] = sem'[u].maximum
      BY <1>3, <3>3 DEF MappingReads
    <3>5. j = i <=> u = s
      BY <3>1 DEF MapInv, IncarnationInv, SlotsPlaced, Placed
    <3>6. QED
      BY <1>2, <3>2, <3>4, <3>5
  <2>3. QED
    BY <2>1, <2>2
<1>5. /\ Tokens = [j \in Ids |-> Tokens[j]] /\ Limit = [j \in Ids |-> Limit[j]]
      /\ Tokens' = [j \in Ids |-> Tokens'[j]] /\ Limit' = [j \in Ids |-> Limit'[j]]
  BY <1>3 DEF MappingReads
<1>6. Tokens' = [Tokens EXCEPT ![i] = n]
  BY <1>3, <1>4, <1>5
<1>7. Limit' = Limit
  BY <1>4, <1>5
<1>8. QED
  BY <1>1, <1>6, <1>7

\* A step that leaves the slots alone leaves the promise's state alone.
LEMMA QuietMap ==
  ASSUME sem' = sem, created' = created
  PROVE  /\ Alive' = Alive /\ ((1 .. created) \ Alive)' = (1 .. created) \ Alive
         /\ Tokens' = Tokens /\ Limit' = Limit
<1>1. Alive' = Alive
  BY DEF Alive
<1>2. \A i : SlotOf(i)' = SlotOf(i)
  BY DEF SlotOf
<1>3. QED
  BY <1>1, <1>2 DEF Tokens, Limit

\* A handle that does not match, and a wait whose semaphore is gone, name a dead
\* incarnation.
LEMMA StaleIsDead ==
  ASSUME MapInv, NoWrap, NEW h \in held, ~ Matches(h.handle)
  PROVE  h.incarnation \in (1 .. created) \ Alive
<1>1. h.incarnation \in 1 .. created
      /\ Placed(h.incarnation, h.handle.slot, h.handle.generation)
  BY DEF MapInv, IncarnationInv, HandlesPlaced
<1>2. ASSUME h.incarnation \in Alive PROVE FALSE
  <2>1. PICK s \in InUse : sem[s].incarnation = h.incarnation
    BY <1>2 DEF MapInv, MappingReads
  <2>2. s = h.handle.slot /\ sem[s].generation = h.handle.generation
    BY <1>1, <2>1 DEF Placed
  <2>3. /\ sem[s].generation \in Nat /\ sem[s].generation <= 2 * created - 1
        /\ created \in Nat /\ created <= MaxCreates
    BY <2>1 DEF MapInv, TypeOK, SemaphoreRecord, InUse, HandleInv, GenerationsBounded
  <2>4. sem[s].generation < GenerationModulus
    BY <2>3, SemaphoreAssumption DEF NoWrap
  <2>5. sem[s].generation % GenerationModulus = sem[s].generation
    BY <2>3, <2>4, SmallResidue, SemaphoreAssumption
  <2>6. QED
    BY <2>1, <2>2, <2>5 DEF Matches, InUse
<1>3. QED
  BY <1>1, <1>2

LEMMA GoneIsDead ==
  ASSUME MapInv, NEW t \in Threads, pc[t] = "woken", ~ StillWaiting(t)
  PROVE  wanted[t] \in (1 .. created) \ Alive
<1>1. wanted[t] \in 1 .. created /\ Placed(wanted[t], at[t], seen[t])
  BY DEF MapInv, IncarnationInv, CallsPlaced, InCall
<1>2. ASSUME wanted[t] \in Alive PROVE FALSE
  <2>1. PICK s \in InUse : sem[s].incarnation = wanted[t]
    BY <1>2 DEF MapInv, MappingReads
  <2>2. QED
    BY <1>1, <2>1 DEF Placed, StillWaiting, InUse
<1>3. QED
  BY <1>1, <1>2

\* guest_semaphore_create makes a semaphore of a new identity.
LEMMA CommitMaps ==
  ASSUME MapInv, MapInv', NEW t \in Threads, CreateCommit(t)
  PROVE  Promise!Next
<1> DEFINE s == at[t]
           g == NextGeneration(sem[s].generation)
           i == created + 1
           Ids == 1 .. MaxCreates
<1>1. PICK m \in Maxima : \E n \in 0 .. m :
        sem' = [sem EXCEPT ![s] = [initialized |-> TRUE, generation |-> g, count |-> n,
                                   maximum |-> m, incarnation |-> i]]
  BY DEF CreateCommit
<1>2. PICK n \in 0 .. m :
        sem' = [sem EXCEPT ![s] = [initialized |-> TRUE, generation |-> g, count |-> n,
                                   maximum |-> m, incarnation |-> i]]
  BY <1>1
<1>3. /\ TypeOK /\ MappingReads /\ MappingReads' /\ s \in Slots /\ s \notin InUse
      /\ created \in Nat /\ MaxCreates \in Nat /\ created < MaxCreates
      /\ created' = created + 1 /\ last' = last
  BY SemaphoreAssumption DEF MapInv, WaitInv, ScanFindsFree, HandleInv, GenerationsBounded,
     CreateCommit, TypeOK, InUse
<1>4. /\ s \in InUse' /\ sem'[s].incarnation = i /\ sem'[s].count = n /\ sem'[s].maximum = m
      /\ InUse' = InUse \cup {s}
      /\ \A u \in InUse : sem'[u] = sem[u]
  BY <1>2, <1>3 DEF InUse, TypeOK
<1>5. i \in Ids /\ i \notin 1 .. created /\ 1 .. created' = (1 .. created) \cup {i}
  BY <1>3
<1>6. i \notin Alive /\ Alive \subseteq 1 .. created
  BY <1>3, <1>5 DEF MappingReads
<1>7. Alive' = Alive \cup {i}
  <2>1. \A j : j \in Alive <=> \E u \in InUse : sem[u].incarnation = j
    BY DEF Alive, InUse
  <2>2. \A j : j \in Alive' <=> \E u \in InUse' : sem'[u].incarnation = j
    BY DEF Alive, InUse
  <2>3. QED
    BY <1>4, <2>1, <2>2
<1>8. ((1 .. created) \ Alive)' = (1 .. created) \ Alive
  BY <1>5, <1>6, <1>7
<1>9. ASSUME NEW j \in Ids
      PROVE  /\ Tokens'[j] = (IF j = i THEN n ELSE Tokens[j])
             /\ Limit'[j] = (IF j = i THEN m ELSE Limit[j])
  <2>1. CASE j = i
    <3>1. Tokens'[i] = n /\ Limit'[i] = m
      BY <1>3, <1>4 DEF MappingReads
    <3>2. QED
      BY <2>1, <3>1
  <2>2. CASE j # i /\ j \notin Alive
    BY <1>3, <1>7, <2>2 DEF MappingReads
  <2>3. CASE j # i /\ j \in Alive
    <3>1. PICK u \in InUse : sem[u].incarnation = j
      BY <1>3, <2>3 DEF MappingReads
    <3>2. u \in InUse' /\ sem'[u] = sem[u]
      BY <1>4, <3>1
    <3>3. Tokens[j] = sem[u].count /\ Limit[j] = sem[u].maximum
      BY <1>3, <3>1 DEF MappingReads
    <3>4. Tokens'[j] = sem[u].count /\ Limit'[j] = sem[u].maximum
      BY <1>3, <3>1, <3>2 DEF MappingReads
    <3>5. QED
      BY <2>3, <3>3, <3>4
  <2>4. QED
    BY <2>1, <2>2, <2>3
<1>10. /\ Tokens = [j \in Ids |-> Tokens[j]] /\ Limit = [j \in Ids |-> Limit[j]]
       /\ Tokens' = [j \in Ids |-> Tokens'[j]] /\ Limit' = [j \in Ids |-> Limit'[j]]
  BY <1>3 DEF MappingReads
<1>11. Tokens' = [Tokens EXCEPT ![i] = n]
  BY <1>5, <1>9, <1>10
<1>12. Limit' = [Limit EXCEPT ![i] = m]
  BY <1>5, <1>9, <1>10
<1>13. Promise!Create(i)
  BY <1>2, <1>3, <1>5, <1>6, <1>7, <1>8, <1>11, <1>12 DEF Promise!Create
<1>14. QED
  BY <1>5, <1>13 DEF Promise!Next

\* MPDeleteSemaphore ends the semaphore its handle was made for.
LEMMA DeleteMaps ==
  ASSUME MapInv, MapInv', NoWrap, NEW t \in Threads, Delete(t)
  PROVE  Promise!Next
<1> DEFINE Ids == 1 .. MaxCreates
<1>0. TypeOK /\ HandleInv /\ SlotsPlaced /\ MappingReads /\ MappingReads'
  BY DEF MapInv, IncarnationInv
<1>1. PICK h \in held :
        /\ Matches(h.handle)
        /\ sem' = [sem EXCEPT ![h.handle.slot] = Retired(@)]
        /\ Outcome("delete", TRUE, h.incarnation, sem[h.handle.slot].incarnation)
        /\ UNCHANGED created
  BY DEF Delete
<1> DEFINE s == h.handle.slot
           i == h.incarnation
<1>2. s \in InUse /\ sem[s].incarnation = i /\ s \in Slots
  BY <1>0, <1>1, MatchIsExact, HeldTyped DEF InUse
<1>3. sem[s] \in SemaphoreRecord
  BY <1>2 DEF MapInv, TypeOK
<1>4. /\ InUse' = InUse \ {s}
      /\ \A u \in InUse \ {s} : sem'[u] = sem[u]
  BY <1>0, <1>1, <1>2, <1>3 DEF InUse, TypeOK, Retired, SemaphoreRecord
<1>5. i \in Ids /\ i \in Alive /\ i \in 1 .. created
  BY <1>0, <1>2 DEF MappingReads
<1>6. \A u \in InUse : sem[u].incarnation = i <=> u = s
  BY <1>0, <1>2 DEF SlotsPlaced, Placed
<1>7. Alive' = Alive \ {i}
  <2>1. \A j : j \in Alive <=> \E u \in InUse : sem[u].incarnation = j
    BY DEF Alive, InUse
  <2>2. \A j : j \in Alive' <=> \E u \in InUse' : sem'[u].incarnation = j
    BY DEF Alive, InUse
  <2>3. QED
    BY <1>4, <1>6, <2>1, <2>2
<1>8. ((1 .. created) \ Alive)' = ((1 .. created) \ Alive) \cup {i}
  BY <1>1, <1>5, <1>7
<1>9. ASSUME NEW j \in Ids
      PROVE  /\ Tokens'[j] = (IF j = i THEN 0 ELSE Tokens[j])
             /\ Limit'[j] = (IF j = i THEN 0 ELSE Limit[j])
  <2>1. CASE j = i
    <3>1. i \notin Alive'
      BY <1>7
    <3>2. Tokens'[i] = 0 /\ Limit'[i] = 0
      BY <1>0, <1>5, <3>1 DEF MappingReads
    <3>3. QED
      BY <2>1, <3>2
  <2>2. CASE j # i /\ j \notin Alive
    BY <1>0, <1>7, <2>2 DEF MappingReads
  <2>3. CASE j # i /\ j \in Alive
    <3>1. PICK u \in InUse : sem[u].incarnation = j
      BY <1>0, <2>3 DEF MappingReads
    <3>2. u \in InUse' /\ sem'[u] = sem[u]
      BY <1>4, <1>6, <2>3, <3>1
    <3>3. Tokens[j] = sem[u].count /\ Limit[j] = sem[u].maximum
      BY <1>0, <3>1 DEF MappingReads
    <3>4. Tokens'[j] = sem[u].count /\ Limit'[j] = sem[u].maximum
      BY <1>0, <3>1, <3>2 DEF MappingReads
    <3>5. QED
      BY <2>3, <3>3, <3>4
  <2>4. QED
    BY <2>1, <2>2, <2>3
<1>10. /\ Tokens = [j \in Ids |-> Tokens[j]] /\ Limit = [j \in Ids |-> Limit[j]]
       /\ Tokens' = [j \in Ids |-> Tokens'[j]] /\ Limit' = [j \in Ids |-> Limit'[j]]
  BY <1>0 DEF MappingReads
<1>11. Tokens' = [Tokens EXCEPT ![i] = 0]
  BY <1>5, <1>9, <1>10
<1>12. Limit' = [Limit EXCEPT ![i] = 0]
  BY <1>5, <1>9, <1>10
<1>13. Promise!Report("delete", TRUE, i)
  BY <1>1, <1>2 DEF Promise!Report, Outcome
<1>14. Promise!Delete(i)
  BY <1>5, <1>7, <1>8, <1>11, <1>12, <1>13 DEF Promise!Delete
<1>15. QED
  BY <1>5, <1>14 DEF Promise!Next

\* MPSignalSemaphore raises the count of the semaphore its handle was made for.
LEMMA SignalMaps ==
  ASSUME MapInv, MapInv', NoWrap, NEW t \in Threads, Signal(t)
  PROVE  Promise!Next
<1>0. TypeOK /\ HandleInv /\ MappingReads
  BY DEF MapInv
<1>1. PICK h \in held :
        /\ Matches(h.handle)
        /\ sem' = [sem EXCEPT ![h.handle.slot].count = Raised(sem[h.handle.slot])]
        /\ Outcome("signal", TRUE, h.incarnation, sem[h.handle.slot].incarnation)
        /\ UNCHANGED created
  BY DEF Signal
<1> DEFINE s == h.handle.slot
           i == h.incarnation
           n == Raised(sem[s])
<1>2. s \in InUse /\ s \in Slots /\ sem[s].incarnation = i /\ sem[s] \in SemaphoreRecord
  BY <1>0, <1>1, MatchIsExact, HeldTyped DEF InUse
<1>3. /\ \A u \in Slots : Keeps(u) /\ sem'[u].maximum = sem[u].maximum
      /\ sem'[s].count = n
      /\ \A u \in Slots \ {s} : sem'[u].count = sem[u].count
  BY <1>0, <1>1, <1>2 DEF TypeOK, SemaphoreRecord, Keeps
<1>4. Alive' = Alive /\ Tokens' = [Tokens EXCEPT ![i] = n] /\ Limit' = Limit
  BY <1>2, <1>3, TokensMap
<1>5. /\ i \in 1 .. MaxCreates /\ i \in Alive
      /\ Tokens[i] = sem[s].count /\ Limit[i] = sem[s].maximum
  BY <1>0, <1>2 DEF MappingReads
<1>6. n = IF Tokens[i] < Limit[i] THEN Tokens[i] + 1 ELSE Tokens[i]
  BY <1>5 DEF Raised
<1>7. Promise!Report("signal", TRUE, i)
  BY <1>1, <1>2 DEF Promise!Report, Outcome
<1>8. Promise!Signal(i)
  <2>1. Tokens' = [Tokens EXCEPT ![i] = IF @ < Limit[i] THEN @ + 1 ELSE @]
    BY <1>4, <1>6
  <2>2. ((1 .. created) \ Alive)' = (1 .. created) \ Alive
    BY <1>1, <1>4
  <2>3. QED
    BY <1>4, <1>5, <1>7, <2>1, <2>2 DEF Promise!Signal
<1>9. QED
  BY <1>5, <1>8 DEF Promise!Next

\* A token of one semaphore is taken.
LEMMA TakeMaps ==
  ASSUME MapInv, MapInv', NEW s \in InUse, NEW i, sem[s].incarnation = i,
         sem[s].count > 0,
         sem' = [sem EXCEPT ![s].count = sem[s].count - 1],
         Outcome("wait", TRUE, i, sem[s].incarnation), created' = created
  PROVE  Promise!Next
<1> DEFINE n == sem[s].count - 1
<1>0. TypeOK /\ MappingReads
  BY DEF MapInv
<1>1. s \in Slots /\ sem[s] \in SemaphoreRecord
  BY <1>0 DEF InUse, TypeOK
<1>2. /\ \A u \in Slots : Keeps(u) /\ sem'[u].maximum = sem[u].maximum
      /\ sem'[s].count = n
      /\ \A u \in Slots \ {s} : sem'[u].count = sem[u].count
  BY <1>0, <1>1 DEF TypeOK, SemaphoreRecord, Keeps
<1>3. Alive' = Alive /\ Tokens' = [Tokens EXCEPT ![i] = n] /\ Limit' = Limit
  BY <1>2, TokensMap
<1>4. i \in 1 .. MaxCreates /\ i \in Alive /\ Tokens[i] = sem[s].count
  BY <1>0 DEF MappingReads
<1>5. Promise!Report("wait", TRUE, i)
  BY DEF Promise!Report, Outcome
<1>6. Promise!Take(i)
  <2>1. Tokens' = [Tokens EXCEPT ![i] = @ - 1]
    BY <1>3, <1>4
  <2>2. ((1 .. created) \ Alive)' = (1 .. created) \ Alive
    BY <1>3
  <2>3. QED
    BY <1>3, <1>4, <1>5, <2>1, <2>2 DEF Promise!Take
<1>7. QED
  BY <1>4, <1>6 DEF Promise!Next

\* MPWaitOnSemaphore takes it at once or after its loop.
LEMMA WaitTakesMap ==
  ASSUME MapInv, MapInv', NoWrap, NEW t \in Threads, WaitTake(t) \/ RecheckTake(t)
  PROVE  Promise!Next
<1>0. TypeOK /\ HandleInv
  BY DEF MapInv
<1>1. CASE WaitTake(t)
  <2>1. PICK h \in held :
          /\ Matches(h.handle)
          /\ sem[h.handle.slot].count > 0
          /\ sem' = [sem EXCEPT ![h.handle.slot].count = sem[h.handle.slot].count - 1]
          /\ Outcome("wait", TRUE, h.incarnation, sem[h.handle.slot].incarnation)
          /\ created' = created
    BY <1>1 DEF WaitTake
  <2>2. h.handle.slot \in InUse /\ sem[h.handle.slot].incarnation = h.incarnation
    BY <1>0, <2>1, MatchIsExact, HeldTyped DEF InUse
  <2>3. QED
    BY <2>1, <2>2, TakeMaps
<1>2. CASE RecheckTake(t)
  <2>1. /\ pc[t] = "woken" /\ StillWaiting(t) /\ sem[at[t]].count > 0
        /\ sem' = [sem EXCEPT ![at[t]].count = sem[at[t]].count - 1]
        /\ Outcome("wait", TRUE, wanted[t], sem[at[t]].incarnation)
        /\ created' = created
    BY <1>2 DEF RecheckTake
  <2>2. Knows(at[t], seen[t], wanted[t]) /\ at[t] \in Slots
    BY <1>0, <2>1 DEF HandleInv, CallsKnow, InCall, TypeOK
  <2>3. at[t] \in InUse /\ sem[at[t]].incarnation = wanted[t]
    BY <2>1, <2>2 DEF Knows, StillWaiting, InUse
  <2>4. QED
    BY <2>1, <2>3, TakeMaps
<1>3. QED
  BY <1>1, <1>2

\* The calls that fail fail for a promised reason, and a create returns the
\* identity of a living semaphore.
LEMMA ReportsMap ==
  ASSUME MapInv, NoWrap, NEW t \in Threads,
         ScanExhausted(t) \/ CreateReturn(t) \/ Reject(t) \/ WaitPoll(t) \/ RecheckFail(t)
  PROVE  Promise!Next
<1> DEFINE Ids == 1 .. MaxCreates
           Gone == (1 .. created) \ Alive
<1>0. /\ TypeOK /\ HandleInv /\ IncarnationInv /\ MappingReads
      /\ created \in Nat /\ created <= MaxCreates /\ MaxCreates \in Nat
  BY SemaphoreAssumption DEF MapInv, TypeOK, HandleInv, GenerationsBounded
<1>1. Gone \subseteq Ids
  BY <1>0
<1>2. sem' = sem /\ created' = created
  BY DEF ScanExhausted, CreateReturn, Reject, WaitPoll, RecheckFail, Fails, table
<1>3. Alive' = Alive /\ Gone' = Gone /\ Tokens' = Tokens /\ Limit' = Limit
  BY <1>2, QuietMap
<1>4. CASE ScanExhausted(t)
  <2>1. Promise!CreateFails
    BY <1>3, <1>4 DEF ScanExhausted, Outcome, Promise!CreateFails, Promise!Report
  <2>2. QED
    BY <2>1 DEF Promise!Next
<1>5. CASE CreateReturn(t)
  <2>1. wanted[t] \in Alive /\ wanted[t] \in Ids
    BY <1>0, <1>5 DEF CreateReturn, IncarnationInv, NotYetHeld, MappingReads
  <2>2. Promise!Report("create", TRUE, wanted[t])
    BY <1>5 DEF CreateReturn, Outcome, Promise!Report
  <2>3. Promise!Created(wanted[t])
    BY <1>3, <2>1, <2>2 DEF Promise!Created
  <2>4. QED
    BY <2>1, <2>3 DEF Promise!Next
<1>6. ASSUME NEW i \in Gone, NEW op \in {"delete", "signal", "wait"},
             Outcome(op, FALSE, i, 0)
      PROVE  Promise!Next
  <2>1. Promise!Report(op, FALSE, i)
    BY <1>6 DEF Outcome, Promise!Report
  <2>2. Promise!Refuse(i)
    BY <1>3, <2>1 DEF Promise!Refuse
  <2>3. QED
    BY <1>1, <2>2 DEF Promise!Next
<1>7. CASE Reject(t)
  <2>1. PICK h \in held, op \in {"delete", "signal", "wait"} :
          ~ Matches(h.handle) /\ Outcome(op, FALSE, h.incarnation, 0)
    BY <1>7 DEF Reject, Fails
  <2>2. QED
    BY <1>6, <2>1, StaleIsDead
<1>8. CASE RecheckFail(t)
  <2>1. wanted[t] \in Gone /\ Outcome("wait", FALSE, wanted[t], 0)
    BY <1>8, GoneIsDead DEF RecheckFail
  <2>2. QED
    BY <1>6, <2>1
<1>9. CASE WaitPoll(t)
  <2>1. PICK h \in held : /\ Matches(h.handle) /\ sem[h.handle.slot].count <= 0
                          /\ Outcome("wait", FALSE, h.incarnation, 0)
    BY <1>9 DEF WaitPoll, Fails
  <2>2. /\ h.handle.slot \in InUse /\ sem[h.handle.slot].incarnation = h.incarnation
        /\ sem[h.handle.slot].count = 0
    BY <1>0, <2>1, MatchIsExact, HeldTyped DEF InUse
  <2>3. h.incarnation \in Ids /\ h.incarnation \in Alive /\ Tokens[h.incarnation] = 0
    BY <1>0, <2>2 DEF MappingReads
  <2>4. Promise!Report("wait", FALSE, h.incarnation)
    BY <2>1 DEF Outcome, Promise!Report
  <2>5. Promise!Refuse(h.incarnation)
    BY <1>3, <2>3, <2>4 DEF Promise!Refuse
  <2>6. QED
    BY <2>3, <2>5 DEF Promise!Next
<1>10. QED
  BY <1>4, <1>5, <1>7, <1>8, <1>9

\* Every step of the slot table is a step of the promise or one it cannot see.
LEMMA StepsMap ==
  ASSUME MapInv, MapInv', NoWrap, NEW t \in Threads, Step(t)
  PROVE  Promise!Next \/ UNCHANGED Promise!vars
<1>1. CASE \/ CreateLock(t) \/ ScanNext(t) \/ ScanFree(t) \/ ScanHighWater(t) \/ DeleteReturn(t)
           \/ WaitSleep(t) \/ SpuriousWake(t) \/ RecheckSleep(t)
  <2>1. sem' = sem /\ created' = created /\ last' = last
    BY <1>1 DEF CreateLock, ScanNext, ScanFree, ScanHighWater, DeleteReturn, WaitSleep,
                SpuriousWake, RecheckSleep, table
  <2>2. QED
    BY <2>1, QuietMap DEF Promise!vars
<1>2. QED
  BY <1>1, CommitMaps, DeleteMaps, SignalMaps, WaitTakesMap, ReportsMap
     DEF Step, Create, CreateScan, Wait, Recheck

\* The slot table implements the promise while no generation wraps: whatever
\* creates, deletes, signals, waits and wakeups interleave, the guest sees
\* semaphores whose identities are never confused, operations that act on the
\* semaphore they name or fail for a promised reason, and no token gained or lost.
THEOREM SlotTableImplementsPromise == NoWrap => (Spec => ImplementsPromise)
<1> SUFFICES ASSUME NoWrap PROVE Spec => ImplementsPromise
  OBVIOUS
<1>1. Init => Promise!Init
  <2> SUFFICES ASSUME Init PROVE Promise!Init
    OBVIOUS
  <2>1. \A s \in Slots : ~ sem[s].initialized
    BY DEF Init, Empty
  <2>2. Alive = {}
    BY <2>1 DEF Alive
  <2>3. 1 .. created = {}
    BY DEF Init
  <2>4. Tokens = [i \in 1 .. MaxCreates |-> 0] /\ Limit = [i \in 1 .. MaxCreates |-> 0]
    BY <2>2 DEF Tokens, Limit
  <2>5. QED
    BY <2>2, <2>3, <2>4 DEF Promise!Init, Init, NoOutcome
<1>2. TypeOK /\ WaitInv /\ HandleInv /\ IncarnationInv => MapInv
  BY MappingDefined DEF MapInv, HandleInv, IncarnationInv
<1>3. MapInv /\ MapInv' /\ [Next]_vars => [Promise!Next]_(Promise!vars)
  <2> SUFFICES ASSUME MapInv, MapInv', [Next]_vars PROVE [Promise!Next]_(Promise!vars)
    OBVIOUS
  <2>1. CASE Next
    BY <2>1, StepsMap DEF Next
  <2>2. CASE UNCHANGED vars
    BY <2>2, QuietMap DEF vars, table, Promise!vars
  <2>3. QED
    BY <2>1, <2>2
<1>4. QED
  BY <1>1, <1>2, <1>3, TypeCorrect, WaitInvariant, HandleInvariant, IncarnationInvariant, PTL
     DEF Spec, ImplementsPromise, Promise!Spec

=============================================================================
