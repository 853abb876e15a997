-------------------------- MODULE GuestLibraryProofs --------------------------
(***************************************************************************)
(* Proofs about what the guest's C library hands out: its FILEs            *)
(* (GuestFiles) and its memory (GuestHeap).                                *)
(*                                                                         *)
(* The files, for any number of threads, slots, generations and FILEs: no  *)
(* FILE is lost or owned twice, the count of slots is exact, a stale       *)
(* handle is rejected for a cycle of generations, and no FILE is used      *)
(* after it was closed unless the guest closes a standard stream.          *)
(*                                                                         *)
(* The heap, for any size of it, any bins, sites, owners and requests: its *)
(* blocks tile it, its free lists and its statistics are right, and what a *)
(* guest wrote stays in its block, whatever the other owners do.           *)
(***************************************************************************)
EXTENDS GuestFiles, GuestHeap, FiniteSetTheorems, WellFoundedInduction, TLAPS

-----------------------------------------------------------------------------
(* Arithmetic *)

\* A set of naturals that is not empty has a least element.
LEMMA LeastExists ==
  ASSUME NEW T, T \subseteq Nat, T # {}
  PROVE  \E x \in T : \A y \in T : x <= y
<1>1. IsWellFoundedOn(OpToRel(<, Nat), Nat)
  BY NatLessThanWellFounded
<1>2. PICK x \in T : \A y \in T : ~ (<<y, x>> \in OpToRel(<, Nat))
  BY <1>1, WFMin
<1>3. \A y \in T : ~ (y < x)
  BY <1>2 DEF OpToRel
<1>4. QED
  BY <1>3

\* A multiple of m and a remainder are a number's only ones.
LEMMA RemainderUnique ==
  ASSUME NEW m \in Nat \ {0}, NEW q \in Nat, NEW r \in 0 .. m - 1
  PROVE  (m * q + r) % m = r
OBVIOUS

\* Residues are counted modulo m.
LEMMA ResidueNext ==
  ASSUME NEW m \in Nat \ {0}, NEW x \in Nat
  PROVE  ((x % m) + 1) % m = (x + 1) % m
<1> DEFINE q == x \div m
           r == x % m
<1>1. q \in Nat /\ r \in 0 .. m - 1 /\ x = m * q + r
  OBVIOUS
<1>2. CASE r + 1 < m
  <2>1. (r + 1) % m = r + 1
    BY <1>1, <1>2
  <2>2. x + 1 = m * q + (r + 1) /\ r + 1 \in 0 .. m - 1
    BY <1>1, <1>2
  <2> HIDE DEF q, r
  <2>3. (m * q + (r + 1)) % m = r + 1
    BY <1>1, <2>2, RemainderUnique
  <2>4. QED
    BY <2>1, <2>2, <2>3 DEF r
<1>3. CASE r + 1 = m
  <2>1. (r + 1) % m = 0
    BY <1>3
  <2>2. x + 1 = m * (q + 1) + 0 /\ q + 1 \in Nat /\ 0 \in 0 .. m - 1
    <3> HIDE DEF q, r
    <3>1. m * (q + 1) = m * q + m
      BY <1>1
    <3>2. QED
      BY <1>1, <1>3, <3>1
  <2> HIDE DEF q, r
  <2>3. (m * (q + 1) + 0) % m = 0
    BY <2>2, RemainderUnique
  <2>4. QED
    BY <2>1, <2>2, <2>3 DEF r
<1>4. QED
  BY <1>1, <1>2, <1>3

\* A residue comes back only after m steps.
LEMMA ResidueReturns ==
  ASSUME NEW m \in Nat \ {0}, NEW a \in 0 .. m - 1, NEW r \in Nat, r < m, (a + r) % m = a
  PROVE  r = 0
<1>1. CASE a + r < m
  BY <1>1
<1>2. CASE a + r >= m
  <2>1. a + r = m * 1 + (a + r - m) /\ a + r - m \in 0 .. m - 1
    BY <1>2
  <2>2. (m * 1 + (a + r - m)) % m = a + r - m
    BY <2>1, RemainderUnique
  <2>3. QED
    BY <2>1, <2>2
<1>3. QED
  BY <1>1, <1>2

-----------------------------------------------------------------------------
(* The table *)

\* The scan of guest_handle_for_file finds a free slot when there is one.
LEMMA NextFreeIsFree ==
  ASSUME FilesAssumption, TypeOK, FreeSlots # {}
  PROVE  NextFree \in FreeSlots
<1> DEFINE D == {Distance(s) : s \in FreeSlots}
<1>1. \A s \in FreeSlots : Distance(s) \in Nat
  BY DEF FilesAssumption, TypeOK, FreeSlots, Slots, Distance
<1>2. D \subseteq Nat /\ D # {}
  BY <1>1
<1>3. PICK x \in D : \A y \in D : x <= y
  BY <1>2, LeastExists
<1>4. PICK s \in FreeSlots : x = Distance(s)
  BY <1>3
<1>5. \A u \in FreeSlots : Distance(s) <= Distance(u)
  BY <1>3, <1>4
<1>6. QED
  BY <1>5 DEF NextFree

InUseSlots == {s \in Slots : file[s] # None}

LEMMA SlotsFinite ==
  ASSUME FilesAssumption, NEW S \in SUBSET Slots
  PROVE  IsFiniteSet(S) /\ Cardinality(S) \in Nat /\ Cardinality(S) <= Capacity
<1>1. IsFiniteSet(Slots) /\ Cardinality(Slots) = Capacity
  BY FS_Interval DEF FilesAssumption, Slots
<1>2. QED
  BY <1>1, FS_Subset, FS_CardinalityType

\* One more slot in use, while one was free, or one less.
LEMMA SlotTaken ==
  ASSUME FilesAssumption, TypeOK, ActiveExact, NEW s \in Slots, file[s] = None,
         NEW f, f # None, file' = [file EXCEPT ![s] = f]
  PROVE  /\ active + 1 = Cardinality({u \in Slots : file'[u] # None})
         /\ active + 1 \in 0 .. Capacity
<1>1. {u \in Slots : file'[u] # None} = InUseSlots \cup {s} /\ s \notin InUseSlots
  BY DEF InUseSlots, TypeOK
<1>2. IsFiniteSet(InUseSlots) /\ InUseSlots \cup {s} \subseteq Slots
  BY SlotsFinite DEF InUseSlots
<1>3. Cardinality(InUseSlots \cup {s}) = Cardinality(InUseSlots) + 1
  BY <1>1, <1>2, FS_AddElement
<1>4. Cardinality(InUseSlots \cup {s}) <= Capacity
  BY <1>2, SlotsFinite
<1>5. active = Cardinality(InUseSlots)
  BY DEF ActiveExact, InUseSlots
<1>6. active \in Nat /\ Capacity \in Nat
  BY DEF TypeOK, FilesAssumption
<1>7. active + 1 = Cardinality(InUseSlots \cup {s}) /\ active + 1 \in 0 .. Capacity
  BY <1>3, <1>4, <1>5, <1>6
<1>8. QED
  BY <1>1, <1>7

LEMMA SlotGiven ==
  ASSUME FilesAssumption, TypeOK, ActiveExact, NEW s \in Slots, file[s] # None,
         file' = [file EXCEPT ![s] = None]
  PROVE  /\ active > 0
         /\ active - 1 = Cardinality({u \in Slots : file'[u] # None})
         /\ active - 1 \in 0 .. Capacity
<1>1. {u \in Slots : file'[u] # None} = InUseSlots \ {s} /\ s \in InUseSlots
  BY DEF InUseSlots, TypeOK
<1>2. IsFiniteSet(InUseSlots) /\ InUseSlots \ {s} \subseteq Slots
  BY SlotsFinite DEF InUseSlots
<1>3. Cardinality(InUseSlots \ {s}) = Cardinality(InUseSlots) - 1
  BY <1>1, <1>2, FS_RemoveElement
<1>4. Cardinality(InUseSlots \ {s}) \in Nat
  BY <1>2, SlotsFinite
<1>5. active = Cardinality(InUseSlots)
  BY DEF ActiveExact, InUseSlots
<1>6. active \in 0 .. Capacity /\ Capacity \in Nat
  BY DEF TypeOK, FilesAssumption
<1>7. /\ active > 0 /\ active - 1 \in 0 .. Capacity
      /\ active - 1 = Cardinality(InUseSlots \ {s})
  BY <1>3, <1>4, <1>5, <1>6
<1>8. QED
  BY <1>1, <1>7

-----------------------------------------------------------------------------
(* The invariant, step by step *)

\* fopen has a new FILE in hand.
LEMMA HostOpenKeeps ==
  ASSUME FilesAssumption, FilesInv, NEW t \in Threads, HostOpen(t)
  PROVE  FilesInv'
<1> DEFINE f == opened + 1
<1>0. /\ TypeOK /\ FilesOwned /\ ActiveExact /\ StaleRejectedForACycle
      /\ HandsApart /\ UsesLocked /\ HandlesCount /\ StandardStays
  BY DEF FilesInv
<1>1. /\ pc[t] = "run" /\ opened \in Nat /\ opened < MaxFiles /\ MaxFiles \in Nat
      /\ opened' = f /\ open' = open \cup {f}
      /\ pc' = [pc EXCEPT ![t] = "opened"] /\ hand' = [hand EXCEPT ![t] = f]
      /\ UNCHANGED <<generation, file, nextIndex, active, fileLock, held, reuses, last>>
  BY <1>0 DEF HostOpen, Goes, tableVars, TypeOK, FilesAssumption
<1>2. f \in 1 .. MaxFiles /\ f \notin 1 .. opened /\ 1 .. opened' = (1 .. opened) \cup {f}
  BY <1>1
<1>3. TypeOK'
  BY <1>0, <1>1, <1>2, SMTT(30) DEF TypeOK
<1>4. Registered' = Registered /\ Registered \subseteq 1 .. opened
  BY <1>0, <1>1 DEF Registered, HandsApart
<1>5. InHand' = InHand \cup {f} /\ InHand \subseteq 1 .. opened
  <2>1. /\ pc'[t] = "opened" /\ hand'[t] = f
        /\ \A u \in Threads \ {t} : pc'[u] = pc[u] /\ hand'[u] = hand[u]
    BY <1>0, <1>1 DEF TypeOK
  <2>2. QED
    BY <1>0, <1>1, <2>1 DEF InHand, HandsApart
<1>6. FilesOwned'
  <2>1. f # Standard
    BY <1>2 DEF Standard
  <2>2. QED
    BY <1>0, <1>1, <1>2, <1>4, <1>5, <2>1 DEF FilesOwned
<1>7. \A h \in held : h.file # f
  BY <1>0, <1>1 DEF HandlesCount, IsStandard, Standard
<1>8. HandsApart'
  BY <1>0, <1>1, <1>2, <1>7, SMTT(30) DEF HandsApart, TypeOK
<1>9. UsesLocked'
  BY <1>0, <1>1, <1>4 DEF UsesLocked, TypeOK
<1>10. HandlesCount'
  BY <1>0, <1>1, <1>2 DEF HandlesCount, IsStandard
<1>11. ActiveExact' /\ StaleRejectedForACycle' /\ StandardStays'
  BY <1>0, <1>1 DEF ActiveExact, StaleRejectedForACycle, StandardStays
<1>12. QED
  BY <1>3, <1>6, <1>8, <1>9, <1>10, <1>11 DEF FilesInv

\* guest_handle_for_file gives it a slot and a handle.
LEMMA RegisterKeeps ==
  ASSUME FilesAssumption, FilesInv, NEW t \in Threads, Register(t)
  PROVE  FilesInv'
<1> DEFINE s == NextFree
           f == hand[t]
           g == NextGeneration(s)
           new == [handle |-> [slot |-> s, generation |-> g], file |-> f]
           ofSlot(x) == \E h \in held : h.file = x /\ h.handle.slot = s
<1>0. /\ TypeOK /\ FilesOwned /\ ActiveExact /\ StaleRejectedForACycle
      /\ HandsApart /\ UsesLocked /\ HandlesCount /\ StandardStays
  BY DEF FilesInv
<1>1. s \in Slots /\ file[s] = None
  BY <1>0, NextFreeIsFree DEF Register, FreeSlots
<1>2. /\ f \in 1 .. opened /\ f \in 1 .. MaxFiles /\ f \in 0 .. MaxFiles
      /\ f # None /\ f # Standard
      /\ \A h \in held : h.file # f
  BY <1>0 DEF Register, HandsApart, TypeOK, FilesAssumption, Standard
<1>3. /\ g \in 0 .. Generations - 1
      /\ generation[s] # Unused => g = (generation[s] + 1) % Generations
  BY <1>0, <1>1, SMTT(30) DEF NextGeneration, TypeOK, FilesAssumption, Unused
<1>4. /\ pc[t] = "opened" /\ fileLock = None
      /\ generation' = [generation EXCEPT ![s] = g]
      /\ file' = [file EXCEPT ![s] = f]
      /\ nextIndex' = After(s) /\ active' = active + 1
      /\ reuses' = [x \in 0 .. MaxFiles |-> IF ofSlot(x) THEN reuses[x] + 1 ELSE reuses[x]]
      /\ pc' = [pc EXCEPT ![t] = "run"] /\ hand' = [hand EXCEPT ![t] = None]
      /\ UNCHANGED <<fileLock, open, opened, last>>
  BY DEF Register, Goes, OneMore
<1>5. held' = held \cup {new}
  <2>1. generation'[s] = g
    BY <1>0, <1>1, <1>4 DEF TypeOK
  <2>2. QED
    BY <2>1 DEF Register
<1> HIDE DEF s, f, g
<1>6. TypeOK'
  <2>1. generation' \in [Slots -> (0 .. Generations - 1) \cup {Unused}]
    BY <1>0, <1>1, <1>3, <1>4 DEF TypeOK
  <2>2. file' \in [Slots -> (1 .. MaxFiles) \cup {None}]
    BY <1>0, <1>1, <1>2, <1>4 DEF TypeOK
  <2>3. nextIndex' \in Slots
    BY <1>1, <1>4 DEF After, Slots, FilesAssumption
  <2>4. active' \in 0 .. Capacity
    BY <1>0, <1>1, <1>2, <1>4, SlotTaken
  <2>5. held' \subseteq [handle : [slot : Slots \cup {None}, generation : 0 .. Generations - 1],
                         file : 0 .. MaxFiles]
    BY <1>0, <1>1, <1>2, <1>3, <1>5 DEF TypeOK
  <2>6. reuses' \in [0 .. MaxFiles -> Nat]
    <3>1. \A x \in 0 .. MaxFiles : reuses[x] \in Nat
      BY <1>0 DEF TypeOK
    <3>2. QED
      BY <1>4, <3>1
  <2>7. pc' \in [Threads -> {"run", "opened", "overflow", "use"}]
        /\ hand' \in [Threads -> (0 .. MaxFiles) \cup {None}]
    BY <1>0, <1>4 DEF TypeOK
  <2>8. QED
    BY <1>0, <1>4, <2>1, <2>2, <2>3, <2>4, <2>5, <2>6, <2>7 DEF TypeOK
<1>7. ActiveExact'
  BY <1>0, <1>1, <1>2, <1>4, SlotTaken DEF ActiveExact
<1>8. file'[s] = f /\ \A u \in Slots \ {s} : file'[u] = file[u]
  BY <1>0, <1>1, <1>4 DEF TypeOK
<1>9. /\ pc'[t] = "run"
      /\ \A u \in Threads \ {t} : pc'[u] = pc[u] /\ hand'[u] = hand[u]
  BY <1>0, <1>4 DEF TypeOK
<1>10. Registered' = Registered \cup {f}
  BY <1>1, <1>2, <1>8 DEF Registered
<1>11. InHand' = InHand \ {f} /\ f \in InHand
  BY <1>0, <1>4, <1>9 DEF InHand, HandsApart, f
<1>12. FilesOwned'
  <2>1. f \notin Registered
    BY <1>0, <1>11 DEF FilesOwned
  <2>2. \A u \in Slots : file[u] # f
    BY <1>2, <2>1 DEF Registered
  <2>3. QED
    BY <1>0, <1>1, <1>4, <1>8, <1>10, <1>11, <2>2 DEF FilesOwned
<1>13. HandsApart'
  <2>1. \A u \in Threads : pc'[u] \in {"opened", "overflow"} =>
          u # t /\ pc[u] \in {"opened", "overflow"} /\ hand'[u] = hand[u] /\ hand[u] # f
    BY <1>0, <1>4, <1>9 DEF HandsApart, f
  <2>2. \A u \in Slots : file'[u] # None => file'[u] \in 1 .. opened
    BY <1>0, <1>2, <1>8 DEF HandsApart
  <2>3. \A h \in held' : h \in held \/ h.file = f
    BY <1>5
  <2>4. QED
    BY <1>0, <1>4, <2>1, <2>2, <2>3 DEF HandsApart
<1>14. UsesLocked'
  BY <1>0, <1>4, <1>9, <1>10 DEF UsesLocked
<1>15. HandlesCount'
  <2>1. new.file = f /\ new.handle.slot = s /\ new.handle.generation = g
    OBVIOUS
  <2>2. ASSUME NEW h \in held', ~ IsStandard(h)
        PROVE  /\ h.handle.slot \in Slots /\ h.file \in 1 .. opened
               /\ generation'[h.handle.slot]
                    = (h.handle.generation + reuses'[h.file]) % Generations
               /\ reuses'[h.file] = 0 => file'[h.handle.slot] \in {None, h.file}
    <3>1. CASE h = new
      <4>1. reuses'[f] = 0
        BY <1>0, <1>2, <1>4 DEF HandlesCount
      <4>2. g % Generations = g /\ g + 0 = g
        BY <1>3 DEF FilesAssumption
      <4>3. generation'[s] = g
        BY <1>0, <1>1, <1>4 DEF TypeOK
      <4>4. QED
        BY <1>1, <1>2, <1>8, <2>1, <3>1, <4>1, <4>2, <4>3
    <3>2. CASE h \in held
      <4>1. /\ h.handle.slot \in Slots /\ h.file \in 1 .. opened /\ h.file \in 0 .. MaxFiles
            /\ generation[h.handle.slot]
                 = (h.handle.generation + reuses[h.file]) % Generations
            /\ reuses[h.file] = 0 => file[h.handle.slot] \in {None, h.file}
            /\ h.handle.generation \in Nat /\ reuses[h.file] \in Nat
        BY <1>0, <2>2, <3>2 DEF HandlesCount, TypeOK, FilesAssumption
      <4>2. CASE h.handle.slot = s
        <5>1. reuses'[h.file] = reuses[h.file] + 1
          BY <1>4, <3>2, <4>1, <4>2
        <5>2. generation[s] # Unused
          BY <4>1, <4>2 DEF Unused, FilesAssumption
        <5>3. g = (((h.handle.generation + reuses[h.file]) % Generations) + 1) % Generations
          BY <1>3, <4>1, <4>2, <5>2
        <5>4. h.handle.generation + reuses[h.file] \in Nat
              /\ (h.handle.generation + reuses[h.file]) + 1
                   = h.handle.generation + reuses'[h.file]
          BY <4>1, <5>1
        <5>5. g = (h.handle.generation + reuses'[h.file]) % Generations
          BY <5>3, <5>4, ResidueNext DEF FilesAssumption
        <5>6. generation'[s] = g
          BY <1>0, <1>1, <1>4 DEF TypeOK
        <5>7. reuses'[h.file] # 0
          BY <4>1, <5>1
        <5>8. QED
          BY <4>1, <4>2, <5>5, <5>6, <5>7
      <4>3. CASE h.handle.slot # s
        <5>1. ~ ofSlot(h.file)
          BY <1>0, <3>2, <4>3 DEF HandlesCount
        <5>2. reuses'[h.file] = reuses[h.file]
          BY <1>4, <4>1, <5>1
        <5>3. generation'[h.handle.slot] = generation[h.handle.slot]
          BY <1>0, <1>1, <1>4, <4>1, <4>3 DEF TypeOK
        <5>4. QED
          BY <1>8, <4>1, <4>3, <5>2, <5>3
      <4>4. QED
        BY <4>2, <4>3
    <3>3. QED
      BY <1>5, <3>1, <3>2
  <2>3. \A h, k \in held' : h.file = k.file => h = k
    BY <1>0, <1>2, <1>5, <2>1 DEF HandlesCount
  <2>4. \A x \in 0 .. MaxFiles : (\A h \in held' : h.file # x) => reuses'[x] = 0
    <3> SUFFICES ASSUME NEW x \in 0 .. MaxFiles, \A h \in held' : h.file # x
                 PROVE  reuses'[x] = 0
      OBVIOUS
    <3>1. \A h \in held : h.file # x
      BY <1>5
    <3>2. QED
      BY <1>0, <1>4, <3>1 DEF HandlesCount
  <2>5. QED
    BY <1>4, <2>2, <2>3, <2>4 DEF HandlesCount, IsStandard
<1>16. StaleRejectedForACycle'
  <2>1. last' = last /\ last.wanted \in 0 .. MaxFiles
    BY <1>0, <1>4 DEF TypeOK
  <2>2. reuses[last.wanted] \in Nat /\ reuses'[last.wanted] \in Nat
        /\ reuses'[last.wanted] >= reuses[last.wanted]
    BY <1>0, <1>4, <2>1 DEF TypeOK
  <2>3. QED
    BY <1>0, <2>1, <2>2 DEF StaleRejectedForACycle, FilesAssumption
<1>17. StandardStays'
  BY <1>0, <1>4 DEF StandardStays
<1>18. QED
  BY <1>6, <1>7, <1>12, <1>13, <1>14, <1>15, <1>16, <1>17 DEF FilesInv

\* With no slot left the FILE stays in hand.
LEMMA ExhaustedKeeps ==
  ASSUME FilesAssumption, FilesInv, NEW t \in Threads, Exhausted(t)
  PROVE  FilesInv'
<1>0. /\ TypeOK /\ FilesOwned /\ ActiveExact /\ StaleRejectedForACycle
      /\ HandsApart /\ UsesLocked /\ HandlesCount /\ StandardStays
  BY DEF FilesInv
<1>1. /\ pc[t] = "opened"
      /\ pc' = [pc EXCEPT ![t] = "overflow"] /\ hand' = [hand EXCEPT ![t] = hand[t]]
      /\ UNCHANGED <<tableVars, fileLock, open, held, opened, reuses, last>>
  BY DEF Exhausted, Goes
<1>2. /\ hand' = hand /\ pc'[t] = "overflow"
      /\ \A u \in Threads \ {t} : pc'[u] = pc[u]
  BY <1>0, <1>1 DEF TypeOK
<1>3. TypeOK'
  BY <1>0, <1>1, <1>2 DEF TypeOK, tableVars
<1>4. \A u \in Threads : pc'[u] \in {"opened", "overflow"} <=> pc[u] \in {"opened", "overflow"}
  BY <1>1, <1>2
<1>5. InHand' = InHand /\ Registered' = Registered
  BY <1>1, <1>2, <1>4 DEF InHand, Registered, tableVars
<1>6. FilesOwned'
  BY <1>0, <1>1, <1>5 DEF FilesOwned, tableVars
<1>7. HandsApart'
  BY <1>0, <1>1, <1>2, <1>4 DEF HandsApart, tableVars
<1>8. UsesLocked'
  BY <1>0, <1>1, <1>2, <1>5 DEF UsesLocked
<1>9. ActiveExact' /\ StaleRejectedForACycle' /\ HandlesCount' /\ StandardStays'
  BY <1>0, <1>1
     DEF ActiveExact, StaleRejectedForACycle, HandlesCount, IsStandard, StandardStays, tableVars
<1>10. QED
  BY <1>3, <1>6, <1>7, <1>8, <1>9 DEF FilesInv

\* It is closed there.
LEMMA CloseOverflowKeeps ==
  ASSUME FilesAssumption, FilesInv, NEW t \in Threads, CloseOverflow(t)
  PROVE  FilesInv'
<1> DEFINE f == hand[t]
<1>0. /\ TypeOK /\ FilesOwned /\ ActiveExact /\ StaleRejectedForACycle
      /\ HandsApart /\ UsesLocked /\ HandlesCount /\ StandardStays
  BY DEF FilesInv
<1>1. /\ pc[t] = "overflow" /\ open' = open \ {f}
      /\ pc' = [pc EXCEPT ![t] = "run"] /\ hand' = [hand EXCEPT ![t] = None]
      /\ UNCHANGED <<tableVars, fileLock, held, opened, reuses, last>>
  BY DEF CloseOverflow, Goes
<1>2. /\ pc'[t] = "run"
      /\ \A u \in Threads \ {t} : pc'[u] = pc[u] /\ hand'[u] = hand[u]
  BY <1>0, <1>1 DEF TypeOK
<1>3. TypeOK'
  BY <1>0, <1>1 DEF TypeOK, tableVars
<1>4. InHand' = InHand \ {f} /\ f \in InHand
  BY <1>0, <1>1, <1>2 DEF InHand, HandsApart
<1>5. Registered' = Registered /\ f # Standard
  <2>1. f \in 1 .. opened
    BY <1>0, <1>1 DEF HandsApart
  <2>2. QED
    BY <1>1, <2>1 DEF Registered, tableVars, Standard
<1> HIDE DEF f
<1>6. FilesOwned'
  <2>1. (\A s, u \in Slots : s # u /\ file[s] # None => file[s] # file[u])'
    BY <1>0, <1>1 DEF FilesOwned, tableVars
  <2>2. QED
    BY <1>0, <1>1, <1>4, <1>5, <2>1 DEF FilesOwned
<1>7. HandsApart'
  BY <1>0, <1>1, <1>2 DEF HandsApart, tableVars
<1>8. UsesLocked'
  BY <1>0, <1>1, <1>2, <1>5 DEF UsesLocked
<1>9. ActiveExact' /\ StaleRejectedForACycle' /\ HandlesCount' /\ StandardStays'
  BY <1>0, <1>1, <1>5
     DEF ActiveExact, StaleRejectedForACycle, HandlesCount, IsStandard, StandardStays, tableVars
<1>10. QED
  BY <1>3, <1>6, <1>7, <1>8, <1>9 DEF FilesInv

\* What a handle reaches: its own FILE, or none, until its slot has been given
\* out a whole cycle of generations.
LEMMA HandleReaches ==
  ASSUME FilesAssumption, FilesInv, NEW h \in held, FileFor(h.handle) # None
  PROVE  /\ FileFor(h.handle) \in Registered \cup {Standard}
         /\ FileFor(h.handle) \in 0 .. MaxFiles
         /\ h.file \in 0 .. MaxFiles
         /\ FileFor(h.handle) # h.file => reuses[h.file] >= Generations
         /\ h.handle # StandardHandle =>
              /\ h.handle.slot \in Slots
              /\ FileFor(h.handle) = file[h.handle.slot]
              /\ FileFor(h.handle) # Standard
<1>0. TypeOK /\ HandlesCount
  BY DEF FilesInv
<1>1. CASE IsStandard(h)
  BY <1>0, <1>1 DEF IsStandard, FileFor, Standard, TypeOK, FilesAssumption
<1>2. CASE ~ IsStandard(h)
  <2>1. /\ h.handle.slot \in Slots /\ h.file \in 0 .. MaxFiles
        /\ h.handle.generation \in 0 .. Generations - 1 /\ reuses[h.file] \in Nat
        /\ generation[h.handle.slot] = (h.handle.generation + reuses[h.file]) % Generations
        /\ reuses[h.file] = 0 => file[h.handle.slot] \in {None, h.file}
    BY <1>0, <1>2 DEF HandlesCount, TypeOK
  <2>2. h.handle # StandardHandle
    BY <2>1 DEF StandardHandle, FilesAssumption
  <2>3. /\ generation[h.handle.slot] = h.handle.generation
        /\ FileFor(h.handle) = file[h.handle.slot]
    BY <2>2 DEF FileFor
  <2>4. /\ FileFor(h.handle) \in Registered /\ FileFor(h.handle) \in 0 .. MaxFiles
        /\ FileFor(h.handle) # Standard
    BY <1>0, <2>1, <2>3 DEF Registered, TypeOK, Standard
  <2>5. ASSUME reuses[h.file] < Generations
        PROVE  reuses[h.file] = 0
    BY <2>1, <2>3, <2>5, ResidueReturns DEF FilesAssumption
  <2>6. FileFor(h.handle) # h.file => reuses[h.file] >= Generations
    BY <2>1, <2>3, <2>5 DEF FilesAssumption
  <2>7. QED
    BY <2>1, <2>3, <2>4, <2>6
<1>3. QED
  BY <1>1, <1>2

\* fread and its like take the lock and a FILE.
LEMMA LookupKeeps ==
  ASSUME FilesAssumption, FilesInv, NEW t \in Threads, Lookup(t)
  PROVE  FilesInv'
<1>0. /\ TypeOK /\ FilesOwned /\ ActiveExact /\ StaleRejectedForACycle
      /\ HandsApart /\ UsesLocked /\ HandlesCount /\ StandardStays
  BY DEF FilesInv
<1>1. PICK h \in held :
        /\ FileFor(h.handle) # None
        /\ Goes(t, "use", FileFor(h.handle))
        /\ last' = [wanted |-> h.file, got |-> FileFor(h.handle)]
  BY DEF Lookup
<1> DEFINE f == FileFor(h.handle)
<1>2. /\ f \in Registered \cup {Standard} /\ f \in 0 .. MaxFiles /\ h.file \in 0 .. MaxFiles
      /\ f # h.file => reuses[h.file] >= Generations
  BY <1>1, HandleReaches
<1> HIDE DEF f
<1>3. /\ pc[t] = "run" /\ fileLock = None /\ fileLock' = t
      /\ pc' = [pc EXCEPT ![t] = "use"] /\ hand' = [hand EXCEPT ![t] = f]
      /\ last' = [wanted |-> h.file, got |-> f]
      /\ UNCHANGED <<tableVars, open, held, opened, reuses>>
  BY <1>1 DEF Lookup, Goes, f
<1>4. /\ pc'[t] = "use" /\ hand'[t] = f
      /\ \A u \in Threads \ {t} : pc'[u] = pc[u] /\ hand'[u] = hand[u]
  BY <1>0, <1>3 DEF TypeOK
<1>5. TypeOK'
  BY <1>0, <1>2, <1>3 DEF TypeOK, tableVars
<1>6. Registered' = Registered /\ InHand' = InHand
  BY <1>3, <1>4 DEF Registered, InHand, tableVars
<1>7. FilesOwned'
  BY <1>0, <1>3, <1>6 DEF FilesOwned, tableVars
<1>8. HandsApart'
  BY <1>0, <1>3, <1>4 DEF HandsApart, tableVars
<1>9. UsesLocked'
  <2>1. \A u \in Threads : pc[u] # "use"
    BY <1>0, <1>3 DEF UsesLocked, FilesAssumption
  <2>2. QED
    BY <1>2, <1>3, <1>4, <1>6, <2>1 DEF UsesLocked
<1>10. StaleRejectedForACycle'
  BY <1>2, <1>3 DEF StaleRejectedForACycle
<1>11. ActiveExact' /\ HandlesCount' /\ StandardStays'
  BY <1>0, <1>3 DEF ActiveExact, HandlesCount, IsStandard, StandardStays, tableVars
<1>12. QED
  BY <1>5, <1>7, <1>8, <1>9, <1>10, <1>11 DEF FilesInv

LEMMA UseEndsKeeps ==
  ASSUME FilesAssumption, FilesInv, NEW t \in Threads, UseEnds(t)
  PROVE  FilesInv'
<1>0. /\ TypeOK /\ FilesOwned /\ ActiveExact /\ StaleRejectedForACycle
      /\ HandsApart /\ UsesLocked /\ HandlesCount /\ StandardStays
  BY DEF FilesInv
<1>1. /\ pc[t] = "use" /\ fileLock' = (IF fileLock = t THEN None ELSE fileLock)
      /\ pc' = [pc EXCEPT ![t] = "run"] /\ hand' = [hand EXCEPT ![t] = None]
      /\ UNCHANGED <<tableVars, open, held, opened, reuses, last>>
  BY DEF UseEnds, Goes
<1>2. /\ pc'[t] = "run"
      /\ \A u \in Threads \ {t} : pc'[u] = pc[u] /\ hand'[u] = hand[u]
  BY <1>0, <1>1 DEF TypeOK
<1>3. TypeOK'
  BY <1>0, <1>1 DEF TypeOK, tableVars
<1>4. Registered' = Registered /\ InHand' = InHand
  BY <1>1, <1>2 DEF Registered, InHand, tableVars
<1>5. FilesOwned'
  BY <1>0, <1>1, <1>4 DEF FilesOwned, tableVars
<1>6. HandsApart'
  BY <1>0, <1>1, <1>2 DEF HandsApart, tableVars
<1>7. UsesLocked'
  BY <1>0, <1>1, <1>2, <1>4 DEF UsesLocked
<1>8. ActiveExact' /\ StaleRejectedForACycle' /\ HandlesCount' /\ StandardStays'
  BY <1>0, <1>1
     DEF ActiveExact, StaleRejectedForACycle, HandlesCount, IsStandard, StandardStays, tableVars
<1>9. QED
  BY <1>3, <1>5, <1>6, <1>7, <1>8 DEF FilesInv

\* fclose: nobody uses the FILE, because nobody has the lock.
LEMMA CloseKeeps ==
  ASSUME FilesAssumption, FilesInv, NEW t \in Threads, Close(t)
  PROVE  FilesInv'
<1>0. /\ TypeOK /\ FilesOwned /\ ActiveExact /\ StaleRejectedForACycle
      /\ HandsApart /\ UsesLocked /\ HandlesCount /\ StandardStays
  BY DEF FilesInv
<1>1. PICK h \in held :
        /\ FileFor(h.handle) # None
        /\ h.handle = StandardHandle => ClosesStandard
        /\ open' = open \ {FileFor(h.handle)}
        /\ last' = [wanted |-> h.file, got |-> FileFor(h.handle)]
        /\ IF h.handle = StandardHandle THEN UNCHANGED <<file, active>>
           ELSE /\ file' = [file EXCEPT ![h.handle.slot] = None]
                /\ active' = IF active > 0 THEN active - 1 ELSE 0
  BY DEF Close
<1> DEFINE f == FileFor(h.handle)
           s == h.handle.slot
<1>2. /\ f \in Registered \cup {Standard} /\ f \in 0 .. MaxFiles /\ h.file \in 0 .. MaxFiles
      /\ f # h.file => reuses[h.file] >= Generations
      /\ h.handle # StandardHandle => s \in Slots /\ f = file[s] /\ f # Standard
      /\ f # None
  BY <1>1, HandleReaches
<1>3. h.handle = StandardHandle => f = Standard
  BY DEF FileFor
<1> HIDE DEF f
<1>4. /\ pc[t] = "run" /\ fileLock = None
      /\ open' = open \ {f}
      /\ last' = [wanted |-> h.file, got |-> f]
      /\ h.handle = StandardHandle => ClosesStandard /\ UNCHANGED <<file, active>>
      /\ h.handle # StandardHandle =>
           /\ file' = [file EXCEPT ![s] = None]
           /\ active' = IF active > 0 THEN active - 1 ELSE 0
      /\ UNCHANGED <<generation, nextIndex, fileLock, pc, hand, held, opened, reuses>>
  BY <1>1 DEF Close, f
<1>5. \A u \in Threads : pc'[u] # "use"
  BY <1>0, <1>4 DEF UsesLocked, FilesAssumption
<1>6. InHand' = InHand
  BY <1>4 DEF InHand
<1>7. UsesLocked'
  BY <1>5 DEF UsesLocked
<1>8. StaleRejectedForACycle'
  BY <1>2, <1>4 DEF StaleRejectedForACycle
<1>9. CASE h.handle = StandardHandle
  <2>1. TypeOK'
    BY <1>0, <1>2, <1>4, <1>9 DEF TypeOK
  <2>2. Registered' = Registered
    BY <1>4, <1>9 DEF Registered
  <2>3. FilesOwned'
    BY <1>0, <1>3, <1>4, <1>6, <1>9, <2>2 DEF FilesOwned
  <2>4. ActiveExact' /\ HandsApart' /\ HandlesCount' /\ StandardStays'
    BY <1>0, <1>4, <1>9 DEF ActiveExact, HandsApart, HandlesCount, IsStandard, StandardStays
  <2>5. QED
    BY <1>7, <1>8, <2>1, <2>3, <2>4 DEF FilesInv
<1>10. CASE h.handle # StandardHandle
  <2>1. /\ s \in Slots /\ file[s] = f /\ f # None /\ f # Standard
        /\ file' = [file EXCEPT ![s] = None]
    BY <1>2, <1>4, <1>10
  <2>2. /\ active > 0 /\ active - 1 = Cardinality({u \in Slots : file'[u] # None})
        /\ active - 1 \in 0 .. Capacity
    BY <1>0, <2>1, SlotGiven
  <2>3. active' = active - 1
    BY <1>4, <1>10, <2>2
  <2> HIDE DEF s
  <2>4. file'[s] = None /\ \A u \in Slots \ {s} : file'[u] = file[u]
    BY <1>0, <2>1 DEF TypeOK
  <2>5. TypeOK'
    <3>1. file' \in [Slots -> (1 .. MaxFiles) \cup {None}]
      BY <1>0, <2>1 DEF TypeOK
    <3>2. active' \in 0 .. Capacity
      BY <2>2, <2>3
    <3>3. QED
      BY <1>0, <1>2, <1>4, <3>1, <3>2 DEF TypeOK
  <2>6. ActiveExact'
    BY <2>2, <2>3 DEF ActiveExact
  <2>7. \A u \in Slots \ {s} : file[u] # f
    BY <1>0, <2>1 DEF FilesOwned
  <2>8. Registered' = Registered \ {f} /\ f \in Registered
    BY <2>1, <2>4, <2>7 DEF Registered
  <2>9. FilesOwned'
    <3>1. (\A u, v \in Slots : u # v /\ file[u] # None => file[u] # file[v])'
      BY <1>0, <2>4 DEF FilesOwned
    <3>2. QED
      BY <1>0, <1>4, <1>6, <2>8, <3>1 DEF FilesOwned
  <2>10. HandsApart'
    BY <1>0, <1>4, <2>4 DEF HandsApart
  <2>11. HandlesCount'
    <3>1. \A u \in Slots : file'[u] \in {None, file[u]}
      BY <2>4
    <3>2. QED
      BY <1>0, <1>4, <3>1 DEF HandlesCount, IsStandard
  <2>12. StandardStays'
    BY <1>0, <1>4, <2>1 DEF StandardStays
  <2>13. QED
    BY <1>7, <1>8, <2>5, <2>6, <2>9, <2>10, <2>11, <2>12 DEF FilesInv
<1>11. QED
  BY <1>9, <1>10

-----------------------------------------------------------------------------
(* The theorems *)

\* The inductive invariant of the FILE handles: every FILE has one owner, every
\* use has the lock, and every handle counts its slot's generations.
THEOREM FilesInvariant == FilesAssumption => (Spec => []FilesInv)
<1> SUFFICES ASSUME FilesAssumption
             PROVE  Spec => []FilesInv
  OBVIOUS
<1>1. Init => FilesInv
  <2> SUFFICES ASSUME Init
               PROVE  FilesInv
    OBVIOUS
  <2>1. TypeOK
    BY DEF Init, TypeOK, FilesAssumption, Slots, Standard, Unused, NoUse, StandardHandle
  <2>2. Registered = {} /\ InHand = {} /\ InUseSlots = {}
    BY DEF Init, Registered, InHand, InUseSlots
  <2>3. FilesOwned
    BY <2>2 DEF Init, FilesOwned
  <2>4. ActiveExact
    BY <2>2, FS_EmptySet DEF Init, ActiveExact, InUseSlots
  <2>5. StaleRejectedForACycle /\ HandsApart /\ UsesLocked /\ StandardStays
    BY DEF Init, StaleRejectedForACycle, NoUse, HandsApart, UsesLocked, StandardStays
  <2>6. HandlesCount
    BY DEF Init, HandlesCount, IsStandard
  <2>7. QED
    BY <2>1, <2>3, <2>4, <2>5, <2>6 DEF FilesInv
<1>2. FilesInv /\ [Next]_vars => FilesInv'
  <2> SUFFICES ASSUME FilesInv, [Next]_vars
               PROVE  FilesInv'
    OBVIOUS
  <2>1. ASSUME NEW t \in Threads, Step(t)
        PROVE  FilesInv'
    BY <2>1, HostOpenKeeps, RegisterKeeps, ExhaustedKeeps, CloseOverflowKeeps, LookupKeeps,
       UseEndsKeeps, CloseKeeps DEF Step
  <2>2. CASE UNCHANGED vars
    <3>1. UNCHANGED <<generation, file, nextIndex, active, fileLock, open, pc, hand, held,
                      opened, reuses, last>>
      BY <2>2 DEF vars, tableVars
    <3>2. Registered' = Registered /\ InHand' = InHand
      BY <3>1 DEF Registered, InHand
    <3>3. TypeOK' /\ FilesOwned' /\ UsesLocked'
      BY <3>1, <3>2 DEF FilesInv, TypeOK, FilesOwned, UsesLocked
    <3>4. ActiveExact' /\ StaleRejectedForACycle' /\ HandsApart'
      BY <3>1 DEF FilesInv, ActiveExact, StaleRejectedForACycle, HandsApart
    <3>5. HandlesCount' /\ StandardStays'
      BY <3>1 DEF FilesInv, HandlesCount, IsStandard, StandardStays
    <3>6. QED
      BY <3>3, <3>4, <3>5 DEF FilesInv
  <2>3. QED
    BY <2>1, <2>2 DEF Next
<1>3. QED
  BY <1>1, <1>2, PTL DEF Spec

\* guest_handle_for_file, lock_host_file_for_guest and guest_close_file, whatever
\* the interleaving: a FILE has one owner, the count is exact, a stale handle is
\* rejected for a cycle, and no FILE is used after it is closed, as long as the
\* guest closes no standard stream (GuestFiles_standard.cfg shows what happens
\* when it does).
THEOREM FilesAreSound ==
  FilesAssumption /\ ClosesStandard = FALSE => (Spec => []FilesSound)
<1> SUFFICES ASSUME FilesAssumption, ClosesStandard = FALSE
             PROVE  Spec => []FilesSound
  OBVIOUS
<1>1. FilesInv => FilesSound
  <2> SUFFICES ASSUME FilesInv
               PROVE  FilesSound
    OBVIOUS
  <2>1. /\ TypeOK /\ FilesOwned /\ ActiveExact /\ StaleRejectedForACycle
        /\ UsesLocked /\ StandardStays
    BY DEF FilesInv
  <2>2. Registered \cup {Standard} \subseteq open
    BY <2>1 DEF FilesOwned, StandardStays
  <2>3. NoUseAfterClose
    BY <2>1, <2>2 DEF NoUseAfterClose, UsesLocked
  <2>4. QED
    BY <2>1, <2>3 DEF FilesSound
<1>2. QED
  BY <1>1, FilesInvariant, PTL

-----------------------------------------------------------------------------
(* The heap's inductive invariant.  Up to the cursor there are blocks of   *)
(* three kinds: those of L are the guest's, those of F are free, and those *)
(* of X, if any, are in the hands of the call that is being made.          *)
Cells == [size : 0 .. HeapEnd, magic : {"none", "live", "free"}, capacity : 0 .. HeapEnd \cup {Mark},
          word : 0 .. HeapEnd \cup Sites \cup Owners]
Heaps == [mem : [Units -> Cells], cursor : Base .. HeapEnd, bins : [Bins -> Seq(Units)],
          live : Seq([site : Sites, bytes : Int]), reusable : Int]

Tiled(h, B) ==
  /\ B \subseteq Base .. h.cursor - 1 /\ Base \in B \cup {h.cursor}
  /\ \A a \in B : IsCapacity(h.mem[a].capacity) /\ EndIn(h, a) \in B \cup {h.cursor}
  /\ \A a, b \in B : a < b => EndIn(h, a) <= b

\* A stale header is never that of a live block, and may be that of a free one.
Tagged(h, L, F) ==
  /\ \A u \in Units : h.mem[u].magic = "live" <=> u \in L
  /\ \A a \in F : h.mem[a].magic = "free"

\* A free block repeats its capacity in its last unit.
Footed(h, F) ==
  \A a \in F : LET c == h.mem[a].capacity
              IN h.mem[a + c].capacity = Mark /\ h.mem[a + c].word = c

\* The bins have the free blocks and no others, each of them once.
Binned(h, F) ==
  /\ \A b \in Bins : /\ Elements(h.bins[b]) = {a \in F : Bin(h.mem[a].capacity) = b}
                     /\ Distinct(h.bins[b])
  /\ h.reusable = SumOver(F, [a \in Units |-> h.mem[a].capacity])

Blocks(h, L, F, X) ==
  /\ h \in Heaps
  /\ L \cap F = {} /\ X \cap (L \cup F) = {}
  /\ Tiled(h, L \cup F \cup X) /\ Tagged(h, L, F)
  /\ flags.reuse => Footed(h, F) /\ Binned(h, F) /\ \A a \in F : EndIn(h, a) \in L \cup X

\* A site without an account is one there was no room for, or that has no block.
Booked(h, L) ==
  /\ \A a \in L : h.mem[a].size < h.mem[a].capacity /\ h.mem[a].word \in Sites
  /\ Len(h.live) <= SiteCapacity
  /\ Len(h.live) < SiteCapacity =>
       \A a \in L : \E i \in DOMAIN h.live : h.live[i].site = h.mem[a].word
  /\ \A i \in DOMAIN h.live :
       /\ \A j \in DOMAIN h.live : h.live[i].site = h.live[j].site => i = j
       /\ h.live[i].bytes = SumOver({a \in L : h.mem[a].word = h.live[i].site},
                                    [a \in Units |-> h.mem[a].size])

Whole(h, L, F) == Blocks(h, L, F, {}) /\ Booked(h, L)

Moving(o) == call[o].at \in {"copy", "drop"}

CallsTyped ==
  /\ flags \in [reuse : BOOLEAN, poison : BOOLEAN]
  /\ block \in [Owners -> Units \cup {NoBlock}]
  /\ kept \in [Owners -> Nat]
  /\ call \in [Owners -> [at : {"none", "clear", "move", "copy", "drop"}, size : Nat,
                          site : Sites \cup {0}, old : Int]]

\* No two owners have a block in common, nor one of them the one it moves from.
OwnersApart ==
  /\ \A o, p \in Owners : block[o] = block[p] /\ o # p => block[o] = NoBlock
  /\ \A o \in Owners : Moving(o) =>
       /\ call[o].old \in Units
       /\ \A p \in Owners : call[o].old # block[p] /\ (Moving(p) /\ call[p].old = call[o].old => p = o)

\* What is kept is not more than the block holds that it lies in.
CallsMatch ==
  \A o \in Owners :
    /\ block[o] = NoBlock => call[o].at = "none" /\ kept[o] = 0
    /\ block[o] # NoBlock /\ call[o].at # "copy" => kept[o] <= heap.mem[block[o]].size
    /\ call[o].at = "clear" => kept[o] = 0
    /\ call[o].at = "move" => /\ call[o].old = heap.mem[block[o]].size /\ call[o].site \in Sites
                              /\ call[o].size > call[o].old
    /\ call[o].at = "copy" => /\ kept[o] <= call[o].size /\ call[o].size <= heap.mem[block[o]].size
                              /\ call[o].size = heap.mem[call[o].old].size

HeapInv ==
  /\ \E F \in SUBSET Units : Whole(heap, Owned, F)
  /\ CallsTyped /\ OwnersApart /\ CallsMatch /\ ContentKept

-----------------------------------------------------------------------------
(* Sums over sets of units *)

LEMMA UpTo ==
  ASSUME NEW n \in Nat, NEW S, 0 \in S, \A i \in 0 .. n - 1 : i \in S => i + 1 \in S
  PROVE  0 .. n \subseteq S
<1> DEFINE T == {i \in 0 .. n : i \notin S}
<1>1. SUFFICES ASSUME T # {} PROVE FALSE
  OBVIOUS
<1>2. PICK x \in T : \A y \in T : x <= y
  <2>1. T \subseteq Nat
    OBVIOUS
  <2>2. QED
    BY <1>1, <2>1, LeastExists
<1>3. x \in Nat /\ x # 0 /\ x <= n
  BY <1>2
<1>4. x - 1 \in 0 .. n - 1 /\ x - 1 \notin T
  BY <1>2, <1>3
<1>5. x - 1 \in S
  BY <1>4
<1>6. QED
  BY <1>2, <1>3, <1>4, <1>5

Part(S, f, n) == IF n \in S THEN f[n] ELSE 0

SumsTo(s, n, S, f) ==
  s = [i \in 0 .. n |-> IF i = 0 THEN 0 ELSE s[i - 1] + (IF i - 1 \in S THEN f[i - 1] ELSE 0)]

LEMMA SumsExist ==
  ASSUME NEW n \in Nat, NEW S, NEW f
  PROVE  \E s : SumsTo(s, n, S, f)
<1> DEFINE T == {k \in 0 .. n : \E s : SumsTo(s, k, S, f)}
<1>1. 0 \in T
  <2> DEFINE s == [i \in 0 .. 0 |-> 0]
  <2>1. SumsTo(s, 0, S, f)
    BY DEF SumsTo
  <2>2. QED
    BY <2>1
<1>2. ASSUME NEW k \in 0 .. n - 1, k \in T PROVE k + 1 \in T
  <2>1. PICK s : SumsTo(s, k, S, f)
    BY <1>2
  <2> DEFINE h == [i \in 0 .. k + 1 |-> IF i <= k THEN s[i] ELSE s[k] + Part(S, f, k)]
  <2>2. ASSUME NEW i \in 0 .. k + 1
        PROVE  h[i] = IF i = 0 THEN 0 ELSE h[i - 1] + (IF i - 1 \in S THEN f[i - 1] ELSE 0)
    <3>1. CASE i = 0
      <4>1. s[0] = 0
        BY <2>1 DEF SumsTo
      <4>2. h[i] = s[0]
        BY <3>1
      <4>3. QED
        BY <3>1, <4>1, <4>2
    <3>2. CASE i \in 1 .. k
      <4>1. s[i] = s[i - 1] + (IF i - 1 \in S THEN f[i - 1] ELSE 0)
        BY <2>1, <3>2 DEF SumsTo
      <4>2. h[i] = s[i] /\ h[i - 1] = s[i - 1]
        BY <3>2
      <4>3. QED
        BY <3>2, <4>1, <4>2
    <3>3. CASE i = k + 1
      <4>1. h[i] = s[k] + Part(S, f, i - 1) /\ h[i - 1] = s[k] /\ i # 0
        BY <3>3
      <4>2. QED
        BY <4>1 DEF Part
    <3>4. QED
      BY <3>1, <3>2, <3>3
  <2>3. h = [i \in 0 .. k + 1 |->
              IF i = 0 THEN 0 ELSE h[i - 1] + (IF i - 1 \in S THEN f[i - 1] ELSE 0)]
    <3> HIDE DEF h
    <3>1. h = [i \in 0 .. k + 1 |-> h[i]]
      BY DEF h
    <3>2. QED
      BY <2>2, <3>1, Zenon
  <2>4. SumsTo(h, k + 1, S, f)
    BY <2>3 DEF SumsTo
  <2>5. QED
    BY <2>4
<1>3. 0 .. n \subseteq T
  <2> HIDE DEF T
  <2>1. QED
    BY <1>1, <1>2, UpTo
<1>4. QED
  BY <1>3

\* A sum begins at 0 and takes in one unit after the other.
LEMMA SumsAre ==
  ASSUME HeapEnd \in Nat, NEW S, NEW f
  PROVE  /\ Sums(S, f)[0] = 0
         /\ \A i \in 1 .. HeapEnd : Sums(S, f)[i] = Sums(S, f)[i - 1] + Part(S, f, i - 1)
<1>1. PICK s : s = Sums(S, f)
  OBVIOUS
<1>2. SumsTo(s, HeapEnd, S, f)
  <2>1. \E r : SumsTo(r, HeapEnd, S, f)
    BY SumsExist
  <2>2. QED
    BY <1>1, <2>1, Zenon DEF SumsTo, Sums
<1>3. s[0] = 0
  BY <1>2 DEF SumsTo
<1>4. ASSUME NEW i \in 1 .. HeapEnd PROVE s[i] = s[i - 1] + Part(S, f, i - 1)
  <2>1. i \in 0 .. HeapEnd /\ i # 0
    OBVIOUS
  <2>2. s[i] = IF i = 0 THEN 0 ELSE s[i - 1] + (IF i - 1 \in S THEN f[i - 1] ELSE 0)
    BY <1>2, <2>1, Zenon DEF SumsTo
  <2>3. QED
    BY <2>1, <2>2 DEF Part
<1>5. QED
  BY <1>1, <1>3, <1>4

Summed(S, f) == \A u \in Units : u \in S => f[u] \in Int

LEMMA SumsInt ==
  ASSUME HeapEnd \in Nat, NEW S, NEW f, Summed(S, f)
  PROVE  \A i \in 0 .. HeapEnd : Sums(S, f)[i] \in Int
<1> DEFINE s == Sums(S, f)
           T == {k \in 0 .. HeapEnd : s[k] \in Int}
<1> HIDE DEF s
<1>1. 0 \in T
  BY SumsAre DEF s
<1>2. ASSUME NEW k \in 0 .. HeapEnd - 1, k \in T PROVE k + 1 \in T
  <2>1. k + 1 \in 1 .. HeapEnd /\ k \in Units
    BY DEF Units, Base
  <2>2. s[k + 1] = s[k + 1 - 1] + Part(S, f, k + 1 - 1)
    BY <2>1, SumsAre DEF s
  <2>3. Part(S, f, k) \in Int
    BY <2>1 DEF Part, Summed
  <2>4. QED
    BY <1>2, <2>1, <2>2, <2>3
<1>3. 0 .. HeapEnd \subseteq T
  <2> HIDE DEF T
  <2>1. QED
    BY <1>1, <1>2, UpTo
<1>4. QED
  BY <1>3 DEF s

LEMMA SumInt ==
  ASSUME HeapEnd \in Nat, NEW S, NEW f, Summed(S, f)
  PROVE  SumOver(S, f) \in Int
BY SumsInt DEF SumOver

\* A sum of S is one of R with so much more as lies between them at x.
LEMMA SumsDiffer ==
  ASSUME HeapEnd \in Nat, NEW S, NEW f, Summed(S, f), NEW R, NEW g, Summed(R, g),
         NEW x \in Units, NEW d \in Int,
         Part(S, f, x) = Part(R, g, x) + d,
         \A u \in Units \ {x} : Part(S, f, u) = Part(R, g, u)
  PROVE  SumOver(S, f) = SumOver(R, g) + d
<1> DEFINE s == Sums(S, f)
           r == Sums(R, g)
           T == {k \in 0 .. HeapEnd : s[k] = r[k] + (IF k > x THEN d ELSE 0)}
<1> HIDE DEF s, r
<1>1. 0 \in T
  <2>1. s[0] = 0 /\ r[0] = 0 /\ ~ 0 > x
    BY SumsAre DEF s, r, Units, Base
  <2>2. QED
    BY <2>1
<1>2. ASSUME NEW k \in 0 .. HeapEnd - 1, k \in T PROVE k + 1 \in T
  <2>1. k + 1 \in 1 .. HeapEnd /\ k \in Units
    BY DEF Units, Base
  <2>2. s[k + 1] = s[k + 1 - 1] + Part(S, f, k + 1 - 1) /\ r[k + 1] = r[k + 1 - 1] + Part(R, g, k + 1 - 1)
    BY <2>1, SumsAre DEF s, r
  <2>3. Part(S, f, k) \in Int /\ Part(R, g, k) \in Int
    BY <2>1 DEF Part, Summed
  <2>4. s[k] \in Int /\ r[k] \in Int
    BY SumsInt DEF s, r
  <2>5. Part(S, f, k) = Part(R, g, k) + (IF k = x THEN d ELSE 0)
    BY <2>1, <2>3
  <2>6. x \in Int
    BY DEF Units, Base
  <2>7. QED
    BY <1>2, <2>1, <2>2, <2>3, <2>4, <2>5, <2>6
<1>3. 0 .. HeapEnd \subseteq T
  <2> HIDE DEF T
  <2>1. QED
    BY <1>1, <1>2, UpTo
<1>4. s[HeapEnd] = r[HeapEnd] + d
  BY <1>3 DEF Units, Base
<1>5. QED
  BY <1>4 DEF s, r, SumOver

\* It is a matter of what lies in the set only.
LEMMA SumSame ==
  ASSUME HeapEnd \in Nat, NEW S, NEW f, Summed(S, f), NEW g, \A u \in S \cap Units : g[u] = f[u]
  PROVE  SumOver(S, g) = SumOver(S, f)
<1>1. CASE HeapEnd = 0
  BY <1>1, SumsAre DEF SumOver
<1>2. CASE HeapEnd # 0
  <2>1. 0 \in Units
    BY <1>2 DEF Units, Base
  <2>2. Summed(S, g)
    BY DEF Summed
  <2>3. \A u \in Units : Part(S, g, u) = Part(S, f, u) /\ Part(S, f, u) \in Int
    BY DEF Part, Summed
  <2>4. SumOver(S, g) = SumOver(S, f) + 0
    BY <2>1, <2>2, <2>3, SumsDiffer
  <2>5. QED
    BY <2>4, SumInt
<1>3. QED
  BY <1>1, <1>2

LEMMA SumEmpty ==
  ASSUME HeapEnd \in Nat, NEW f
  PROVE  SumOver({}, f) = 0
<1> DEFINE s == Sums({}, f)
           T == {k \in 0 .. HeapEnd : s[k] = 0}
<1> HIDE DEF s
<1>1. 0 \in T
  BY SumsAre DEF s
<1>2. ASSUME NEW k \in 0 .. HeapEnd - 1, k \in T PROVE k + 1 \in T
  <2>1. k + 1 \in 1 .. HeapEnd
    OBVIOUS
  <2>2. s[k + 1] = s[k + 1 - 1] + Part({}, f, k + 1 - 1)
    BY <2>1, SumsAre DEF s
  <2>3. QED
    BY <1>2, <2>1, <2>2 DEF Part
<1>3. 0 .. HeapEnd \subseteq T
  <2> HIDE DEF T
  <2>1. QED
    BY <1>1, <1>2, UpTo
<1>4. QED
  BY <1>3 DEF s, SumOver

\* One unit less.
LEMMA SumWithout ==
  ASSUME HeapEnd \in Nat, NEW S, NEW f, Summed(S, f), NEW x \in Units, x \in S
  PROVE  SumOver(S \ {x}, f) = SumOver(S, f) - f[x]
<1>1. Summed(S \ {x}, f)
  BY DEF Summed
<1>2. f[x] \in Int
  BY DEF Summed
<1>3. SumOver(S, f) = SumOver(S \ {x}, f) + f[x]
  <2>1. Part(S, f, x) = Part(S \ {x}, f, x) + f[x]
    BY <1>2 DEF Part
  <2>2. \A u \in Units \ {x} : Part(S, f, u) = Part(S \ {x}, f, u)
    BY DEF Part
  <2>3. QED
    BY <1>1, <1>2, <2>1, <2>2, SumsDiffer
<1>4. QED
  BY <1>1, <1>2, <1>3, SumInt

\* One unit more.
LEMMA SumWith ==
  ASSUME HeapEnd \in Nat, NEW S, NEW f, Summed(S, f), NEW x \in Units, x \notin S, f[x] \in Int
  PROVE  SumOver(S \cup {x}, f) = SumOver(S, f) + f[x]
<1>1. Summed(S \cup {x}, f)
  BY DEF Summed
<1>2. SumOver((S \cup {x}) \ {x}, f) = SumOver(S \cup {x}, f) - f[x]
  BY <1>1, SumWithout
<1>3. (S \cup {x}) \ {x} = S
  OBVIOUS
<1>4. SumOver(S, f) = SumOver(S \cup {x}, f) - f[x]
  BY <1>2, <1>3
<1>5. SumOver(S \cup {x}, f) \in Int
  BY <1>1, SumInt
<1>6. QED
  BY <1>4, <1>5

\* A unit whose value changes.
LEMMA SumChanges ==
  ASSUME HeapEnd \in Nat, NEW S, NEW f, Summed(S, f), NEW g, Summed(S, g), NEW x \in Units, x \in S,
         \A u \in (S \cap Units) \ {x} : g[u] = f[u]
  PROVE  SumOver(S, g) = SumOver(S, f) + (g[x] - f[x])
<1>1. g[x] \in Int /\ f[x] \in Int
  BY DEF Summed
<1>2. PICK d \in Int : d = g[x] - f[x]
  BY <1>1
<1>3. Part(S, g, x) = Part(S, f, x) + d
  BY <1>1, <1>2 DEF Part
<1>4. \A u \in Units \ {x} : Part(S, g, u) = Part(S, f, u)
  BY DEF Part
<1>5. SumOver(S, g) = SumOver(S, f) + d
  BY <1>3, <1>4, SumsDiffer
<1>6. QED
  BY <1>2, <1>5

-----------------------------------------------------------------------------
(* Blocks end to end *)

LEMMA CellIs ==
  ASSUME NEW c \in Cells
  PROVE  /\ c = [size |-> c.size, magic |-> c.magic, capacity |-> c.capacity, word |-> c.word]
         /\ c.size \in 0 .. HeapEnd /\ c.magic \in {"none", "live", "free"}
         /\ c.capacity \in 0 .. HeapEnd \cup {Mark}
         /\ c.word \in 0 .. HeapEnd \cup Sites \cup Owners
BY DEF Cells

LEMMA HeapIs ==
  ASSUME NEW h \in Heaps
  PROVE  /\ h.mem \in [Units -> Cells] /\ h.cursor \in 0 .. HeapEnd
         /\ h.bins \in [Bins -> Seq(Units)]
         /\ h.live \in Seq([site : Sites, bytes : Int]) /\ h.reusable \in Int
         /\ h = [mem |-> h.mem, cursor |-> h.cursor, bins |-> h.bins, live |-> h.live,
                 reusable |-> h.reusable]
BY DEF Heaps, Base

LEMMA TiledIs ==
  ASSUME HeapEnd \in Nat, NEW h, h.cursor \in 0 .. HeapEnd, NEW B, Tiled(h, B), NEW a \in B
  PROVE  /\ a \in Units /\ a \in Nat /\ a < h.cursor /\ h.cursor <= HeapEnd
         /\ h.mem[a].capacity \in 2 .. HeapEnd
         /\ EndIn(h, a) = a + 1 + h.mem[a].capacity /\ EndIn(h, a) \in Nat
         /\ EndIn(h, a) <= h.cursor /\ EndIn(h, a) \in B \cup {h.cursor}
BY DEF Tiled, EndIn, IsCapacity, SmallestCapacity, Units, Base

LEMMA TiledApart ==
  ASSUME HeapEnd \in Nat, NEW h, h.cursor \in 0 .. HeapEnd, NEW B, Tiled(h, B), NEW a \in B, NEW b \in B, a # b
  PROVE  EndIn(h, a) <= b \/ EndIn(h, b) <= a
<1>1. a \in Nat /\ b \in Nat
  BY TiledIs
<1>2. QED
  BY <1>1 DEF Tiled

\* Two blocks do not end at one place.
LEMMA EndsOnce ==
  ASSUME HeapEnd \in Nat, NEW h, h.cursor \in 0 .. HeapEnd, NEW B, Tiled(h, B), NEW a \in B, NEW b \in B,
         EndIn(h, a) = EndIn(h, b)
  PROVE  a = b
BY TiledIs, TiledApart

LEMMA Retiles ==
  ASSUME NEW h, NEW B, Tiled(h, B), NEW g, g.cursor = h.cursor,
         \A a \in B : g.mem[a].capacity = h.mem[a].capacity
  PROVE  Tiled(g, B)
BY DEF Tiled, EndIn

\* A block and the next one become one.
LEMMA Joined ==
  ASSUME HeapEnd \in Nat, NEW h, h.cursor \in 0 .. HeapEnd, NEW B, Tiled(h, B),
         NEW a \in B, NEW b \in B, EndIn(h, a) = b, NEW g, g.cursor = h.cursor,
         \A c \in B \ {a, b} : g.mem[c].capacity = h.mem[c].capacity,
         g.mem[a].capacity = h.mem[a].capacity + 1 + h.mem[b].capacity
  PROVE  Tiled(g, B \ {b}) /\ EndIn(g, a) = EndIn(h, b)
<1>1. /\ \A c \in B : c \in Nat /\ c < h.cursor /\ h.mem[c].capacity \in 2 .. HeapEnd
                      /\ EndIn(h, c) = c + 1 + h.mem[c].capacity /\ EndIn(h, c) <= h.cursor
                      /\ EndIn(h, c) \in B \cup {h.cursor}
      /\ h.cursor <= HeapEnd
  BY TiledIs
<1>2. EndIn(g, a) = EndIn(h, b)
  BY <1>1 DEF EndIn
<1>3. \A c \in B \ {a, b} : EndIn(g, c) = EndIn(h, c) /\ EndIn(g, c) # b
  <2>1. \A c \in B \ {a} : EndIn(h, c) # b
    BY EndsOnce
  <2>2. QED
    BY <2>1 DEF EndIn
<1>4. B \ {b} \subseteq Base .. g.cursor - 1 /\ Base \in (B \ {b}) \cup {g.cursor}
  BY <1>1 DEF Tiled, Base
<1>5. ASSUME NEW c \in B \ {b}
      PROVE  IsCapacity(g.mem[c].capacity) /\ EndIn(g, c) \in (B \ {b}) \cup {g.cursor}
  <2>1. CASE c = a
    <3>1. g.mem[a].capacity \in 2 .. HeapEnd
      BY <1>1
    <3>2. EndIn(h, b) # b
      BY <1>1
    <3>3. QED
      BY <1>1, <1>2, <2>1, <3>1, <3>2 DEF IsCapacity, SmallestCapacity
  <2>2. CASE c # a
    BY <1>1, <1>3, <2>2 DEF IsCapacity, SmallestCapacity
  <2>3. QED
    BY <2>1, <2>2
<1>6. ASSUME NEW c \in B \ {b}, NEW d \in B \ {b}, c < d PROVE EndIn(g, c) <= d
  <2>1. CASE c = a
    <3>1. EndIn(h, a) <= d
      BY <1>6, <2>1 DEF Tiled
    <3>2. b < d
      BY <1>1, <3>1
    <3>3. EndIn(h, b) <= d
      BY <3>2 DEF Tiled
    <3>4. QED
      BY <1>2, <2>1, <3>3
  <2>2. CASE c # a
    BY <1>3, <1>6, <2>2 DEF Tiled
  <2>3. QED
    BY <2>1, <2>2
<1>7. QED
  BY <1>2, <1>4, <1>5, <1>6 DEF Tiled

\* A block of capacity n and the rest, of what there was.
Parts(g, h, a, n, r) ==
  /\ n \in 2 .. HeapEnd /\ h.mem[a].capacity - n - 1 >= 2 /\ r = a + 1 + n
  /\ g.mem[a].capacity = n /\ g.mem[r].capacity = h.mem[a].capacity - n - 1

\* A block is divided in two.
LEMMA Divided ==
  ASSUME HeapEnd \in Nat, NEW h, h.cursor \in 0 .. HeapEnd, NEW B, Tiled(h, B),
         NEW a \in B, NEW n, NEW r, NEW g, g.cursor = h.cursor, Parts(g, h, a, n, r),
         \A c \in B \ {a} : g.mem[c].capacity = h.mem[c].capacity
  PROVE  /\ Tiled(g, B \cup {r}) /\ r \notin B
         /\ EndIn(g, a) = r /\ EndIn(g, r) = EndIn(h, a)
<1>0. /\ n \in 2 .. HeapEnd /\ h.mem[a].capacity - n - 1 >= 2 /\ r = a + 1 + n
      /\ g.mem[a].capacity = n /\ g.mem[r].capacity = h.mem[a].capacity - n - 1
  BY DEF Parts
<1>1. /\ \A c \in B : c \in Nat /\ c < h.cursor /\ h.mem[c].capacity \in 2 .. HeapEnd
                      /\ EndIn(h, c) = c + 1 + h.mem[c].capacity /\ EndIn(h, c) <= h.cursor
                      /\ EndIn(h, c) \in B \cup {h.cursor}
      /\ h.cursor <= HeapEnd
  BY TiledIs
<1>2. EndIn(g, a) = r /\ EndIn(g, r) = EndIn(h, a) /\ r \in Nat /\ a < r /\ r < EndIn(h, a)
  BY <1>0, <1>1 DEF EndIn
<1>3. r \notin B
  BY <1>1, <1>2 DEF Tiled
<1>4. \A c \in B \ {a} : EndIn(g, c) = EndIn(h, c)
  BY DEF EndIn
<1>5. B \cup {r} \subseteq Base .. g.cursor - 1 /\ Base \in B \cup {r} \cup {g.cursor}
  BY <1>1, <1>2 DEF Tiled, Base
<1>6. ASSUME NEW c \in B \cup {r}
      PROVE  IsCapacity(g.mem[c].capacity) /\ EndIn(g, c) \in B \cup {r} \cup {g.cursor}
  <2>1. CASE c = a
    BY <1>0, <1>1, <1>2, <2>1 DEF IsCapacity, SmallestCapacity
  <2>2. CASE c = r
    <3>1. g.mem[r].capacity \in 2 .. HeapEnd
      BY <1>0, <1>1
    <3>2. QED
      BY <1>1, <1>2, <2>2, <3>1 DEF IsCapacity, SmallestCapacity
  <2>3. CASE c \in B \ {a}
    BY <1>1, <1>4, <2>3 DEF IsCapacity, SmallestCapacity
  <2>4. QED
    BY <2>1, <2>2, <2>3
<1>7. ASSUME NEW c \in B \cup {r}, NEW d \in B \cup {r}, c < d PROVE EndIn(g, c) <= d
  <2>1. \A e \in B : a < e => EndIn(h, a) <= e
    BY DEF Tiled
  <2>2. CASE c = a
    BY <1>1, <1>2, <1>7, <2>1, <2>2
  <2>3. CASE c = r
    <3>1. d \in B /\ a < d
      BY <1>1, <1>2, <1>7, <2>3
    <3>2. QED
      BY <1>2, <2>1, <2>3, <3>1
  <2>4. CASE c \in B \ {a} /\ d \in B
    BY <1>4, <1>7, <2>4 DEF Tiled
  <2>5. CASE c \in B \ {a} /\ d = r
    <3>1. c < a
      BY <1>1, <1>2, <1>7, <2>1, <2>5
    <3>2. EndIn(h, c) <= a
      BY <2>5, <3>1 DEF Tiled
    <3>3. QED
      BY <1>1, <1>2, <1>4, <2>5, <3>2
  <2>6. QED
    BY <2>2, <2>3, <2>4, <2>5
<1>8. QED
  BY <1>2, <1>3, <1>5, <1>6, <1>7 DEF Tiled

\* The last block goes back.
LEMMA CutBack ==
  ASSUME HeapEnd \in Nat, NEW h, h.cursor \in 0 .. HeapEnd, NEW B, Tiled(h, B),
         NEW b \in B, EndIn(h, b) = h.cursor, NEW g, g.cursor = b,
         \A c \in B \ {b} : g.mem[c].capacity = h.mem[c].capacity
  PROVE  Tiled(g, B \ {b})
<1>1. /\ \A c \in B : c \in Nat /\ c < h.cursor /\ h.mem[c].capacity \in 2 .. HeapEnd
                      /\ EndIn(h, c) = c + 1 + h.mem[c].capacity /\ EndIn(h, c) <= h.cursor
                      /\ EndIn(h, c) \in B \cup {h.cursor}
      /\ h.cursor <= HeapEnd
  BY TiledIs
<1>2. \A c \in B \ {b} : EndIn(g, c) = EndIn(h, c) /\ EndIn(h, c) <= b
  <2>1. \A c \in B \ {b} : EndIn(h, c) <= b
    BY <1>1, TiledApart
  <2>2. QED
    BY <2>1 DEF EndIn
<1>3. B \ {b} \subseteq Base .. g.cursor - 1 /\ Base \in (B \ {b}) \cup {g.cursor}
  BY <1>1, <1>2 DEF Tiled, Base
<1>4. ASSUME NEW c \in B \ {b}
      PROVE  IsCapacity(g.mem[c].capacity) /\ EndIn(g, c) \in (B \ {b}) \cup {g.cursor}
  BY <1>1, <1>2 DEF IsCapacity, SmallestCapacity
<1>5. ASSUME NEW c \in B \ {b}, NEW d \in B \ {b}, c < d PROVE EndIn(g, c) <= d
  BY <1>2, <1>5 DEF Tiled
<1>6. QED
  BY <1>3, <1>4, <1>5 DEF Tiled

\* A block is put behind the last one.
LEMMA Bumps ==
  ASSUME HeapEnd \in Nat, NEW h, h.cursor \in 0 .. HeapEnd, NEW B, Tiled(h, B),
         NEW n, n \in 2 .. HeapEnd, NEW g, g.cursor = h.cursor + 1 + n,
         \A c \in B : g.mem[c].capacity = h.mem[c].capacity, g.mem[h.cursor].capacity = n
  PROVE  Tiled(g, B \cup {h.cursor}) /\ h.cursor \notin B /\ EndIn(g, h.cursor) = g.cursor
<1> DEFINE r == h.cursor
<1>1. /\ \A c \in B : c \in Nat /\ c < r /\ h.mem[c].capacity \in 2 .. HeapEnd
                      /\ EndIn(h, c) = c + 1 + h.mem[c].capacity /\ EndIn(h, c) <= r
                      /\ EndIn(h, c) \in B \cup {r}
      /\ r <= HeapEnd
  BY TiledIs
<1>2. EndIn(g, r) = g.cursor /\ r \in Nat /\ r < g.cursor /\ r \notin B
  BY <1>1 DEF EndIn
<1>3. \A c \in B : EndIn(g, c) = EndIn(h, c)
  BY DEF EndIn
<1>4. B \cup {r} \subseteq Base .. g.cursor - 1 /\ Base \in B \cup {r} \cup {g.cursor}
  <2>1. Base \in B \cup {r}
    BY DEF Tiled
  <2>2. g.cursor \in Int
    BY <1>1
  <2>3. \A c \in B \cup {r} : c \in Base .. g.cursor - 1
    BY <1>1, <1>2, <2>2 DEF Base
  <2>4. QED
    BY <2>1, <2>3
<1>5. ASSUME NEW c \in B \cup {r}
      PROVE  IsCapacity(g.mem[c].capacity) /\ EndIn(g, c) \in B \cup {r} \cup {g.cursor}
  BY <1>1, <1>2, <1>3 DEF IsCapacity, SmallestCapacity
<1>6. ASSUME NEW c \in B \cup {r}, NEW d \in B \cup {r}, c < d PROVE EndIn(g, c) <= d
  <2>1. c \in B
    BY <1>1, <1>2, <1>6
  <2>2. CASE d = r
    BY <1>1, <1>3, <2>1, <2>2
  <2>3. CASE d \in B
    BY <1>3, <1>6, <2>1, <2>3 DEF Tiled
  <2>4. QED
    BY <2>2, <2>3
<1>7. QED
  BY <1>2, <1>4, <1>5, <1>6 DEF Tiled

\* The last block grows.
LEMMA Grows ==
  ASSUME HeapEnd \in Nat, NEW h, h.cursor \in 0 .. HeapEnd, NEW B, Tiled(h, B),
         NEW b \in B, EndIn(h, b) = h.cursor, NEW n, n \in 2 .. HeapEnd, NEW g, g.cursor = b + 1 + n,
         n > h.mem[b].capacity,
         \A c \in B \ {b} : g.mem[c].capacity = h.mem[c].capacity, g.mem[b].capacity = n
  PROVE  Tiled(g, B)
<1>1. /\ \A c \in B : c \in Nat /\ c < h.cursor /\ h.mem[c].capacity \in 2 .. HeapEnd
                      /\ EndIn(h, c) = c + 1 + h.mem[c].capacity /\ EndIn(h, c) <= h.cursor
                      /\ EndIn(h, c) \in B \cup {h.cursor}
      /\ h.cursor <= HeapEnd
  BY TiledIs
<1>2. \A c \in B \ {b} : EndIn(g, c) = EndIn(h, c) /\ EndIn(h, c) <= b
  <2>1. \A c \in B \ {b} : EndIn(h, c) <= b
    BY <1>1, TiledApart
  <2>2. QED
    BY <2>1 DEF EndIn
<1>3. EndIn(g, b) = g.cursor /\ g.cursor \in Nat /\ g.cursor > h.cursor
  BY <1>1 DEF EndIn
<1>4. B \subseteq Base .. g.cursor - 1 /\ Base \in B \cup {g.cursor}
  BY <1>1, <1>3 DEF Tiled, Base
<1>5. ASSUME NEW c \in B
      PROVE  IsCapacity(g.mem[c].capacity) /\ EndIn(g, c) \in B \cup {g.cursor}
  BY <1>1, <1>2, <1>3 DEF IsCapacity, SmallestCapacity
<1>6. ASSUME NEW c \in B, NEW d \in B, c < d PROVE EndIn(g, c) <= d
  <2>1. c # b
    BY <1>1, <1>6 DEF Tiled
  <2>2. QED
    BY <1>2, <1>6, <2>1 DEF Tiled
<1>7. QED
  BY <1>4, <1>5, <1>6 DEF Tiled

-----------------------------------------------------------------------------
(* Bins *)

LEMMA BinOf ==
  ASSUME HeapAssumption, NEW c \in Nat, c >= 2
  PROVE  Bin(c) \in Bins
<1>1. Exact \in Nat /\ BinCount \in Nat /\ BinCount > Exact /\ Exact > 1 /\ HeapEnd \in Nat
  BY DEF HeapAssumption
<1>2. CASE c <= Exact
  BY <1>1, <1>2 DEF Bin, Bins
<1>3. CASE ~ (c <= Exact)
  <2> DEFINE Large(b) == b = BinCount - 1 \/ c <= Doubles(b)
             T == {b \in Exact .. BinCount - 1 : Large(b)}
  <2>1. BinCount - 1 \in T /\ T \subseteq Nat
    BY <1>1
  <2>2. PICK b \in T : \A d \in T : b <= d
    <3> HIDE DEF T
    <3>1. QED
      BY <2>1, LeastExists
  <2>3. \A d \in Exact .. b - 1 : ~ (c <= Doubles(d))
    <3>1. SUFFICES ASSUME NEW d \in Exact .. b - 1, c <= Doubles(d) PROVE FALSE
      OBVIOUS
    <3>2. d \in Exact .. BinCount - 1 /\ d < b
      BY <1>1, <2>2
    <3>3. d \in T
      BY <3>1, <3>2
    <3>4. b <= d
      BY <2>2, <3>3
    <3>5. QED
      BY <1>1, <2>2, <3>2, <3>4
  <2>4. b \in Exact .. BinCount - 1 /\ Large(b)
    BY <2>2
  <2>5. Bin(c) = CHOOSE d \in Exact .. BinCount - 1 :
           /\ d = BinCount - 1 \/ c <= Doubles(d)
           /\ \A e \in Exact .. d - 1 : ~ (c <= Doubles(e))
    BY <1>3 DEF Bin
  <2>6. Bin(c) \in Exact .. BinCount - 1
    BY <2>3, <2>4, <2>5, Zenon
  <2>7. QED
    BY <1>1, <2>6 DEF Bins
<1>4. QED
  BY <1>2, <1>3

LEMMA BinIn ==
  ASSUME HeapAssumption, NEW c \in 2 .. HeapEnd
  PROVE  Bin(c) \in Bins
BY BinOf DEF HeapAssumption

LEMMA UnlinkedIs ==
  ASSUME NEW S, NEW s \in Seq(S), Distinct(s), NEW a, a \in Elements(s)
  PROVE  Unlinked(s, a) \in Seq(S) /\ Elements(Unlinked(s, a)) = Elements(s) \ {a} /\ Distinct(Unlinked(s, a))
<1>1. PICK n \in Nat : n = Len(s) /\ DOMAIN s = 1 .. n
  OBVIOUS
<1>2. PICK i : i = CHOOSE k \in DOMAIN s : s[k] = a
  OBVIOUS
<1>3. i \in 1 .. n /\ s[i] = a
  <2>1. \E j \in DOMAIN s : s[j] = a
    BY DEF Elements
  <2>2. QED
    BY <1>1, <1>2, <2>1, Zenon
<1>4. PICK r : r = [j \in 1 .. n - 1 |-> IF j < i THEN s[j] ELSE s[j + 1]]
  OBVIOUS
<1>5. Unlinked(s, a) = r
  BY <1>1, <1>2, <1>4, Zenon DEF Unlinked
<1>6. /\ r \in Seq(S) /\ DOMAIN r = 1 .. n - 1
      /\ \A k \in 1 .. i - 1 : r[k] = s[k]
      /\ \A k \in i .. n - 1 : r[k] = s[k + 1]
  <2>1. \A k \in 1 .. n : s[k] \in S
    BY <1>1
  <2>2. \A k \in 1 .. n - 1 : (k < i => k \in 1 .. n) /\ k + 1 \in 1 .. n
    BY <1>1
  <2>3. r \in [1 .. n - 1 -> S]
    BY <1>4, <2>1, <2>2
  <2>4. n - 1 \in Nat
    BY <1>1, <1>3
  <2>5. r \in Seq(S)
    BY <2>3, <2>4
  <2>6. (\A k \in 1 .. i - 1 : r[k] = s[k]) /\ \A k \in i .. n - 1 : r[k] = s[k + 1]
    BY <1>1, <1>3, <1>4
  <2>7. QED
    BY <2>3, <2>5, <2>6
<1>7. \A x, y \in 1 .. n : s[x] = s[y] => x = y
  BY <1>1 DEF Distinct
<1>8. ASSUME NEW k \in 1 .. n - 1 PROVE \E m \in 1 .. n : m # i /\ r[k] = s[m] /\ m = IF k < i THEN k ELSE k + 1
  <2>1. CASE k < i
    <3>1. k \in 1 .. i - 1 /\ k \in 1 .. n /\ k # i
      BY <1>3, <2>1
    <3>2. QED
      BY <1>6, <2>1, <3>1
  <2>2. CASE ~ (k < i)
    <3>1. k \in i .. n - 1 /\ k + 1 \in 1 .. n /\ k + 1 # i
      BY <1>3, <2>2
    <3>2. QED
      BY <1>6, <2>2, <3>1
  <2>3. QED
    BY <2>1, <2>2
<1>9. Distinct(r)
  <2>1. SUFFICES ASSUME NEW k \in 1 .. n - 1, NEW m \in 1 .. n - 1, r[k] = r[m] PROVE k = m
    BY <1>6 DEF Distinct
  <2>2. PICK x \in 1 .. n : r[k] = s[x] /\ x = IF k < i THEN k ELSE k + 1
    BY <1>8
  <2>3. PICK y \in 1 .. n : r[m] = s[y] /\ y = IF m < i THEN m ELSE m + 1
    BY <1>8
  <2>4. x = y
    BY <1>7, <2>1, <2>2, <2>3
  <2>5. QED
    BY <1>3, <2>2, <2>3, <2>4
<1>10. Elements(r) \subseteq Elements(s) \ {a}
  <2>1. ASSUME NEW k \in 1 .. n - 1 PROVE r[k] \in Elements(s) \ {a}
    <3>1. PICK m \in 1 .. n : m # i /\ r[k] = s[m]
      BY <1>8
    <3>2. s[m] # s[i]
      BY <1>3, <1>7, <3>1
    <3>3. QED
      BY <1>1, <1>3, <3>1, <3>2 DEF Elements
  <2>2. QED
    BY <1>6, <2>1 DEF Elements
<1>11. Elements(s) \ {a} \subseteq Elements(r)
  <2>1. ASSUME NEW m \in 1 .. n, s[m] # a PROVE \E k \in 1 .. n - 1 : r[k] = s[m]
    <3>1. m # i
      BY <1>3, <2>1
    <3>2. CASE m < i
      <4>1. m \in 1 .. i - 1 /\ m \in 1 .. n - 1
        BY <1>3, <3>2
      <4>2. QED
        BY <1>6, <4>1
    <3>3. CASE m > i
      <4>1. m - 1 \in i .. n - 1 /\ m - 1 \in 1 .. n - 1 /\ m - 1 + 1 = m
        BY <1>3, <3>3
      <4>2. r[m - 1] = s[m]
        BY <1>6, <4>1
      <4>3. QED
        BY <4>1, <4>2
    <3>4. QED
      BY <1>3, <3>1, <3>2, <3>3
  <2>2. QED
    BY <1>1, <1>6, <2>1 DEF Elements
<1>12. QED
  BY <1>5, <1>6, <1>9, <1>10, <1>11

LEMMA LinkedIs ==
  ASSUME NEW S, NEW s \in Seq(S), Distinct(s), NEW a \in S, a \notin Elements(s)
  PROVE  /\ <<a>> \o s \in Seq(S) /\ Elements(<<a>> \o s) = Elements(s) \cup {a}
         /\ Distinct(<<a>> \o s)
<1> DEFINE r == <<a>> \o s
<1>1. /\ r \in Seq(S) /\ DOMAIN r = 1 .. Len(s) + 1 /\ r[1] = a /\ Len(s) \in Nat
      /\ \A k \in 2 .. Len(s) + 1 : r[k] = s[k - 1]
      /\ DOMAIN s = 1 .. Len(s)
  OBVIOUS
<1> HIDE DEF r
<1>2. \A k \in 1 .. Len(s) : s[k] # a /\ k + 1 \in 2 .. Len(s) + 1 /\ r[k + 1] = s[k]
  <2>1. \A k \in 1 .. Len(s) : s[k] # a
    BY <1>1 DEF Elements
  <2>2. \A k \in 1 .. Len(s) : k + 1 \in 2 .. Len(s) + 1 /\ k + 1 - 1 = k
    BY <1>1
  <2>3. QED
    BY <1>1, <2>1, <2>2
<1>3. \A k \in 2 .. Len(s) + 1 : k - 1 \in 1 .. Len(s) /\ r[k] = s[k - 1]
  BY <1>1
<1>4. Distinct(r)
  <2>1. SUFFICES ASSUME NEW k \in 1 .. Len(s) + 1, NEW m \in 1 .. Len(s) + 1, r[k] = r[m] PROVE k = m
    BY <1>1 DEF Distinct
  <2>2. CASE k = 1 \/ m = 1
    BY <1>1, <1>2, <1>3, <2>1, <2>2
  <2>3. CASE k # 1 /\ m # 1
    <3>1. k - 1 \in 1 .. Len(s) /\ m - 1 \in 1 .. Len(s) /\ s[k - 1] = s[m - 1]
      BY <1>1, <1>3, <2>1, <2>3
    <3>2. k - 1 = m - 1
      BY <1>1, <3>1 DEF Distinct
    <3>3. QED
      BY <1>1, <3>2
  <2>4. QED
    BY <2>2, <2>3
<1>5. Elements(r) = Elements(s) \cup {a}
  <2>1. ASSUME NEW x \in Elements(r) PROVE x \in Elements(s) \cup {a}
    <3>1. PICK k \in 1 .. Len(s) + 1 : x = r[k]
      BY <1>1 DEF Elements
    <3>2. k = 1 \/ k \in 2 .. Len(s) + 1
      BY <1>1
    <3>3. QED
      BY <1>1, <1>3, <3>1, <3>2 DEF Elements
  <2>2. ASSUME NEW x \in Elements(s) PROVE x \in Elements(r)
    <3>1. PICK k \in 1 .. Len(s) : x = s[k]
      BY <1>1 DEF Elements
    <3>2. k + 1 \in 1 .. Len(s) + 1 /\ r[k + 1] = x
      BY <1>1, <1>2, <3>1
    <3>3. QED
      BY <1>1, <3>2 DEF Elements
  <2>3. a \in Elements(r)
    <3>1. 1 \in DOMAIN r
      BY <1>1
    <3>2. QED
      BY <1>1, <3>1 DEF Elements
  <2>4. QED
    BY <2>1, <2>2, <2>3
<1>6. QED
  BY <1>1, <1>4, <1>5 DEF r

Capacities(h) == [a \in Units |-> h.mem[a].capacity]

\* The bins lose a, or have it put in front.
Unbins(g, h, a) ==
  /\ g.bins = [h.bins EXCEPT ![Bin(h.mem[a].capacity)] = Unlinked(@, a)]
  /\ g.reusable = h.reusable - h.mem[a].capacity

Rebins(g, h, a, c) ==
  /\ g.bins = [h.bins EXCEPT ![Bin(c)] = <<a>> \o @]
  /\ g.reusable = h.reusable + c

LEMMA BinnedSame ==
  ASSUME HeapEnd \in Nat, NEW h, NEW F, F \subseteq Units, \A a \in F : h.mem[a].capacity \in Int,
         Binned(h, F), NEW g, g.bins = h.bins, g.reusable = h.reusable,
         \A a \in F : g.mem[a].capacity = h.mem[a].capacity
  PROVE  Binned(g, F)
<1>1. SumOver(F, Capacities(g)) = SumOver(F, Capacities(h))
  <2>1. Summed(F, Capacities(h))
    BY DEF Summed, Capacities
  <2>2. \A u \in F \cap Units : Capacities(g)[u] = Capacities(h)[u]
    BY DEF Capacities
  <2>3. QED
    BY <2>1, <2>2, SumSame
<1>2. \A b \in Bins : {a \in F : Bin(g.mem[a].capacity) = b} = {a \in F : Bin(h.mem[a].capacity) = b}
  OBVIOUS
<1>3. QED
  BY <1>1, <1>2 DEF Binned, Capacities

LEMMA BinnedWithout ==
  ASSUME HeapAssumption, NEW h, NEW F, F \subseteq Units,
         \A a \in F : h.mem[a].capacity \in 2 .. HeapEnd,
         h.bins \in [Bins -> Seq(Units)], Binned(h, F), NEW a \in F,
         NEW g, Unbins(g, h, a),
         \A f \in F \ {a} : g.mem[f].capacity = h.mem[f].capacity
  PROVE  Binned(g, F \ {a}) /\ g.bins \in [Bins -> Seq(Units)]
<1> DEFINE c == h.mem[a].capacity
<1>1. HeapEnd \in Nat /\ Bin(c) \in Bins
  BY BinIn DEF HeapAssumption
<1>2. /\ Unlinked(h.bins[Bin(c)], a) \in Seq(Units)
      /\ Elements(Unlinked(h.bins[Bin(c)], a)) = Elements(h.bins[Bin(c)]) \ {a}
      /\ Distinct(Unlinked(h.bins[Bin(c)], a))
  <2>1. h.bins[Bin(c)] \in Seq(Units) /\ Distinct(h.bins[Bin(c)]) /\ a \in Elements(h.bins[Bin(c)])
    BY <1>1 DEF Binned
  <2>2. QED
    BY <2>1, UnlinkedIs
<1>3. \A b \in Bins : g.bins[b] = IF b = Bin(c) THEN Unlinked(h.bins[b], a) ELSE h.bins[b]
  BY DEF Unbins
<1>4. ASSUME NEW b \in Bins
      PROVE  /\ Elements(g.bins[b]) = {f \in F \ {a} : Bin(g.mem[f].capacity) = b}
             /\ Distinct(g.bins[b])
  <2>1. /\ Elements(h.bins[b]) = {f \in F : Bin(h.mem[f].capacity) = b} /\ Distinct(h.bins[b])
    BY DEF Binned
  <2>2. {f \in F \ {a} : Bin(g.mem[f].capacity) = b} = {f \in F : Bin(h.mem[f].capacity) = b} \ {a}
    OBVIOUS
  <2>3. CASE b = Bin(c)
    BY <1>2, <1>3, <2>1, <2>2, <2>3
  <2>4. CASE b # Bin(c)
    <3>1. a \notin Elements(h.bins[b])
      BY <2>1, <2>4
    <3>2. QED
      BY <1>3, <2>1, <2>2, <2>4, <3>1
  <2>5. QED
    BY <2>3, <2>4
<1>5. g.bins \in [Bins -> Seq(Units)]
  BY <1>1, <1>2 DEF Unbins
<1>6. g.reusable = SumOver(F \ {a}, Capacities(g))
  <2>1. Summed(F, Capacities(h)) /\ Summed(F \ {a}, Capacities(h)) /\ a \in Units
    BY DEF Summed, Capacities
  <2>2. SumOver(F \ {a}, Capacities(h)) = SumOver(F, Capacities(h)) - Capacities(h)[a]
    BY ONLY <1>1, <2>1, SumWithout, Zenon
  <2>3. \A u \in (F \ {a}) \cap Units : Capacities(g)[u] = Capacities(h)[u]
    BY DEF Capacities
  <2>4. SumOver(F \ {a}, Capacities(g)) = SumOver(F \ {a}, Capacities(h))
    BY <1>1, <2>1, <2>3, SumSame
  <2>5. h.reusable = SumOver(F, Capacities(h)) /\ Capacities(h)[a] = c
    BY <2>1 DEF Binned, Capacities
  <2>6. QED
    BY <2>2, <2>4, <2>5 DEF Unbins
<1>7. QED
  BY <1>4, <1>5, <1>6 DEF Binned, Capacities

LEMMA BinnedWith ==
  ASSUME HeapAssumption, NEW h, NEW F, F \subseteq Units,
         \A f \in F : h.mem[f].capacity \in 2 .. HeapEnd,
         h.bins \in [Bins -> Seq(Units)], Binned(h, F), NEW a \in Units, a \notin F,
         NEW c \in 2 .. HeapEnd,
         NEW g, Rebins(g, h, a, c),
         g.mem[a].capacity = c,
         \A f \in F : g.mem[f].capacity = h.mem[f].capacity
  PROVE  Binned(g, F \cup {a}) /\ g.bins \in [Bins -> Seq(Units)]
<1>1. HeapEnd \in Nat /\ Bin(c) \in Bins
  BY BinIn DEF HeapAssumption
<1>2. /\ <<a>> \o h.bins[Bin(c)] \in Seq(Units)
      /\ Elements(<<a>> \o h.bins[Bin(c)]) = Elements(h.bins[Bin(c)]) \cup {a}
      /\ Distinct(<<a>> \o h.bins[Bin(c)])
  <2>1. h.bins[Bin(c)] \in Seq(Units) /\ Distinct(h.bins[Bin(c)]) /\ a \notin Elements(h.bins[Bin(c)])
    BY <1>1 DEF Binned
  <2>2. QED
    BY <2>1, LinkedIs
<1>3. \A b \in Bins : g.bins[b] = IF b = Bin(c) THEN <<a>> \o h.bins[b] ELSE h.bins[b]
  BY DEF Rebins
<1>4. ASSUME NEW b \in Bins
      PROVE  /\ Elements(g.bins[b]) = {f \in F \cup {a} : Bin(g.mem[f].capacity) = b}
             /\ Distinct(g.bins[b])
  <2>1. /\ Elements(h.bins[b]) = {f \in F : Bin(h.mem[f].capacity) = b} /\ Distinct(h.bins[b])
    BY DEF Binned
  <2>2. {f \in F : Bin(g.mem[f].capacity) = b} = {f \in F : Bin(h.mem[f].capacity) = b}
    OBVIOUS
  <2>3. CASE b = Bin(c)
    BY <1>2, <1>3, <2>1, <2>2, <2>3
  <2>4. CASE b # Bin(c)
    BY <1>3, <2>1, <2>2, <2>4
  <2>5. QED
    BY <2>3, <2>4
<1>5. g.bins \in [Bins -> Seq(Units)]
  BY <1>1, <1>2 DEF Rebins
<1>6. g.reusable = SumOver(F \cup {a}, Capacities(g))
  <2>1. Summed(F, Capacities(h)) /\ Summed(F, Capacities(g)) /\ Capacities(g)[a] = c
    BY DEF Summed, Capacities
  <2>2. SumOver(F \cup {a}, Capacities(g)) = SumOver(F, Capacities(g)) + c
    BY <1>1, <2>1, SumWith
  <2>3. \A u \in F \cap Units : Capacities(g)[u] = Capacities(h)[u]
    BY DEF Capacities
  <2>4. SumOver(F, Capacities(g)) = SumOver(F, Capacities(h))
    BY <1>1, <2>1, <2>3, SumSame
  <2>5. h.reusable = SumOver(F, Capacities(h))
    BY DEF Binned, Capacities
  <2>6. QED
    BY <2>2, <2>4, <2>5 DEF Rebins
<1>7. QED
  BY <1>4, <1>5, <1>6 DEF Binned, Capacities

\* What a search of the bins finds is a free block that is large enough.
LEMMA FitFound ==
  ASSUME HeapAssumption, NEW h, NEW F, h.bins \in [Bins -> Seq(Units)], Binned(h, F),
         NEW n \in Nat, n >= 2, HasFit(h, n)
  PROVE  FirstFit(h, n) \in F /\ h.mem[FirstFit(h, n)].capacity >= n
<1> DEFINE Holds(b) == Fits(h, n, b) # {}
           T == {b \in Bin(n) .. BinCount - 1 : Holds(b)}
           bin == CHOOSE b \in Bin(n) .. BinCount - 1 :
                    Fits(h, n, b) # {} /\ \A c \in Bin(n) .. b - 1 : Fits(h, n, c) = {}
<1>1. Bin(n) \in Bins /\ BinCount \in Nat
  BY BinOf DEF HeapAssumption
<1>2. T # {} /\ T \subseteq Nat
  <2>1. T # {}
    BY DEF HasFit
  <2>2. Bin(n) .. BinCount - 1 \subseteq Nat
    BY <1>1 DEF Bins
  <2>3. QED
    BY <2>1, <2>2
<1>3. PICK b \in T : \A c \in T : b <= c
  <2> HIDE DEF T
  <2>1. QED
    BY <1>2, LeastExists
<1>4. b \in Bin(n) .. BinCount - 1 /\ Fits(h, n, b) # {}
  BY <1>3
<1>5. \A c \in Bin(n) .. b - 1 : Fits(h, n, c) = {}
  <2>1. SUFFICES ASSUME NEW c \in Bin(n) .. b - 1, Fits(h, n, c) # {} PROVE FALSE
    OBVIOUS
  <2>2. c \in Bin(n) .. BinCount - 1 /\ c < b
    BY <1>1, <1>4 DEF Bins
  <2>3. c \in T
    BY <2>1, <2>2
  <2>4. b <= c
    BY <1>3, <2>3
  <2>5. QED
    BY <1>1, <1>4, <2>2, <2>4 DEF Bins
<1>6. bin \in Bin(n) .. BinCount - 1 /\ Fits(h, n, bin) # {}
  BY <1>4, <1>5, Zenon
<1> HIDE DEF bin
<1>7. bin \in Bins
  BY <1>1, <1>6 DEF Bins
<1>8. PICK i \in Fits(h, n, bin) : \A j \in Fits(h, n, bin) : i <= j
  <2>1. Fits(h, n, bin) \subseteq Nat
    <3>1. h.bins[bin] \in Seq(Units)
      BY <1>7
    <3>2. QED
      BY <3>1 DEF Fits
  <2>2. QED
    BY <1>6, <2>1, LeastExists
<1> DEFINE first == CHOOSE k \in Fits(h, n, bin) : \A j \in Fits(h, n, bin) : k <= j
<1>9. first \in Fits(h, n, bin)
  BY <1>8, Zenon
<1>10. FirstFit(h, n) = h.bins[bin][first]
  BY DEF FirstFit, bin
<1> HIDE DEF first
<1>11. first \in DOMAIN h.bins[bin] /\ h.mem[h.bins[bin][first]].capacity >= n
  BY <1>9 DEF Fits
<1>12. h.bins[bin][first] \in Elements(h.bins[bin])
  BY <1>11 DEF Elements
<1>13. h.bins[bin][first] \in F
  BY <1>7, <1>12 DEF Binned
<1>14. QED
  BY <1>10, <1>11, <1>13

-----------------------------------------------------------------------------
(* What the operations write *)

SameBut(g, h, W) == \A u \in Units \ W : g.mem[u] = h.mem[u]

Shaped(g) ==
  g = [mem |-> g.mem, cursor |-> g.cursor, bins |-> g.bins, live |-> g.live,
       reusable |-> g.reusable]

Removed(g, h, a) ==
  /\ g.mem \in [Units -> Cells] /\ g.cursor = h.cursor /\ g.live = h.live /\ Shaped(g)
  /\ SameBut(g, h, {a})
  /\ g.mem[a].size = h.mem[a].size /\ g.mem[a].magic = h.mem[a].magic
  /\ g.mem[a].capacity = h.mem[a].capacity

LEMMA RemoveFreeIs ==
  ASSUME HeapEnd \in Nat, NEW h \in Heaps, NEW a \in Units, NEW g, g = RemoveFree(h, a)
  PROVE  Removed(g, h, a) /\ Unbins(g, h, a)
<1>1. /\ g.cursor = h.cursor /\ g.live = h.live /\ Shaped(g)
      /\ Unbins(g, h, a)
      /\ g.mem = [h.mem EXCEPT ![a].word = 0]
  BY DEF RemoveFree, Heaps, Shaped, Unbins
<1>2. h.mem \in [Units -> Cells]
  BY DEF Heaps
<1>3. /\ g.mem \in [Units -> Cells] /\ SameBut(g, h, {a})
      /\ g.mem[a].size = h.mem[a].size /\ g.mem[a].magic = h.mem[a].magic
      /\ g.mem[a].capacity = h.mem[a].capacity
  BY <1>1, <1>2 DEF Cells, SameBut
<1>4. QED
  BY <1>1, <1>3 DEF Removed

Inserted(g, h, v, c) ==
  /\ g.mem \in [Units -> Cells] /\ g.cursor = h.cursor /\ g.live = h.live /\ Shaped(g)
  /\ SameBut(g, h, {v})
  /\ g.mem[v].size = h.mem[v].size /\ g.mem[v].magic = h.mem[v].magic
  /\ g.mem[v].capacity = Mark /\ g.mem[v].word = c

LEMMA InsertFreeIs ==
  ASSUME HeapEnd \in Nat, NEW h \in Heaps, NEW a \in Units, NEW c \in 2 .. HeapEnd,
         c = h.mem[a].capacity, NEW v \in Units, v = a + c, NEW g, g = InsertFree(h, a)
  PROVE  Inserted(g, h, v, c) /\ Rebins(g, h, a, c)
<1>1. /\ g.cursor = h.cursor /\ g.live = h.live /\ Shaped(g) /\ Rebins(g, h, a, c)
      /\ g.mem = [h.mem EXCEPT ![a + c].capacity = Mark, ![a + c].word = c]
  BY DEF InsertFree, Heaps, Shaped, Rebins
<1>2. h.mem \in [Units -> Cells]
  BY DEF Heaps
<1>3. g.mem = [h.mem EXCEPT ![v].capacity = Mark, ![v].word = c]
  BY <1>1
<1>4. /\ g.mem \in [Units -> Cells] /\ SameBut(g, h, {v})
      /\ g.mem[v].size = h.mem[v].size /\ g.mem[v].magic = h.mem[v].magic
      /\ g.mem[v].capacity = Mark /\ g.mem[v].word = c
  <2>1. PICK x \in Cells : x = h.mem[v]
    BY <1>2
  <2>2. g.mem = [h.mem EXCEPT ![v] = [x EXCEPT !.capacity = Mark, !.word = c]]
    BY <1>2, <1>3, <2>1
  <2>3. PICK y : y = [x EXCEPT !.capacity = Mark, !.word = c]
    OBVIOUS
  <2>4. y \in Cells /\ y.size = x.size /\ y.magic = x.magic /\ y.capacity = Mark /\ y.word = c
    <3>1. y = [size |-> x.size, magic |-> x.magic, capacity |-> Mark, word |-> c]
      BY <2>3 DEF Cells
    <3>2. x.size \in 0 .. HeapEnd /\ x.magic \in {"none", "live", "free"}
      BY DEF Cells
    <3>3. c \in 0 .. HeapEnd \cup Sites \cup Owners
      OBVIOUS
    <3>4. QED
      BY <3>1, <3>2, <3>3 DEF Cells
  <2>5. g.mem = [h.mem EXCEPT ![v] = y]
    BY <2>2, <2>3
  <2>6. QED
    BY <1>2, <2>1, <2>4, <2>5 DEF SameBut
<1>5. QED
  BY <1>1, <1>4 DEF Inserted

LEMMA HeapMade ==
  ASSUME NEW g, Shaped(g), g.mem \in [Units -> Cells], g.cursor \in 0 .. HeapEnd,
         g.bins \in [Bins -> Seq(Units)], g.live \in Seq([site : Sites, bytes : Int]),
         g.reusable \in Int
  PROVE  g \in Heaps
<1>1. /\ [mem |-> g.mem, cursor |-> g.cursor, bins |-> g.bins, live |-> g.live,
           reusable |-> g.reusable] \in Heaps
  BY DEF Heaps, Base
<1>2. QED
  BY <1>1 DEF Shaped

-----------------------------------------------------------------------------
(* Heaps that reuse what is free *)

Reusing(h, L, F, X) ==
  /\ h \in Heaps
  /\ L \cap F = {} /\ X \cap (L \cup F) = {}
  /\ Tiled(h, L \cup F \cup X) /\ Tagged(h, L, F)
  /\ Footed(h, F) /\ Binned(h, F) /\ \A a \in F : EndIn(h, a) \in L \cup X

\* What the units of live blocks hold.
Extent(h, a) == a .. a + h.mem[a].capacity
Untouched(g, h, L) == \A a \in L : \A u \in Extent(h, a) : g.mem[u] = h.mem[u]

Fields(h) ==
  /\ h \in Heaps /\ h.cursor \in 0 .. HeapEnd
  /\ h.mem \in [Units -> Cells] /\ h.bins \in [Bins -> Seq(Units)]
  /\ h.live \in Seq([site : Sites, bytes : Int]) /\ h.reusable \in Int

Ranged(h, a) ==
  /\ a \in Units /\ a \in Nat /\ a < h.cursor
  /\ h.mem[a].capacity \in 2 .. HeapEnd
  /\ EndIn(h, a) = a + 1 + h.mem[a].capacity /\ EndIn(h, a) \in Nat
  /\ EndIn(h, a) <= h.cursor
  /\ a + h.mem[a].capacity \in Units /\ a + h.mem[a].capacity > a

LEMMA HeapFields ==
  ASSUME NEW h \in Heaps
  PROVE  Fields(h)
BY DEF Heaps, Fields, Base

LEMMA RangedIn ==
  ASSUME HeapEnd \in Nat, NEW h, h.cursor \in 0 .. HeapEnd, NEW B, Tiled(h, B), NEW a \in B
  PROVE  Ranged(h, a)
<1>1. /\ a \in Units /\ a \in Nat /\ a < h.cursor /\ h.cursor <= HeapEnd
      /\ h.mem[a].capacity \in 2 .. HeapEnd
      /\ EndIn(h, a) = a + 1 + h.mem[a].capacity /\ EndIn(h, a) \in Nat
      /\ EndIn(h, a) <= h.cursor
  BY TiledIs
<1>2. a + h.mem[a].capacity \in Units /\ a + h.mem[a].capacity > a
  BY <1>1 DEF Units, Base
<1>3. QED
  BY <1>1, <1>2 DEF Ranged

\* Blocks have no unit in common.
LEMMA UnitsApart ==
  ASSUME HeapEnd \in Nat, NEW h, h.cursor \in 0 .. HeapEnd, NEW B, Tiled(h, B),
         NEW a \in B, NEW b \in B, a # b, NEW u \in Extent(h, a)
  PROVE  u \notin Extent(h, b)
<1>1. Ranged(h, a) /\ Ranged(h, b)
  BY RangedIn
<1>2. EndIn(h, a) <= b \/ EndIn(h, b) <= a
  BY TiledApart
<1>3. QED
  BY <1>1, <1>2 DEF Ranged, Extent

LEMMA UnitsTyped ==
  ASSUME HeapEnd \in Nat, NEW h, h.cursor \in 0 .. HeapEnd, NEW B, Tiled(h, B), NEW a \in B
  PROVE  /\ Extent(h, a) \subseteq Units /\ a \in Extent(h, a)
         /\ a + h.mem[a].capacity \in Extent(h, a) /\ a + h.mem[a].capacity # a
         /\ \A u \in Extent(h, a) : u < h.cursor
<1>1. Ranged(h, a)
  BY RangedIn
<1>2. QED
  BY <1>1 DEF Ranged, Extent, Units, Base

LEMMA ReusingIs ==
  ASSUME HeapAssumption, NEW h, NEW L, NEW F, NEW X, Reusing(h, L, F, X)
  PROVE  /\ HeapEnd \in Nat /\ Fields(h) /\ h.cursor \in 0 .. HeapEnd
         /\ Tiled(h, L \cup F \cup X) /\ L \cup F \cup X \subseteq Units
<1>1. HeapEnd \in Nat /\ h \in Heaps /\ Tiled(h, L \cup F \cup X)
  BY DEF HeapAssumption, Reusing
<1>2. Fields(h) /\ h.cursor \in 0 .. HeapEnd
  BY <1>1, HeapFields DEF Fields
<1>3. L \cup F \cup X \subseteq Units
  <2>1. PICK B : B = L \cup F \cup X
    OBVIOUS
  <2>2. \A b \in B : b \in Units
    BY <1>1, <1>2, <2>1, RangedIn DEF Ranged
  <2>3. QED
    BY <2>1, <2>2
<1>4. QED
  BY <1>1, <1>2, <1>3

\* A free block is taken out of its bin.
UnlinkedFrom(g, h, L, F, X, a) ==
  /\ Reusing(g, L, F \ {a}, X \cup {a})
  /\ SameBut(g, h, {a}) /\ g.cursor = h.cursor /\ g.live = h.live
  /\ g.mem[a].capacity = h.mem[a].capacity

LEMMA Unlinks ==
  ASSUME HeapAssumption, NEW h, NEW L, NEW F, NEW X, Reusing(h, L, F, X), NEW a, a \in F,
         NEW g, g = RemoveFree(h, a)
  PROVE  UnlinkedFrom(g, h, L, F, X, a)
<1>1. PICK B : B = L \cup F \cup X
  OBVIOUS
<1>2. HeapEnd \in Nat /\ Fields(h) /\ h.cursor \in 0 .. HeapEnd /\ Tiled(h, B) /\ B \subseteq Units
  BY <1>1, ReusingIs
<1>3. a \in B /\ a \in Units /\ F \subseteq B
  BY <1>1, <1>2
<1>4. h \in Heaps
  BY <1>2 DEF Fields
<1>5. /\ g.mem \in [Units -> Cells] /\ g.cursor = h.cursor /\ g.live = h.live /\ Shaped(g)
      /\ SameBut(g, h, {a}) /\ Unbins(g, h, a)
      /\ g.mem[a].size = h.mem[a].size /\ g.mem[a].magic = h.mem[a].magic
      /\ g.mem[a].capacity = h.mem[a].capacity
  <2>1. Removed(g, h, a) /\ Unbins(g, h, a)
    BY <1>2, <1>3, <1>4, RemoveFreeIs
  <2>2. QED
    BY <2>1, Zenon DEF Removed
<1>6. \A b \in B : g.mem[b].capacity = h.mem[b].capacity
  BY <1>2, <1>5, Zenon DEF SameBut
<1>7. \A u \in Units : g.mem[u].magic = h.mem[u].magic
  BY <1>5, Zenon DEF SameBut
<1>8. \A b \in B : h.mem[b].capacity \in 2 .. HeapEnd
  <2>1. \A b \in B : Ranged(h, b)
    BY <1>2, RangedIn, Zenon
  <2>2. QED
    BY <2>1, Zenon DEF Ranged
<1>9. Binned(g, F \ {a}) /\ g.bins \in [Bins -> Seq(Units)]
  <2>1. Binned(h, F) /\ F \subseteq Units
    BY <1>2, <1>3 DEF Reusing
  <2>2. \A f \in F : h.mem[f].capacity \in 2 .. HeapEnd
    BY <1>3, <1>8
  <2>3. \A f \in F \ {a} : g.mem[f].capacity = h.mem[f].capacity
    BY <1>3, <1>6
  <2>4. h.bins \in [Bins -> Seq(Units)]
    BY <1>2 DEF Fields
  <2>5. Unbins(g, h, a)
    BY <1>5
  <2>6. a \in F
    OBVIOUS
  <2>7. QED
    BY ONLY HeapAssumption, <2>1, <2>2, <2>3, <2>4, <2>5, <2>6, BinnedWithout, ZenonT(40)
<1>10. g \in Heaps
  <2>1. g.cursor \in 0 .. HeapEnd /\ g.live \in Seq([site : Sites, bytes : Int])
    BY <1>2, <1>5, Zenon DEF Fields
  <2>2. g.reusable \in Int
    BY <1>2, <1>3, <1>5, <1>8 DEF Fields, Unbins
  <2>3. QED
    BY <1>5, <1>9, <2>1, <2>2, HeapMade, Zenon
<1>11. Tiled(g, L \cup (F \ {a}) \cup (X \cup {a}))
  <2>1. L \cup (F \ {a}) \cup (X \cup {a}) = B
    BY <1>1
  <2>2. Tiled(g, B)
    BY <1>2, <1>5, <1>6, Retiles
  <2>3. QED
    BY <2>1, <2>2, Zenon
<1>12. Tagged(g, L, F \ {a})
  BY <1>2, <1>3, <1>7 DEF Reusing, Tagged
<1>13. Footed(g, F \ {a})
  <2>1. ASSUME NEW f \in F \ {a}
        PROVE  g.mem[f + h.mem[f].capacity] = h.mem[f + h.mem[f].capacity]
    <3>1. f \in B /\ f # a
      BY <1>3
    <3>2. PICK u : u = f + h.mem[f].capacity
      OBVIOUS
    <3>3. u \in Extent(h, f) /\ u \in Units /\ a \in Extent(h, a)
      BY <1>2, <1>3, <3>1, <3>2, UnitsTyped
    <3>4. u # a
      BY <1>2, <1>3, <3>1, <3>3, UnitsApart
    <3>5. QED
      BY <1>5, <3>2, <3>3, <3>4 DEF SameBut
  <2>2. \A f \in F \ {a} : g.mem[f].capacity = h.mem[f].capacity
    BY <1>3, <1>6
  <2>3. QED
    BY <2>1, <2>2 DEF Footed, Reusing
<1>14. \A f \in F \ {a} : EndIn(g, f) \in L \cup (X \cup {a})
  <2>1. \A f \in F \ {a} : EndIn(g, f) = EndIn(h, f)
    BY <1>3, <1>6, Zenon DEF EndIn
  <2>2. QED
    BY <2>1 DEF Reusing
<1>15. L \cap (F \ {a}) = {} /\ (X \cup {a}) \cap (L \cup (F \ {a})) = {}
  BY DEF Reusing
<1>16. Reusing(g, L, F \ {a}, X \cup {a})
  BY <1>9, <1>10, <1>11, <1>12, <1>13, <1>14, <1>15, Zenon DEF Reusing
<1>17. QED
  BY <1>5, <1>16, Zenon DEF UnlinkedFrom

\* A block is put into its bin.
LinkedIn(g, h, L, F, X, a) ==
  /\ Reusing(g, L, F \cup {a}, X \ {a})
  /\ SameBut(g, h, {a + h.mem[a].capacity}) /\ g.cursor = h.cursor /\ g.live = h.live
  /\ \A b \in L \cup F \cup X : g.mem[b] = h.mem[b]

LEMMA Links ==
  ASSUME HeapAssumption, NEW h, NEW L, NEW F, NEW X, Reusing(h, L, F, X), NEW a, a \in X,
         h.mem[a].magic = "free", EndIn(h, a) \in L \cup (X \ {a}), \A f \in F : EndIn(h, f) # a,
         NEW g, g = InsertFree(h, a)
  PROVE  LinkedIn(g, h, L, F, X, a)
<1>1. PICK B : B = L \cup F \cup X
  OBVIOUS
<1>2. HeapEnd \in Nat /\ Fields(h) /\ h.cursor \in 0 .. HeapEnd /\ Tiled(h, B) /\ B \subseteq Units
  BY <1>1, ReusingIs
<1>3. a \in B /\ a \in Units /\ F \subseteq B /\ a \notin F
  BY <1>1, <1>2 DEF Reusing
<1>4. h \in Heaps
  BY <1>2 DEF Fields
<1>5. PICK c : c = h.mem[a].capacity
  OBVIOUS
<1>6. \A b \in B : h.mem[b].capacity \in 2 .. HeapEnd /\ b + h.mem[b].capacity \in Units
  <2>1. \A b \in B : Ranged(h, b)
    BY <1>2, RangedIn, Zenon
  <2>2. QED
    BY <2>1, Zenon DEF Ranged
<1>7. c \in 2 .. HeapEnd
  BY <1>3, <1>5, <1>6
<1>9. PICK v \in Units : v = a + c
  BY <1>3, <1>5, <1>6
<1>8. /\ g.mem \in [Units -> Cells] /\ g.cursor = h.cursor /\ g.live = h.live /\ Shaped(g)
      /\ SameBut(g, h, {v}) /\ Rebins(g, h, a, c)
      /\ g.mem[v].size = h.mem[v].size /\ g.mem[v].magic = h.mem[v].magic
      /\ g.mem[v].capacity = Mark /\ g.mem[v].word = c
  <2>1. Inserted(g, h, v, c) /\ Rebins(g, h, a, c)
    BY <1>2, <1>3, <1>4, <1>5, <1>7, <1>9, InsertFreeIs
  <2>2. QED
    BY <2>1, Zenon DEF Inserted
<1>10. v \in Extent(h, a) /\ v # a
  BY <1>2, <1>3, <1>5, <1>9, UnitsTyped
<1>11. \A b \in B : g.mem[b] = h.mem[b]
  <2>1. ASSUME NEW b \in B PROVE b # v
    <3>1. CASE b = a
      BY <1>10, <3>1
    <3>2. CASE b # a
      BY <1>2, <1>3, <1>10, <3>2, UnitsApart, UnitsTyped
    <3>3. QED
      BY <3>1, <3>2
  <2>2. QED
    BY <1>2, <1>8, <1>9, <2>1 DEF SameBut
<1>12. \A u \in Units : g.mem[u].magic = h.mem[u].magic
  BY <1>8, Zenon DEF SameBut
<1>13. Binned(g, F \cup {a}) /\ g.bins \in [Bins -> Seq(Units)]
  <2>1. Binned(h, F) /\ F \subseteq Units
    BY <1>2, <1>3 DEF Reusing
  <2>2. \A f \in F : h.mem[f].capacity \in 2 .. HeapEnd
    BY <1>3, <1>6
  <2>3. g.mem[a].capacity = c /\ \A f \in F : g.mem[f].capacity = h.mem[f].capacity
    BY <1>3, <1>5, <1>11
  <2>4. h.bins \in [Bins -> Seq(Units)]
    BY <1>2 DEF Fields
  <2>5. QED
    <3>1. a \in Units /\ a \notin F /\ c \in 2 .. HeapEnd /\ Rebins(g, h, a, c)
      BY <1>3, <1>7, <1>8
    <3>2. QED
      BY ONLY HeapAssumption, <2>1, <2>2, <2>3, <2>4, <3>1, BinnedWith, Zenon
<1>14. g \in Heaps
  <2>1. g.cursor \in 0 .. HeapEnd /\ g.live \in Seq([site : Sites, bytes : Int])
    BY <1>2, <1>8, Zenon DEF Fields
  <2>2. g.reusable \in Int
    BY <1>2, <1>7, <1>8 DEF Fields, Rebins
  <2>3. QED
    BY <1>8, <1>13, <2>1, <2>2, HeapMade, Zenon
<1>15. Tiled(g, L \cup (F \cup {a}) \cup (X \ {a}))
  <2>1. L \cup (F \cup {a}) \cup (X \ {a}) = B
    BY <1>1
  <2>2. Tiled(g, B)
    BY <1>2, <1>8, <1>11, Retiles
  <2>3. QED
    BY <2>1, <2>2, Zenon
<1>16. Tagged(g, L, F \cup {a})
  BY <1>2, <1>3, <1>12 DEF Reusing, Tagged
<1>17. Footed(g, F \cup {a})
  <2>1. ASSUME NEW f \in F
        PROVE  g.mem[f + h.mem[f].capacity] = h.mem[f + h.mem[f].capacity]
    <3>1. f \in B /\ f # a
      BY <1>3
    <3>2. PICK u : u = f + h.mem[f].capacity
      OBVIOUS
    <3>3. u \in Extent(h, f) /\ u \in Units
      BY <1>2, <3>1, <3>2, UnitsTyped
    <3>4. u # v
      BY <1>2, <1>3, <1>10, <3>1, <3>3, UnitsApart
    <3>5. QED
      BY <1>8, <1>9, <3>2, <3>3, <3>4 DEF SameBut
  <2>2. \A f \in F : g.mem[f].capacity = h.mem[f].capacity
    BY <1>3, <1>11
  <2>3. g.mem[a].capacity = c
    BY <1>3, <1>5, <1>11
  <2>4. \A f \in F : g.mem[f + g.mem[f].capacity].capacity = Mark /\ g.mem[f + g.mem[f].capacity].word = g.mem[f].capacity
    BY <2>1, <2>2 DEF Footed, Reusing
  <2>5. g.mem[a + g.mem[a].capacity].capacity = Mark /\ g.mem[a + g.mem[a].capacity].word = g.mem[a].capacity
    BY <1>8, <1>9, <2>3
  <2>6. QED
    BY <2>4, <2>5 DEF Footed
<1>18. \A f \in F \cup {a} : EndIn(g, f) \in L \cup (X \ {a})
  <2>1. \A f \in F \cup {a} : EndIn(g, f) = EndIn(h, f)
    BY <1>3, <1>11 DEF EndIn
  <2>2. QED
    BY <2>1 DEF Reusing
<1>19. L \cap (F \cup {a}) = {} /\ (X \ {a}) \cap (L \cup (F \cup {a})) = {}
  BY DEF Reusing
<1>20. Reusing(g, L, F \cup {a}, X \ {a})
  BY <1>13, <1>14, <1>15, <1>16, <1>17, <1>18, <1>19, Zenon DEF Reusing
<1>21. QED
  BY <1>1, <1>5, <1>8, <1>9, <1>11, <1>20, Zenon DEF LinkedIn

-----------------------------------------------------------------------------
(* A heap whose blocks are written, retagged or merged *)

LEMMA FreesKept ==
  ASSUME HeapEnd \in Nat, NEW h, h.cursor \in 0 .. HeapEnd, NEW B, Tiled(h, B), NEW F, F \subseteq B,
         Footed(h, F), Binned(h, F), NEW g, g.bins = h.bins, g.reusable = h.reusable, Untouched(g, h, F)
  PROVE  /\ Footed(g, F) /\ Binned(g, F)
         /\ \A f \in F : EndIn(g, f) = EndIn(h, f) /\ g.mem[f] = h.mem[f]
<1>1. ASSUME NEW f \in F
      PROVE  /\ f \in Units /\ h.mem[f].capacity \in Int /\ g.mem[f] = h.mem[f]
             /\ g.mem[f + h.mem[f].capacity] = h.mem[f + h.mem[f].capacity]
  <2>1. Ranged(h, f)
    BY RangedIn
  <2>2. f \in Extent(h, f) /\ f + h.mem[f].capacity \in Extent(h, f)
    BY UnitsTyped
  <2>3. QED
    BY <2>1, <2>2 DEF Ranged, Untouched
<1>2. \A f \in F : EndIn(g, f) = EndIn(h, f) /\ g.mem[f] = h.mem[f]
  BY <1>1 DEF EndIn
<1>3. Footed(g, F)
  BY <1>1 DEF Footed
<1>4. Binned(g, F)
  <2>1. F \subseteq Units /\ (\A f \in F : h.mem[f].capacity \in Int)
        /\ \A f \in F : g.mem[f].capacity = h.mem[f].capacity
    BY <1>1
  <2>2. QED
    BY <2>1, BinnedSame
<1>5. QED
  BY <1>2, <1>3, <1>4

LEMMA BlocksAre ==
  ASSUME HeapAssumption, NEW h, NEW L, NEW F, NEW X, Blocks(h, L, F, X)
  PROVE  /\ HeapEnd \in Nat /\ Fields(h) /\ h.cursor \in 0 .. HeapEnd /\ h \in Heaps
         /\ Tiled(h, L \cup F \cup X) /\ L \cup F \cup X \subseteq Units
<1>1. HeapEnd \in Nat /\ h \in Heaps /\ Tiled(h, L \cup F \cup X)
  BY DEF HeapAssumption, Blocks
<1>2. Fields(h) /\ h.cursor \in 0 .. HeapEnd
  BY <1>1, HeapFields DEF Fields
<1>3. L \cup F \cup X \subseteq Units
  <2>1. PICK B : B = L \cup F \cup X
    OBVIOUS
  <2>2. \A b \in B : b \in Units
    BY <1>1, <1>2, <2>1, RangedIn DEF Ranged
  <2>3. QED
    BY <2>1, <2>2
<1>4. QED
  BY <1>1, <1>2, <1>3

\* Writes that move no block: headers and what lies in blocks that are not free.
LEMMA Retouched ==
  ASSUME HeapAssumption, NEW h, NEW L, NEW F, NEW X, Blocks(h, L, F, X),
         NEW g \in Heaps, g.cursor = h.cursor, g.bins = h.bins, g.reusable = h.reusable,
         \A b \in L \cup F \cup X : g.mem[b].capacity = h.mem[b].capacity, Untouched(g, h, F),
         NEW L2, NEW X2, L2 \cup X2 = L \cup X, L2 \cap X2 = {},
         \A u \in Units : g.mem[u].magic = "live" <=> u \in L2
  PROVE  Blocks(g, L2, F, X2)
<1>1. PICK B : B = L \cup F \cup X
  OBVIOUS
<1>2. /\ HeapEnd \in Nat /\ Fields(h) /\ h.cursor \in 0 .. HeapEnd
      /\ Tiled(h, B) /\ B \subseteq Units
  BY <1>1, BlocksAre
<1>3. Tiled(g, L2 \cup F \cup X2)
  <2>1. Tiled(g, B)
    BY <1>1, <1>2, Retiles
  <2>2. L2 \cup F \cup X2 = B
    BY <1>1
  <2>3. QED
    BY <2>1, <2>2
<1>4. F \subseteq B
  BY <1>1
<1>5. \A f \in F : g.mem[f] = h.mem[f]
  BY <1>2, <1>4, UnitsTyped DEF Untouched
<1>6. Tagged(g, L2, F)
  BY <1>5 DEF Tagged, Blocks
<1>7. L2 \cap F = {} /\ X2 \cap (L2 \cup F) = {}
  BY DEF Blocks
<1>8. ASSUME flags.reuse
      PROVE  Footed(g, F) /\ Binned(g, F) /\ \A a \in F : EndIn(g, a) \in L2 \cup X2
  <2>1. Footed(h, F) /\ Binned(h, F) /\ \A a \in F : EndIn(h, a) \in L \cup X
    BY <1>8 DEF Blocks
  <2>2. /\ Footed(g, F) /\ Binned(g, F)
        /\ \A f \in F : EndIn(g, f) = EndIn(h, f) /\ g.mem[f] = h.mem[f]
    BY <1>2, <1>4, <2>1, FreesKept
  <2>3. QED
    BY <2>1, <2>2
<1>9. QED
  BY <1>3, <1>6, <1>7, <1>8 DEF Blocks

LEMMA ReusesBlocks ==
  ASSUME NEW h, NEW L, NEW F, NEW X, flags.reuse
  PROVE  Reusing(h, L, F, X) <=> Blocks(h, L, F, X)
BY DEF Reusing, Blocks

\* Two blocks in hand that are neighbours become one.
MergedInto(g, h, L, F, X, a, b) ==
  /\ Reusing(g, L, F, X \ {b}) /\ EndIn(g, a) = EndIn(h, b)
  /\ SameBut(g, h, {a}) /\ g.cursor = h.cursor /\ g.live = h.live
  /\ g.mem[a].magic = h.mem[a].magic

LEMMA Merges ==
  ASSUME HeapAssumption, NEW h, NEW L, NEW F, NEW X, Reusing(h, L, F, X),
         NEW a, a \in X, NEW b, b \in X, EndIn(h, a) = b,
         NEW g, g = [h EXCEPT !.mem[a].capacity = @ + 1 + h.mem[b].capacity]
  PROVE  MergedInto(g, h, L, F, X, a, b)
<1>1. PICK B : B = L \cup F \cup X
  OBVIOUS
<1>2. /\ HeapEnd \in Nat /\ Fields(h) /\ h.cursor \in 0 .. HeapEnd
      /\ Tiled(h, B) /\ B \subseteq Units
  BY <1>1, ReusingIs
<1>3. a \in B /\ b \in B /\ a \in Units /\ b \in Units /\ F \subseteq B
  BY <1>1, <1>2
<1>4. h \in Heaps /\ h.mem \in [Units -> Cells]
  BY <1>2 DEF Fields
<1>5. Ranged(h, a) /\ Ranged(h, b)
  BY <1>2, <1>3, RangedIn
<1>6. PICK n : n = h.mem[a].capacity + 1 + h.mem[b].capacity
  OBVIOUS
<1>7. n \in 0 .. HeapEnd
  <2>1. PICK p \in Nat : p = h.mem[a].capacity
    BY <1>5 DEF Ranged
  <2>2. PICK q \in Nat : q = h.mem[b].capacity
    BY <1>5 DEF Ranged
  <2>3. a \in Nat /\ b = a + 1 + p /\ b + 1 + q <= HeapEnd
    <3>1. a \in Nat /\ b = a + 1 + h.mem[a].capacity /\ b + 1 + h.mem[b].capacity <= h.cursor
      BY <1>5 DEF Ranged
    <3>2. h.cursor \in Nat /\ h.cursor <= HeapEnd
      BY <1>2
    <3>3. QED
      BY <1>2, <2>1, <2>2, <3>1, <3>2
  <2>4. QED
    BY <1>2, <1>6, <2>1, <2>2, <2>3
<1>8. /\ g.cursor = h.cursor /\ g.live = h.live /\ Shaped(g) /\ g.bins = h.bins
      /\ g.reusable = h.reusable
      /\ g.mem = [h.mem EXCEPT ![a].capacity = n]
  BY <1>4, <1>6 DEF Heaps, Shaped
<1>9. PICK x \in Cells : x = h.mem[a]
  BY <1>3, <1>4
<1>10. PICK y : y = [x EXCEPT !.capacity = n]
  OBVIOUS
<1>11. y \in Cells /\ y.size = x.size /\ y.magic = x.magic /\ y.capacity = n
  BY <1>7, <1>10 DEF Cells
<1>12. g.mem = [h.mem EXCEPT ![a] = y]
  BY <1>8, <1>9, <1>10
<1>13. /\ g.mem \in [Units -> Cells] /\ SameBut(g, h, {a}) /\ g.mem[a].magic = h.mem[a].magic
       /\ g.mem[a].capacity = n
  <2>1. g.mem[a] = y
    BY <1>3, <1>4, <1>12
  <2>2. g.mem \in [Units -> Cells] /\ \A u \in Units \ {a} : g.mem[u] = h.mem[u]
    BY <1>4, <1>11, <1>12
  <2>3. QED
    BY <1>9, <1>11, <2>1, <2>2 DEF SameBut
<1>14. g \in Heaps
  BY <1>2, <1>8, <1>13, HeapMade DEF Fields
<1>15. \A c \in B \ {a, b} : g.mem[c].capacity = h.mem[c].capacity
  BY <1>2, <1>13 DEF SameBut
<1>16. Tiled(g, B \ {b}) /\ EndIn(g, a) = EndIn(h, b)
  <2>1. g.cursor = h.cursor /\ g.mem[a].capacity = h.mem[a].capacity + 1 + h.mem[b].capacity
    BY <1>6, <1>8, <1>13
  <2>2. EndIn(h, a) = b
    OBVIOUS
  <2>3. QED
    BY ONLY <1>2, <1>3, <1>15, <2>1, <2>2, Joined
<1>17. L \cup F \cup (X \ {b}) = B \ {b}
  BY <1>1 DEF Reusing
<1>18. Untouched(g, h, F)
  <2>1. ASSUME NEW f \in F, NEW u \in Extent(h, f) PROVE g.mem[u] = h.mem[u]
    <3>1. f \in B /\ f # a
      BY <1>3 DEF Reusing
    <3>2. u \in Units /\ a \in Extent(h, a)
      BY <1>2, <1>3, <3>1, UnitsTyped
    <3>3. u # a
      BY <1>2, <1>3, <3>1, <3>2, UnitsApart
    <3>4. QED
      BY <1>13, <3>2, <3>3 DEF SameBut
  <2>2. QED
    BY <2>1 DEF Untouched
<1>19. /\ Footed(g, F) /\ Binned(g, F)
       /\ \A f \in F : EndIn(g, f) = EndIn(h, f) /\ g.mem[f] = h.mem[f]
  <2>1. Footed(h, F) /\ Binned(h, F)
    BY DEF Reusing
  <2>2. QED
    <3>1. g.bins = h.bins /\ g.reusable = h.reusable
      BY <1>8
    <3>2. QED
      BY ONLY <1>2, <1>3, <1>18, <2>1, <3>1, FreesKept
<1>20. \A f \in F : EndIn(g, f) \in L \cup (X \ {b})
  <2>1. ASSUME NEW f \in F PROVE EndIn(h, f) # b
    <3>1. f \in B /\ f # a
      BY <1>3 DEF Reusing
    <3>2. QED
      BY <1>2, <1>3, <3>1, EndsOnce
  <2>2. QED
    BY <1>19, <2>1 DEF Reusing
<1>21. Tagged(g, L, F)
  BY <1>13, <1>19 DEF Reusing, Tagged, SameBut
<1>22. L \cap F = {} /\ (X \ {b}) \cap (L \cup F) = {}
  BY DEF Reusing
<1>23. Reusing(g, L, F, X \ {b})
  BY <1>14, <1>16, <1>17, <1>19, <1>20, <1>21, <1>22, Zenon DEF Reusing
<1>24. QED
  BY <1>8, <1>13, <1>16, <1>23 DEF MergedInto

-----------------------------------------------------------------------------
(* The neighbours of a block *)

\* The free blocks are those that are in the bin their header says.
LEMMA ListedIs ==
  ASSUME HeapAssumption, NEW h, NEW L, NEW F, NEW X, Reusing(h, L, F, X), NEW a
  PROVE  Listed(h, a) <=> a \in F
<1>1. PICK B : B = L \cup F \cup X
  OBVIOUS
<1>2. /\ HeapEnd \in Nat /\ Fields(h) /\ h.cursor \in 0 .. HeapEnd
      /\ Tiled(h, B) /\ B \subseteq Units
  BY <1>1, ReusingIs
<1>3. \A c : IsCapacity(c) => c \in 2 .. HeapEnd
  BY DEF IsCapacity, SmallestCapacity
<1>4. ASSUME Listed(h, a) PROVE a \in F
  <2>1. Bin(h.mem[a].capacity) \in Bins /\ a \in Elements(h.bins[Bin(h.mem[a].capacity)])
    BY <1>3, <1>4, BinIn DEF Listed
  <2>2. QED
    BY <2>1 DEF Reusing, Binned
<1>5. ASSUME a \in F PROVE Listed(h, a)
  <2>1. h.mem[a].capacity \in 2 .. HeapEnd /\ h.mem[a].magic = "free"
    <3>1. Ranged(h, a)
      BY <1>1, <1>2, <1>5, RangedIn
    <3>2. QED
      BY <1>5, <3>1 DEF Ranged, Reusing, Tagged
  <2>2. Bin(h.mem[a].capacity) \in Bins
    BY <2>1, BinIn
  <2>3. a \in Elements(h.bins[Bin(h.mem[a].capacity)])
    BY <1>5, <2>2 DEF Reusing, Binned
  <2>4. QED
    BY <2>1, <2>3 DEF Listed, IsCapacity, SmallestCapacity
<1>6. QED
  BY <1>4, <1>5

LEMMA NextIs ==
  ASSUME HeapAssumption, NEW h, NEW L, NEW F, NEW X, Reusing(h, L, F, X), NEW a \in L \cup F \cup X
  PROVE  NextIsFree(h, a) <=> EndIn(h, a) \in F
<1>1. PICK B : B = L \cup F \cup X
  OBVIOUS
<1>2. /\ HeapEnd \in Nat /\ Fields(h) /\ h.cursor \in 0 .. HeapEnd
      /\ Tiled(h, B) /\ B \subseteq Units
  BY <1>1, ReusingIs
<1>3. PICK b : b = EndIn(h, a)
  OBVIOUS
<1>4. Listed(h, b) <=> b \in F
  BY ListedIs
<1>5. b \in F => b + 1 <= h.cursor /\ b + 1 + h.mem[b].capacity <= h.cursor
  <2>1. SUFFICES ASSUME b \in F PROVE b + 1 <= h.cursor /\ b + 1 + h.mem[b].capacity <= h.cursor
    OBVIOUS
  <2>2. Ranged(h, b)
    BY <1>1, <1>2, <2>1, RangedIn
  <2>3. QED
    BY <1>2, <2>2 DEF Ranged
<1>6. NextIsFree(h, a) <=> b + 1 <= h.cursor /\ Listed(h, b) /\ b + 1 + h.mem[b].capacity <= h.cursor
  BY <1>3, Zenon DEF NextIsFree, EndIn
<1>7. QED
  BY <1>3, <1>4, <1>5, <1>6, Zenon

\* What looks like a footer is one when a free block says so.
LEMMA PreviousIs ==
  ASSUME HeapAssumption, NEW h, NEW L, NEW F, NEW X, Reusing(h, L, F, X), NEW a \in L \cup F \cup X
  PROVE  /\ PreviousIsFree(h, a) =>
              a - 1 - h.mem[a - 1].word \in F /\ EndIn(h, a - 1 - h.mem[a - 1].word) = a
         /\ ~ PreviousIsFree(h, a) => \A f \in F : EndIn(h, f) # a
<1>1. PICK B : B = L \cup F \cup X
  OBVIOUS
<1>2. /\ HeapEnd \in Nat /\ Fields(h) /\ h.cursor \in 0 .. HeapEnd
      /\ Tiled(h, B) /\ B \subseteq Units
  BY <1>1, ReusingIs
<1>3. a \in Nat
  BY <1>1, <1>2 DEF Units, Base
<1>4. ASSUME PreviousIsFree(h, a)
      PROVE  a - 1 - h.mem[a - 1].word \in F /\ EndIn(h, a - 1 - h.mem[a - 1].word) = a
  <2>1. PICK w : w = h.mem[a - 1].word
    OBVIOUS
  <2>2. PICK p : p = a - 1 - w
    OBVIOUS
  <2>3. w \in 2 .. a - 1 /\ h.mem[p].capacity = w /\ Listed(h, p)
    <3>1. /\ h.mem[a - 1].word \in SmallestCapacity .. a - Base - 1
          /\ h.mem[a - 1 - h.mem[a - 1].word].capacity = h.mem[a - 1].word
          /\ Listed(h, a - 1 - h.mem[a - 1].word)
      BY <1>4, Zenon DEF PreviousIsFree
    <3>2. w \in SmallestCapacity .. a - Base - 1 /\ h.mem[p].capacity = w /\ Listed(h, p)
      BY <2>1, <2>2, <3>1, Zenon
    <3>3. QED
      BY <1>3, <3>2 DEF SmallestCapacity, Base
  <2>4. p \in F
    BY <2>3, ListedIs
  <2>5. EndIn(h, p) = a
    BY <1>3, <2>2, <2>3 DEF EndIn
  <2>6. QED
    BY <2>1, <2>2, <2>4, <2>5
<1>5. ASSUME NEW f \in F, EndIn(h, f) = a PROVE PreviousIsFree(h, a)
  <2>1. Ranged(h, f)
    BY <1>1, <1>2, RangedIn
  <2>2. PICK c : c = h.mem[f].capacity
    OBVIOUS
  <2>3. f \in Nat /\ c \in 2 .. HeapEnd /\ a = f + 1 + c
    BY <1>5, <2>1, <2>2 DEF Ranged
  <2>4. f + c = a - 1 /\ f = a - 1 - c /\ c \in 2 .. a - 1 /\ a >= 3
    BY <1>2, <2>3
  <2>5. h.mem[f + c].capacity = Mark /\ h.mem[f + c].word = c
    BY <2>2 DEF Reusing, Footed
  <2>6. h.mem[a - 1].capacity = Mark /\ h.mem[a - 1].word = c
    BY <2>4, <2>5
  <2>7. Listed(h, f)
    BY ListedIs
  <2>8. /\ a >= Base + 1 + SmallestCapacity
        /\ h.mem[a - 1].word \in SmallestCapacity .. a - Base - 1
    BY <1>3, <2>4, <2>6 DEF SmallestCapacity, Base
  <2>9. a - 1 - h.mem[a - 1].word = f
    BY <2>4, <2>6
  <2>10. QED
    BY <2>2, <2>6, <2>7, <2>8, <2>9, Zenon DEF PreviousIsFree
<1>6. QED
  BY <1>4, <1>5

LEMMA LeavesAlone ==
  ASSUME HeapEnd \in Nat, NEW h, h.cursor \in 0 .. HeapEnd, NEW B, Tiled(h, B), NEW L, L \subseteq B,
         NEW a \in B, a \notin L, NEW v \in Extent(h, a), NEW g, SameBut(g, h, {v})
  PROVE  Untouched(g, h, L)
<1>1. ASSUME NEW b \in L, NEW u \in Extent(h, b) PROVE g.mem[u] = h.mem[u]
  <2>1. b \in B /\ b # a
    OBVIOUS
  <2>2. u \in Units
    BY <2>1, UnitsTyped
  <2>3. u # v
    BY <2>1, UnitsApart
  <2>4. QED
    BY <2>2, <2>3 DEF SameBut
<1>2. QED
  BY <1>1 DEF Untouched

LEMMA LeavesOn ==
  ASSUME HeapEnd \in Nat, NEW h, h.cursor \in 0 .. HeapEnd, NEW B, Tiled(h, B), NEW L, L \subseteq B,
         NEW g, Untouched(g, h, L)
  PROVE  /\ \A a \in L : g.mem[a] = h.mem[a] /\ Extent(g, a) = Extent(h, a)
         /\ \A k : Untouched(k, g, L) => Untouched(k, h, L)
<1>1. \A a \in L : g.mem[a] = h.mem[a]
  BY UnitsTyped DEF Untouched
<1>2. \A a \in L : Extent(g, a) = Extent(h, a)
  BY <1>1 DEF Extent
<1>3. QED
  BY <1>1, <1>2 DEF Untouched

\* What a merge with the next block comes to.
NextMerged(g, a, h, L, F) ==
  \E G \in SUBSET F : /\ Reusing(g, L, G, {a}) /\ EndIn(g, a) \in L \cup {g.cursor}
                      /\ g.cursor = h.cursor /\ g.live = h.live /\ Untouched(g, h, L)

LEMMA MergedNext ==
  ASSUME HeapAssumption, NEW h, NEW L, NEW F, NEW a, Reusing(h, L, F, {a}), NEW g, g = MergeNext(h, a)
  PROVE  NextMerged(g, a, h, L, F)
<1>1. PICK B : B = L \cup F \cup {a}
  OBVIOUS
<1>2. /\ HeapEnd \in Nat /\ Fields(h) /\ h.cursor \in 0 .. HeapEnd
      /\ Tiled(h, B) /\ B \subseteq Units
  BY <1>1, ReusingIs
<1>3. a \in B /\ L \subseteq B /\ F \subseteq B /\ a \notin L /\ a \notin F /\ L \cap F = {}
  BY <1>1 DEF Reusing
<1>4. PICK b : b = EndIn(h, a)
  OBVIOUS
<1>5. Ranged(h, a) /\ b \in B \cup {h.cursor} /\ b # a
  <2>1. Ranged(h, a)
    BY <1>2, <1>3, RangedIn
  <2>2. b \in B \cup {h.cursor}
    BY <1>2, <1>3, <1>4 DEF Tiled
  <2>3. b # a
    BY <1>2, <1>4, <2>1 DEF Ranged
  <2>4. QED
    BY <2>1, <2>2, <2>3
<1>6. NextIsFree(h, a) <=> b \in F
  BY <1>4, NextIs
<1>7. CASE b \notin F
  <2>1. g = h
    BY <1>6, <1>7, Zenon DEF MergeNext
  <2>2. EndIn(g, a) \in L \cup {g.cursor}
    BY <1>1, <1>4, <1>5, <1>7, <2>1
  <2>3. Untouched(h, h, L)
    BY DEF Untouched
  <2>4. QED
    BY <2>1, <2>2, <2>3 DEF NextMerged
<1>8. CASE b \in F
  <2>1. PICK k : k = RemoveFree(h, b)
    OBVIOUS
  <2>2. /\ Reusing(k, L, F \ {b}, {a} \cup {b})
        /\ SameBut(k, h, {b}) /\ k.cursor = h.cursor /\ k.live = h.live
        /\ k.mem[b].capacity = h.mem[b].capacity
    <3>1. Reusing(h, L, F, {a})
      OBVIOUS
    <3>2. UnlinkedFrom(k, h, L, F, {a}, b)
      BY ONLY HeapAssumption, <1>8, <2>1, <3>1, Unlinks, Zenon
    <3>3. QED
      BY <3>2, Zenon DEF UnlinkedFrom
  <2>3. g = [k EXCEPT !.mem[a].capacity = @ + 1 + k.mem[b].capacity]
    <3>1. g = [RemoveFree(h, b) EXCEPT !.mem[a].capacity = @ + 1 + h.mem[b].capacity]
      BY <1>4, <1>6, <1>8 DEF MergeNext, EndIn
    <3>2. QED
      BY <2>1, <2>2, <3>1
  <2>4. k.mem[a] = h.mem[a] /\ EndIn(k, a) = b
    <3>1. k.mem[a] = h.mem[a]
      BY <1>2, <1>3, <1>5, <2>2 DEF SameBut
    <3>2. QED
      BY <1>4, <3>1 DEF EndIn
  <2>5. /\ Reusing(g, L, F \ {b}, ({a} \cup {b}) \ {b}) /\ EndIn(g, a) = EndIn(k, b)
        /\ SameBut(g, k, {a}) /\ g.cursor = k.cursor /\ g.live = k.live
    <3>1. a \in {a} \cup {b} /\ b \in {a} \cup {b}
      OBVIOUS
    <3>2. MergedInto(g, k, L, F \ {b}, {a} \cup {b}, a, b)
      BY ONLY HeapAssumption, <2>2, <2>3, <2>4, <3>1, Merges, Zenon
    <3>3. QED
      BY <3>2, Zenon DEF MergedInto
  <2>6. ({a} \cup {b}) \ {b} = {a}
    BY <1>5
  <2>7. EndIn(g, a) \in L
    <3>1. EndIn(g, a) = EndIn(h, b)
      BY <2>2, <2>5 DEF EndIn
    <3>2. EndIn(h, b) \in L \cup {a}
      BY <1>8 DEF Reusing
    <3>3. EndIn(h, b) # a
      <4>1. Ranged(h, b)
        BY <1>2, <1>3, <1>8, RangedIn
      <4>2. QED
        BY <1>2, <1>4, <1>5, <4>1 DEF Ranged
    <3>4. QED
      BY <3>1, <3>2, <3>3
  <2>8. Untouched(g, h, L)
    <3>1. ASSUME NEW c \in L, NEW u \in Extent(h, c) PROVE g.mem[u] = h.mem[u]
      <4>1. c \in B /\ c # a /\ c # b
        BY <1>3, <1>8
      <4>2. u \in Units /\ u # a /\ u # b
        <5>1. u \in Units /\ a \in Extent(h, a) /\ b \in Extent(h, b)
          BY <1>2, <1>3, <1>8, <4>1, UnitsTyped
        <5>2. QED
          BY <1>2, <1>3, <1>8, <4>1, <5>1, UnitsApart
      <4>3. QED
        BY <2>2, <2>5, <4>2 DEF SameBut
    <3>2. QED
      BY <3>1 DEF Untouched
  <2>9. QED
    <3>1. F \ {b} \in SUBSET F /\ Reusing(g, L, F \ {b}, {a})
      BY <2>5, <2>6
    <3>2. g.cursor = h.cursor /\ g.live = h.live /\ EndIn(g, a) \in L \cup {g.cursor}
      BY <2>2, <2>5, <2>7
    <3>3. QED
      BY <2>8, <3>1, <3>2 DEF NextMerged
<1>9. QED
  BY <1>7, <1>8

\* What a merge with the previous block comes to: the block b that a is part of then.
PreviousMerged(g, b, h, L, F) ==
  \E G \in SUBSET F : /\ Reusing(g, L, G, {b}) /\ EndIn(g, b) \in L \cup {g.cursor}
                      /\ \A f \in G : EndIn(g, f) # b
                      /\ g.cursor = h.cursor /\ g.live = h.live /\ Untouched(g, h, L)

LEMMA MergedPrevious ==
  ASSUME HeapAssumption, NEW h, NEW L, NEW F, NEW a, Reusing(h, L, F, {a}),
         EndIn(h, a) \in L \cup {h.cursor}, NEW m, m = MergePrevious(h, a)
  PROVE  PreviousMerged(m.heap, m.at, h, L, F)
<1>1. PICK B : B = L \cup F \cup {a}
  OBVIOUS
<1>2. /\ HeapEnd \in Nat /\ Fields(h) /\ h.cursor \in 0 .. HeapEnd
      /\ Tiled(h, B) /\ B \subseteq Units
  BY <1>1, ReusingIs
<1>3. a \in B /\ L \subseteq B /\ F \subseteq B /\ a \notin L /\ a \notin F /\ L \cap F = {}
  BY <1>1 DEF Reusing
<1>4. PICK b : b = a - 1 - h.mem[a - 1].word
  OBVIOUS
<1>5. /\ PreviousIsFree(h, a) => b \in F /\ EndIn(h, b) = a
      /\ ~ PreviousIsFree(h, a) => \A f \in F : EndIn(h, f) # a
  BY <1>4, PreviousIs
<1>6. CASE ~ PreviousIsFree(h, a)
  <2>1. m.at = a /\ m.heap = h
    BY <1>6 DEF MergePrevious
  <2>2. Untouched(h, h, L)
    BY DEF Untouched
  <2>3. QED
    BY <1>5, <1>6, <2>1, <2>2 DEF PreviousMerged
<1>7. CASE PreviousIsFree(h, a)
  <2>1. PICK k : k = RemoveFree(h, b)
    OBVIOUS
  <2>2. b \in F /\ EndIn(h, b) = a
    BY <1>5, <1>7
  <2>3. /\ Reusing(k, L, F \ {b}, {a} \cup {b})
        /\ SameBut(k, h, {b}) /\ k.cursor = h.cursor /\ k.live = h.live
        /\ k.mem[b].capacity = h.mem[b].capacity
    <3>1. Reusing(h, L, F, {a})
      OBVIOUS
    <3>2. UnlinkedFrom(k, h, L, F, {a}, b)
      BY ONLY HeapAssumption, <2>1, <2>2, <3>1, Unlinks, Zenon
    <3>3. QED
      BY <3>2, Zenon DEF UnlinkedFrom
  <2>4. k.mem[a] = h.mem[a]
    BY <1>2, <1>3, <2>2, <2>3 DEF SameBut
  <2>5. PICK g : g = [k EXCEPT !.mem[b].capacity = @ + 1 + k.mem[a].capacity]
    OBVIOUS
  <2>6. m.at = b /\ m.heap = g
    <3>1. m = [at |-> b, heap |-> [RemoveFree(h, b) EXCEPT !.mem[b].capacity = @ + 1 + h.mem[a].capacity]]
      BY <1>4, <1>7 DEF MergePrevious
    <3>2. m = [at |-> b, heap |-> [k EXCEPT !.mem[b].capacity = @ + 1 + k.mem[a].capacity]]
      BY <2>1, <2>4, <3>1
    <3>3. QED
      BY <2>5, <3>2
  <2>7. /\ Reusing(g, L, F \ {b}, ({a} \cup {b}) \ {a}) /\ EndIn(g, b) = EndIn(k, a)
        /\ SameBut(g, k, {b}) /\ g.cursor = k.cursor /\ g.live = k.live
    <3>1. a \in {a} \cup {b} /\ b \in {a} \cup {b}
      OBVIOUS
    <3>2. EndIn(k, b) = a
      BY <2>2, <2>3 DEF EndIn
    <3>3. MergedInto(g, k, L, F \ {b}, {a} \cup {b}, b, a)
      BY ONLY HeapAssumption, <2>3, <2>5, <3>1, <3>2, Merges, Zenon
    <3>4. QED
      BY <3>3, Zenon DEF MergedInto
  <2>8. ({a} \cup {b}) \ {a} = {b}
    BY <1>3, <2>2
  <2>9. EndIn(g, b) \in L \cup {g.cursor}
    <3>1. EndIn(k, a) = EndIn(h, a)
      BY <2>4 DEF EndIn
    <3>2. QED
      BY <2>3, <2>7, <3>1
  <2>10. \A f \in F \ {b} : EndIn(g, f) # b
    <3>1. ASSUME NEW f \in F \ {b} PROVE EndIn(g, f) # b
      <4>1. g.mem[f] = h.mem[f]
        BY <1>2, <1>3, <2>3, <2>7 DEF SameBut
      <4>2. EndIn(g, f) = EndIn(h, f)
        BY <4>1 DEF EndIn
      <4>3. EndIn(h, f) \in L \cup {a}
        BY DEF Reusing
      <4>4. QED
        BY <1>3, <2>2, <4>2, <4>3
    <3>2. QED
      BY <3>1
  <2>11. Untouched(g, h, L)
    <3>1. SameBut(g, h, {b})
      BY <2>3, <2>7 DEF SameBut
    <3>2. b \in B /\ b \notin L /\ b \in Extent(h, b)
      BY <1>2, <1>3, <2>2, UnitsTyped
    <3>3. QED
      BY ONLY <1>2, <1>3, <3>1, <3>2, LeavesAlone
  <2>12. PreviousMerged(g, b, h, L, F)
    <3>1. F \ {b} \in SUBSET F /\ Reusing(g, L, F \ {b}, {b})
      BY <2>7, <2>8
    <3>2. g.cursor = h.cursor /\ g.live = h.live
      BY <2>3, <2>7
    <3>3. QED
      BY <2>9, <2>10, <2>11, <3>1, <3>2 DEF PreviousMerged
  <2>13. QED
    BY <2>6, <2>12
<1>8. QED
  BY <1>6, <1>7

\* The last block goes back.
LEMMA GivesBack ==
  ASSUME HeapAssumption, NEW h, NEW L, NEW F, NEW b, Reusing(h, L, F, {b}),
         EndIn(h, b) = h.cursor, \A f \in F : EndIn(h, f) # b,
         NEW g, g = [h EXCEPT !.cursor = b]
  PROVE  Reusing(g, L, F, {}) /\ g.live = h.live /\ g.mem = h.mem
<1>1. PICK B : B = L \cup F \cup {b}
  OBVIOUS
<1>2. /\ HeapEnd \in Nat /\ Fields(h) /\ h.cursor \in 0 .. HeapEnd
      /\ Tiled(h, B) /\ B \subseteq Units /\ h \in Heaps
  BY <1>1, ReusingIs DEF Fields
<1>3. b \in B /\ F \subseteq B /\ b \notin L /\ b \notin F
  BY <1>1 DEF Reusing
<1>4. /\ g.cursor = b /\ g.live = h.live /\ Shaped(g) /\ g.bins = h.bins
      /\ g.reusable = h.reusable /\ g.mem = h.mem
  BY <1>2 DEF Heaps, Shaped
<1>5. b \in 0 .. HeapEnd
  BY <1>2, <1>3 DEF Units, Base
<1>6. g \in Heaps
  BY <1>2, <1>4, <1>5, HeapMade DEF Fields
<1>7. Tiled(g, B \ {b})
  <2>1. EndIn(h, b) = h.cursor /\ \A c \in B \ {b} : g.mem[c].capacity = h.mem[c].capacity
    BY <1>4
  <2>2. g.cursor = b
    BY <1>4
  <2>3. QED
    BY ONLY <1>2, <1>3, <2>1, <2>2, CutBack
<1>8. L \cup F \cup {} = B \ {b}
  BY <1>1, <1>3
<1>9. Footed(g, F) /\ Binned(g, F) /\ \A f \in F : EndIn(g, f) = EndIn(h, f)
  BY <1>4 DEF Reusing, Footed, Binned, EndIn
<1>10. \A f \in F : EndIn(g, f) \in L \cup {}
  BY <1>9 DEF Reusing
<1>11. Tagged(g, L, F) /\ L \cap F = {} /\ {} \cap (L \cup F) = {}
  BY <1>4 DEF Reusing, Tagged
<1>12. Reusing(g, L, F, {})
  BY <1>6, <1>7, <1>8, <1>9, <1>10, <1>11, Zenon DEF Reusing
<1>13. QED
  BY <1>4, <1>12

-----------------------------------------------------------------------------
(* Headers that are written, and coalescing *)

Reheads(g, h, a, y) ==
  /\ Shaped(g) /\ g.cursor = h.cursor /\ g.bins = h.bins /\ g.reusable = h.reusable
  /\ g.live \in Seq([site : Sites, bytes : Int]) /\ g.mem = [h.mem EXCEPT ![a] = y]
  /\ y \in Cells /\ y.capacity = h.mem[a].capacity

Retags(L2, X2, L, X, a, y) ==
  /\ a \in L \cup X /\ L2 \cup X2 = L \cup X /\ L2 \cap X2 = {} /\ L2 \ {a} = L \ {a}
  /\ y.magic = "live" <=> a \in L2

\* A header is written: that of a block which is not free, and keeps its capacity.
LEMMA Headed ==
  ASSUME HeapAssumption, NEW h, NEW L, NEW F, NEW X, Blocks(h, L, F, X), NEW a,
         NEW y, NEW g, Reheads(g, h, a, y), NEW L2, NEW X2, Retags(L2, X2, L, X, a, y)
  PROVE  Blocks(g, L2, F, X2) /\ SameBut(g, h, {a}) /\ g.mem[a] = y
<1>1. PICK B : B = L \cup F \cup X
  OBVIOUS
<1>2. /\ HeapEnd \in Nat /\ Fields(h) /\ h.cursor \in 0 .. HeapEnd
      /\ Tiled(h, B) /\ B \subseteq Units
  BY <1>1, BlocksAre
<1>3. a \in B /\ F \subseteq B /\ a \in Units /\ a \notin F
  BY <1>1, <1>2 DEF Blocks, Retags
<1>4. h.mem \in [Units -> Cells]
  BY <1>2 DEF Fields
<1>5. g.mem \in [Units -> Cells] /\ g.mem[a] = y /\ SameBut(g, h, {a})
  BY <1>3, <1>4 DEF SameBut, Reheads
<1>6. g \in Heaps
  BY <1>2, <1>5, HeapMade DEF Fields, Reheads
<1>7. \A b \in L \cup F \cup X : g.mem[b].capacity = h.mem[b].capacity
  BY <1>1, <1>2, <1>5 DEF SameBut, Reheads
<1>8. Untouched(g, h, F)
  <2>1. a \in Extent(h, a)
    BY <1>2, <1>3, UnitsTyped
  <2>2. QED
    BY <1>2, <1>3, <1>5, <2>1, LeavesAlone
<1>9. \A u \in Units : g.mem[u].magic = "live" <=> u \in L2
  <2>1. \A u \in Units : h.mem[u].magic = "live" <=> u \in L
    BY DEF Blocks, Tagged
  <2>2. ASSUME NEW u \in Units PROVE g.mem[u].magic = "live" <=> u \in L2
    <3>1. CASE u = a
      BY <1>5, <3>1 DEF Retags
    <3>2. CASE u # a
      BY <1>5, <2>1, <3>2 DEF SameBut, Retags
    <3>3. QED
      BY <3>1, <3>2
  <2>3. QED
    BY <2>2
<1>10. L2 \cup X2 = L \cup X /\ L2 \cap X2 = {} /\ Blocks(h, L, F, X)
  BY DEF Retags
<1>11. g.cursor = h.cursor /\ g.bins = h.bins /\ g.reusable = h.reusable
  BY DEF Reheads
<1>12. Blocks(g, L2, F, X2)
  BY ONLY HeapAssumption, <1>6, <1>7, <1>8, <1>9, <1>10, <1>11, Retouched
<1>13. QED
  BY <1>5, <1>12

FreeCell(c) == [size |-> 0, magic |-> "free", capacity |-> c, word |-> 0]

LEMMA FreeCellIs ==
  ASSUME HeapEnd \in Nat, NEW c \in 0 .. HeapEnd
  PROVE  /\ FreeCell(c) \in Cells /\ FreeCell(c).capacity = c /\ FreeCell(c).magic = "free"
         /\ FreeCell(c).size = 0
BY DEF FreeCell, Cells

\* A block that is given back to a heap that reuses blocks.
LEMMA Coalesced ==
  ASSUME HeapAssumption, flags.reuse, NEW h, NEW L, NEW F, NEW a, Reusing(h, L, F, {a}),
         NEW g, g = Coalesce(h, a)
  PROVE  \E G \in SUBSET F : \E b \in Units :
           /\ Reusing(g, L, G, {}) \/ Reusing(g, L, G \cup {b}, {})
           /\ g.live = h.live /\ Untouched(g, h, L)
<1>1. PICK B : B = L \cup F \cup {a}
  OBVIOUS
<1>2. /\ HeapEnd \in Nat /\ Fields(h) /\ h.cursor \in 0 .. HeapEnd
      /\ Tiled(h, B) /\ B \subseteq Units
  BY <1>1, ReusingIs
<1>3. L \subseteq B
  BY <1>1
<1>4. PICK n : n = MergeNext(h, a)
  OBVIOUS
<1>5. PICK G1 \in SUBSET F :
        /\ Reusing(n, L, G1, {a}) /\ EndIn(n, a) \in L \cup {n.cursor}
        /\ n.cursor = h.cursor /\ n.live = h.live /\ Untouched(n, h, L)
  <2>1. Reusing(h, L, F, {a})
    OBVIOUS
  <2>2. QED
    <3>1. NextMerged(n, a, h, L, F)
      BY <1>4, <2>1, MergedNext
    <3>2. QED
      BY <3>1, Zenon DEF NextMerged
<1>6. PICK m : m = MergePrevious(n, a)
  OBVIOUS
<1>7. PICK k, b : k = m.heap /\ b = m.at
  OBVIOUS
<1>8. PICK G \in SUBSET G1 :
        /\ Reusing(k, L, G, {b}) /\ EndIn(k, b) \in L \cup {k.cursor}
        /\ \A f \in G : EndIn(k, f) # b
        /\ k.cursor = n.cursor /\ k.live = n.live /\ Untouched(k, n, L)
  <2>1. PreviousMerged(k, b, n, L, G1)
    BY <1>5, <1>6, <1>7, MergedPrevious
  <2>2. QED
    BY <2>1 DEF PreviousMerged
<1>9. PICK C : C = L \cup G \cup {b}
  OBVIOUS
<1>10. /\ Fields(k) /\ k.cursor \in 0 .. HeapEnd /\ Tiled(k, C) /\ C \subseteq Units
       /\ L \subseteq C /\ b \in C /\ b \in Units /\ b \notin L /\ b \notin G /\ k \in Heaps
  <2>1. Fields(k) /\ k.cursor \in 0 .. HeapEnd /\ Tiled(k, C) /\ C \subseteq Units
    BY <1>8, <1>9, ReusingIs
  <2>2. L \subseteq C /\ b \in C /\ b \in Units
    BY <1>9, <2>1
  <2>3. b \notin L /\ b \notin G /\ k \in Heaps
    BY <1>8 DEF Reusing
  <2>4. QED
    BY <2>1, <2>2, <2>3
<1>11. Untouched(k, h, L)
  BY <1>2, <1>3, <1>5, <1>8, LeavesOn
<1>12. G \in SUBSET F
  OBVIOUS
<1>13. g = IF EndIn(k, b) = k.cursor THEN [k EXCEPT !.cursor = b]
           ELSE InsertFree([k EXCEPT !.mem[b].size = 0, !.mem[b].magic = "free", !.mem[b].word = 0], b)
  <2>1. m = MergePrevious(MergeNext(h, a), a)
    BY <1>4, <1>6
  <2>2. g = IF m.at + 1 + m.heap.mem[m.at].capacity = m.heap.cursor
            THEN [m.heap EXCEPT !.cursor = m.at]
            ELSE InsertFree([m.heap EXCEPT !.mem[m.at].size = 0, !.mem[m.at].magic = "free",
                                           !.mem[m.at].word = 0], m.at)
    BY <2>1 DEF Coalesce
  <2>3. g = IF b + 1 + k.mem[b].capacity = k.cursor
            THEN [k EXCEPT !.cursor = b]
            ELSE InsertFree([k EXCEPT !.mem[b].size = 0, !.mem[b].magic = "free",
                                      !.mem[b].word = 0], b)
    BY <1>7, <2>2
  <2>4. QED
    BY <2>3, Zenon DEF EndIn
<1>14. CASE EndIn(k, b) = k.cursor
  <2>1. g = [k EXCEPT !.cursor = b]
    BY <1>13, <1>14, Zenon
  <2>2. Reusing(g, L, G, {}) /\ g.live = k.live /\ g.mem = k.mem
    BY ONLY HeapAssumption, <1>8, <1>14, <2>1, GivesBack
  <2>3. Untouched(g, h, L)
    BY <1>11, <2>2 DEF Untouched
  <2>4. QED
    BY <1>5, <1>8, <1>10, <1>12, <2>2, <2>3
<1>15. CASE EndIn(k, b) # k.cursor
  <2>1. EndIn(k, b) \in L
    BY <1>8, <1>15
  <2>2. PICK t : t = [k EXCEPT !.mem[b].size = 0, !.mem[b].magic = "free", !.mem[b].word = 0]
    OBVIOUS
  <2>3. g = InsertFree(t, b)
    BY <1>13, <1>15, <2>2, Zenon
  <2>4. PICK c \in 2 .. HeapEnd : c = k.mem[b].capacity
    <3>1. Ranged(k, b)
      BY <1>2, <1>10, RangedIn
    <3>2. QED
      BY <3>1 DEF Ranged
  <2>5. PICK y \in Cells : y = FreeCell(c) /\ y.capacity = c /\ y.magic = "free"
    BY <1>2, <2>4, FreeCellIs
  <2>6. k.mem \in [Units -> Cells]
    BY <1>10 DEF Fields
  <2>7. t.mem = [k.mem EXCEPT ![b] = y]
    <3>1. t.mem = [k.mem EXCEPT ![b].size = 0, ![b].magic = "free", ![b].word = 0]
      BY <1>10, <2>2 DEF Heaps
    <3>2. PICK x \in Cells : x = k.mem[b]
      BY <1>10, <2>6
    <3>3. t.mem = [k.mem EXCEPT ![b] = [x EXCEPT !.size = 0, !.magic = "free", !.word = 0]]
      BY <1>10, <2>6, <3>1, <3>2
    <3>4. [x EXCEPT !.size = 0, !.magic = "free", !.word = 0] = y
      <4>1. PICK z : z = [x EXCEPT !.size = 0, !.magic = "free", !.word = 0]
        OBVIOUS
      <4>2. z = [size |-> 0, magic |-> "free", capacity |-> x.capacity, word |-> 0]
        BY <4>1 DEF Cells
      <4>3. x.capacity = c
        BY <2>4, <3>2
      <4>4. QED
        BY <2>5, <4>1, <4>2, <4>3 DEF FreeCell
    <3>5. QED
      BY <3>3, <3>4
  <2>8. /\ Shaped(t) /\ t.cursor = k.cursor /\ t.bins = k.bins /\ t.reusable = k.reusable
        /\ t.live = k.live
    BY <1>10, <2>2 DEF Heaps, Shaped
  <2>9. Blocks(t, L, G, {b}) /\ SameBut(t, k, {b}) /\ t.mem[b] = y
    <3>1. Blocks(k, L, G, {b})
      BY <1>8, ReusesBlocks
    <3>2. Retags(L, {b}, L, {b}, b, y)
      BY <1>10, <2>5 DEF Retags
    <3>3. Reheads(t, k, b, y)
      BY <1>10, <2>4, <2>5, <2>7, <2>8 DEF Fields, Reheads
    <3>4. QED
      BY ONLY HeapAssumption, <3>1, <3>2, <3>3, Headed
  <2>10. Reusing(t, L, G, {b})
    BY <2>9, ReusesBlocks
  <2>11. EndIn(t, b) \in L \cup ({b} \ {b}) /\ t.mem[b].magic = "free"
    BY <2>1, <2>4, <2>5, <2>9 DEF EndIn
  <2>12. \A f \in G : EndIn(t, f) # b
    <3>1. \A f \in G : t.mem[f] = k.mem[f]
      BY <1>9, <1>10, <2>9 DEF SameBut
    <3>2. QED
      BY <1>8, <3>1 DEF EndIn
  <2>13. /\ Reusing(g, L, G \cup {b}, {b} \ {b})
         /\ SameBut(g, t, {b + t.mem[b].capacity}) /\ g.live = t.live
    <3>1. PICK X : X = {b}
      OBVIOUS
    <3>2. b \in X /\ Reusing(t, L, G, X) /\ EndIn(t, b) \in L \cup (X \ {b})
      BY <2>10, <2>11, <3>1
    <3>3. t.mem[b].magic = "free"
      BY <2>11
    <3>4. LinkedIn(g, t, L, G, X, b)
      BY ONLY HeapAssumption, <2>3, <2>12, <3>2, <3>3, Links, Zenon
    <3>5. QED
      BY <3>1, <3>4, Zenon DEF LinkedIn
  <2>14. Untouched(g, k, L)
    <3>1. Untouched(t, k, L)
      <4>1. b \in Extent(k, b)
        BY <1>2, <1>10, UnitsTyped
      <4>2. QED
        BY ONLY <1>2, <1>10, <2>9, <4>1, LeavesAlone
    <3>2. Untouched(g, t, L)
      <4>1. Tiled(t, C) /\ t.cursor \in 0 .. HeapEnd
        BY <1>9, <1>10, <2>8, <2>10 DEF Reusing
      <4>2. b + t.mem[b].capacity \in Extent(t, b)
        BY <1>2, <1>10, <4>1, UnitsTyped
      <4>3. QED
        BY ONLY <1>2, <1>10, <2>13, <4>1, <4>2, LeavesAlone
    <3>3. QED
      BY <1>2, <1>10, <3>1, <3>2, LeavesOn
  <2>15. Untouched(g, h, L)
    BY <1>2, <1>3, <1>11, <2>14, LeavesOn
  <2>16. {b} \ {b} = {}
    OBVIOUS
  <2>17. Reusing(g, L, G \cup {b}, {}) /\ g.live = h.live
    BY <1>5, <1>8, <2>8, <2>13, <2>16
  <2>18. QED
    BY <1>10, <1>12, <2>15, <2>17
<1>16. QED
  BY <1>14, <1>15

-----------------------------------------------------------------------------
(* Taking a free block *)

\* A block in hand is divided, of which the rest is marked as free.
Halves(g, h, a, r, L, F) ==
  /\ Reusing(g, L, F, {a, r}) /\ EndIn(g, r) \in L /\ \A f \in F : EndIn(g, f) # r
  /\ r # a /\ g.mem[r].magic = "free"
  /\ r \in Units /\ Untouched(g, h, L) /\ g.cursor = h.cursor /\ g.live = h.live

SplitOff(g, h, a, n, d, r) ==
  /\ n \in 2 .. HeapEnd /\ d = h.mem[a].capacity - n - 1 /\ d >= 2 /\ r = a + 1 + n
  /\ g = [h EXCEPT !.mem[r] = FreeCell(d), !.mem[a].capacity = n]

LEMMA Splitted ==
  ASSUME HeapAssumption, NEW h, NEW L, NEW F, NEW a, Reusing(h, L, F, {a}), EndIn(h, a) \in L,
         NEW n, NEW d, NEW r, NEW g, SplitOff(g, h, a, n, d, r)
  PROVE  Halves(g, h, a, r, L, F) /\ g.mem[a].capacity = n
<1>1. PICK B : B = L \cup F \cup {a}
  OBVIOUS
<1>2. /\ HeapEnd \in Nat /\ Fields(h) /\ h.cursor \in 0 .. HeapEnd
      /\ Tiled(h, B) /\ B \subseteq Units /\ h \in Heaps
  BY <1>1, ReusingIs DEF Fields
<1>3. a \in B /\ L \subseteq B /\ F \subseteq B /\ a \notin L /\ a \notin F /\ L \cap F = {} /\ a \in Units
  BY <1>1, <1>2 DEF Reusing
<1>4. Ranged(h, a)
  BY <1>2, <1>3, RangedIn
<1>5. PICK c \in 2 .. HeapEnd : c = h.mem[a].capacity
  BY <1>4 DEF Ranged
<1>6. d = c - n - 1 /\ r = a + 1 + n /\ n \in 2 .. HeapEnd /\ d >= 2
  BY <1>5 DEF SplitOff
<1>7. d \in 2 .. HeapEnd /\ a \in Nat
  BY <1>2, <1>4, <1>5, <1>6 DEF Ranged
<1>8. r \in Extent(h, a) /\ r \in Units /\ r # a /\ a \in Extent(h, a)
  <2>1. r \in Extent(h, a) /\ r # a
    BY <1>2, <1>5, <1>6, <1>7 DEF Extent
  <2>2. QED
    BY <1>2, <1>3, <2>1, UnitsTyped
<1>9. h.mem \in [Units -> Cells]
  BY <1>2 DEF Fields
<1>10. PICK e \in Cells : e = FreeCell(d) /\ e.capacity = d /\ e.magic = "free"
  BY <1>2, <1>7, FreeCellIs
<1>11. PICK x \in Cells : x = h.mem[a]
  BY <1>3, <1>9
<1>12. PICK y : y = [x EXCEPT !.capacity = n]
  OBVIOUS
<1>13. y \in Cells /\ y.capacity = n /\ y.magic = x.magic
  <2>1. n \in 0 .. HeapEnd
    BY <1>2, <1>6
  <2>2. QED
    BY <1>12, <2>1 DEF Cells
<1>14. /\ g.cursor = h.cursor /\ g.live = h.live /\ Shaped(g) /\ g.bins = h.bins
       /\ g.reusable = h.reusable
       /\ g.mem = [h.mem EXCEPT ![r] = e, ![a].capacity = n]
  <2>1. g = [h EXCEPT !.mem[r] = e, !.mem[a].capacity = n]
    BY <1>10 DEF SplitOff
  <2>2. QED
    BY <1>2, <2>1 DEF Heaps, Shaped
<1>15. g.mem = [[h.mem EXCEPT ![r] = e] EXCEPT ![a] = y]
  <2>1. [h.mem EXCEPT ![r] = e][a] = x
    BY <1>3, <1>8, <1>9, <1>11
  <2>2. QED
    BY <1>12, <1>14, <2>1
<1>16. g.mem \in [Units -> Cells] /\ g.mem[a] = y /\ g.mem[r] = e /\ SameBut(g, h, {a, r})
  BY <1>3, <1>8, <1>9, <1>10, <1>13, <1>15 DEF SameBut
<1>17. g \in Heaps
  BY <1>2, <1>14, <1>16, HeapMade DEF Fields
<1>18. \A b \in B \ {a} : \A u \in Extent(h, b) : u \in Units /\ g.mem[u] = h.mem[u]
  <2>1. ASSUME NEW b \in B \ {a}, NEW u \in Extent(h, b) PROVE u \in Units /\ g.mem[u] = h.mem[u]
    <3>1. u \in Units
      BY <1>2, UnitsTyped
    <3>2. u # a /\ u # r
      BY <1>2, <1>3, <1>8, UnitsApart
    <3>3. QED
      BY <1>16, <3>1, <3>2 DEF SameBut
  <2>2. QED
    BY <2>1
<1>19. Untouched(g, h, L) /\ Untouched(g, h, F)
  BY <1>3, <1>18 DEF Untouched
<1>20. \A b \in B \ {a} : g.mem[b] = h.mem[b]
  BY <1>2, <1>18, UnitsTyped
<1>21. /\ Tiled(g, B \cup {r}) /\ r \notin B /\ EndIn(g, a) = r /\ EndIn(g, r) = EndIn(h, a)
  <2>1. Parts(g, h, a, n, r)
    <3>1. g.mem[a].capacity = n /\ g.mem[r].capacity = d
      BY <1>10, <1>13, <1>16
    <3>2. QED
      BY <3>1 DEF Parts, SplitOff
  <2>3. \A b \in B \ {a} : g.mem[b].capacity = h.mem[b].capacity
    BY <1>20
  <2>4. g.cursor = h.cursor
    BY <1>14
  <2>5. QED
    BY ONLY <1>2, <1>3, <2>1, <2>3, <2>4, Divided
<1>22. /\ Footed(g, F) /\ Binned(g, F)
       /\ \A f \in F : EndIn(g, f) = EndIn(h, f) /\ g.mem[f] = h.mem[f]
  <2>1. Footed(h, F) /\ Binned(h, F)
    BY DEF Reusing
  <2>2. g.bins = h.bins /\ g.reusable = h.reusable
    BY <1>14
  <2>3. QED
    BY ONLY <1>2, <1>3, <1>19, <2>1, <2>2, FreesKept
<1>23. \A f \in F : EndIn(g, f) \in L \cup {a}
  BY <1>22 DEF Reusing
<1>24. \A f \in F : EndIn(g, f) # r
  BY <1>3, <1>21, <1>23
<1>25. Tagged(g, L, F)
  <2>1. \A u \in Units : h.mem[u].magic = "live" <=> u \in L
    BY DEF Reusing, Tagged
  <2>2. ASSUME NEW u \in Units PROVE g.mem[u].magic = "live" <=> u \in L
    <3>1. CASE u = a
      BY <1>11, <1>13, <1>16, <2>1, <3>1
    <3>2. CASE u = r
      BY <1>3, <1>10, <1>16, <1>21, <3>2
    <3>3. CASE u \notin {a, r}
      BY <1>16, <2>1, <3>3 DEF SameBut
    <3>4. QED
      BY <3>1, <3>2, <3>3
  <2>3. QED
    BY <1>22, <2>2 DEF Tagged, Reusing
<1>26. Reusing(g, L, F, {a, r})
  <2>1. L \cup F \cup {a, r} = B \cup {r}
    BY <1>1
  <2>2. {a, r} \cap (L \cup F) = {}
    BY <1>3, <1>21
  <2>3. \A f \in F : EndIn(g, f) \in L \cup {a, r}
    BY <1>23
  <2>4. QED
    BY <1>3, <1>17, <1>21, <1>22, <1>25, <2>1, <2>2, <2>3, Zenon DEF Reusing
<1>27. EndIn(g, r) \in L
  BY <1>21
<1>28. QED
  BY <1>8, <1>10, <1>13, <1>14, <1>16, <1>19, <1>24, <1>26, <1>27 DEF Halves

\* What is given out of the free blocks.
GivenOut(g, a, h, L, n) ==
  \E G \in SUBSET Units :
    /\ Reusing(g, L, G, {a}) /\ g.mem[a].capacity >= n
    /\ g.cursor = h.cursor /\ g.live = h.live /\ Untouched(g, h, L)

LEMMA Taken ==
  ASSUME HeapAssumption, NEW h, NEW L, NEW F, Reusing(h, L, F, {}),
         NEW n \in 2 .. HeapEnd, HasFit(h, n), NEW a, a = FirstFit(h, n),
         NEW g, g = TakeFree(h, n)
  PROVE  GivenOut(g, a, h, L, n)
<1>1. PICK B : B = L \cup F \cup {}
  OBVIOUS
<1>2. /\ HeapEnd \in Nat /\ Fields(h) /\ h.cursor \in 0 .. HeapEnd
      /\ Tiled(h, B) /\ B \subseteq Units /\ h \in Heaps
  BY <1>1, ReusingIs DEF Fields
<1>3. a \in F /\ h.mem[a].capacity >= n
  <2>1. h.bins \in [Bins -> Seq(Units)] /\ Binned(h, F)
    BY <1>2 DEF Fields, Reusing
  <2>2. QED
    BY <2>1, FitFound
<1>4. a \in B /\ L \subseteq B /\ F \subseteq B /\ a \notin L /\ L \cap F = {} /\ a \in Units
  BY <1>1, <1>2, <1>3 DEF Reusing
<1>5. PICK k : k = RemoveFree(h, a)
  OBVIOUS
<1>6. PICK X : X = {}
  OBVIOUS
<1>7. /\ Reusing(k, L, F \ {a}, {a})
      /\ SameBut(k, h, {a}) /\ k.cursor = h.cursor /\ k.live = h.live
      /\ k.mem[a].capacity = h.mem[a].capacity
  <2>1. Reusing(h, L, F, X)
    BY <1>6
  <2>2. /\ Reusing(k, L, F \ {a}, X \cup {a})
        /\ SameBut(k, h, {a}) /\ k.cursor = h.cursor /\ k.live = h.live
        /\ k.mem[a].capacity = h.mem[a].capacity
    <3>1. UnlinkedFrom(k, h, L, F, X, a)
      BY ONLY HeapAssumption, <1>3, <1>5, <2>1, Unlinks, Zenon
    <3>2. QED
      BY <3>1, Zenon DEF UnlinkedFrom
  <2>3. X \cup {a} = {a}
    BY <1>6
  <2>4. QED
    BY <2>2, <2>3
<1>8. Untouched(k, h, L)
  <2>1. a \in Extent(h, a)
    BY <1>2, <1>4, UnitsTyped
  <2>2. QED
    BY ONLY <1>2, <1>4, <1>7, <2>1, LeavesAlone
<1>9. F \ {a} \in SUBSET Units
  BY <1>2, <1>4
<1>10. CASE ~ Splits(h, a, n)
  <2>1. g = k
    BY <1>5, <1>10 DEF TakeFree
  <2>2. QED
    BY <1>3, <1>7, <1>8, <1>9, <2>1 DEF GivenOut
<1>11. CASE Splits(h, a, n)
  <2>1. PICK r : r = a + 1 + n
    OBVIOUS
  <2> PICK d : d = k.mem[a].capacity - n - 1
    OBVIOUS
  <2>2. PICK t : t = [k EXCEPT !.mem[r] = FreeCell(d), !.mem[a].capacity = n]
    OBVIOUS
  <2>3. g = InsertFree(t, r)
    <3>1. g = InsertFree([k EXCEPT
            !.mem[a + 1 + n] = [size |-> 0, magic |-> "free", word |-> 0,
                                capacity |-> h.mem[a].capacity - n - 1],
            !.mem[a].capacity = n], a + 1 + n)
      BY <1>5, <1>11 DEF TakeFree
    <3>2. [size |-> 0, magic |-> "free", word |-> 0, capacity |-> h.mem[a].capacity - n - 1]
            = FreeCell(d)
      BY <1>7 DEF FreeCell
    <3>3. QED
      BY <2>1, <2>2, <3>1, <3>2
  <2>4. Halves(t, k, a, r, L, F \ {a}) /\ t.mem[a].capacity = n
    <3>1. EndIn(k, a) \in L
      <4>1. EndIn(k, a) = EndIn(h, a)
        BY <1>7 DEF EndIn
      <4>2. QED
        BY <1>3, <4>1 DEF Reusing
    <3>2. d >= 2 /\ d = k.mem[a].capacity - n - 1
      <4>1. Ranged(h, a)
        BY <1>2, <1>4, RangedIn
      <4>2. h.mem[a].capacity >= n + 1 + 2
        BY <1>11 DEF Splits, SmallestCapacity
      <4>3. PICK c \in Nat : c = h.mem[a].capacity
        BY <4>1 DEF Ranged
      <4>4. c - n - 1 >= 2
        BY <1>2, <4>2, <4>3
      <4>5. QED
        BY <1>7, <4>3, <4>4
    <3>3. SplitOff(t, k, a, n, d, r)
      BY <2>1, <2>2, <3>2 DEF SplitOff
    <3>4. QED
      BY ONLY HeapAssumption, <1>7, <3>1, <3>3, Splitted
  <2>5. PICK Y : Y = {a, r}
    OBVIOUS
  <2>6. PICK G : G = F \ {a}
    OBVIOUS
  <2>7. /\ Reusing(t, L, G, Y) /\ r \in Y /\ EndIn(t, r) \in L \cup (Y \ {r})
        /\ t.mem[r].magic = "free" /\ (\A f \in G : EndIn(t, f) # r) /\ Y \ {r} = {a}
        /\ Untouched(t, k, L) /\ t.cursor = k.cursor /\ t.live = k.live /\ r \in Units
    BY <2>4, <2>5, <2>6 DEF Halves
  <2>8. /\ Reusing(g, L, G \cup {r}, Y \ {r})
        /\ SameBut(g, t, {r + t.mem[r].capacity}) /\ g.live = t.live /\ g.cursor = t.cursor
        /\ \A b \in L \cup G \cup Y : g.mem[b] = t.mem[b]
    <3>1. LinkedIn(g, t, L, G, Y, r)
      BY ONLY HeapAssumption, <2>3, <2>7, Links, Zenon
    <3>2. QED
      BY <3>1, Zenon DEF LinkedIn
  <2>9. g.mem[a].capacity >= n
    <3>1. g.mem[a] = t.mem[a]
      BY <2>5, <2>8
    <3>2. QED
      BY <2>4, <3>1
  <2>10. Untouched(g, t, L)
    <3>1. PICK C : C = L \cup G \cup Y
      OBVIOUS
    <3>2. Tiled(t, C) /\ t.cursor \in 0 .. HeapEnd
      BY <2>7, <3>1, ReusingIs
    <3>3. r \in C /\ L \subseteq C /\ r \notin L
      BY <2>7, <3>1 DEF Reusing
    <3>4. r + t.mem[r].capacity \in Extent(t, r)
      BY <1>2, <3>2, <3>3, UnitsTyped
    <3>5. QED
      BY ONLY <1>2, <2>8, <3>2, <3>3, <3>4, LeavesAlone
  <2>11. Untouched(g, h, L)
    <3>1. Untouched(t, h, L)
      BY <1>2, <1>4, <1>8, <2>7, LeavesOn
    <3>2. QED
      BY <1>2, <1>4, <2>10, <3>1, LeavesOn
  <2>12. G \cup {r} \in SUBSET Units /\ Reusing(g, L, G \cup {r}, {a})
    BY <1>9, <2>6, <2>7, <2>8
  <2>13. g.cursor = h.cursor /\ g.live = h.live
    BY <1>7, <2>7, <2>8
  <2>14. QED
    BY <2>9, <2>11, <2>12, <2>13 DEF GivenOut
<1>12. QED
  BY <1>10, <1>11

-----------------------------------------------------------------------------
(* The accounts of the sites *)

\* What the blocks of a site come to.
SizesOf(h) == [a \in Units |-> h.mem[a].size]
Owed(h, L, t) == SumOver({a \in L : h.mem[a].word = t}, SizesOf(h))

Sizes(h, L) == \A a \in L : a \in Units /\ h.mem[a].size \in Int
SameBooks(g, h, L) == \A a \in L : g.mem[a].size = h.mem[a].size /\ g.mem[a].word = h.mem[a].word
Due(site, t, n) == IF t = site THEN n ELSE 0

LEMMA OwedSame ==
  ASSUME HeapEnd \in Nat, NEW h, NEW L, Sizes(h, L), NEW g, SameBooks(g, h, L), NEW t
  PROVE  Owed(g, L, t) = Owed(h, L, t) /\ Owed(h, L, t) \in Int
<1>1. PICK S : S = {a \in L : h.mem[a].word = t}
  OBVIOUS
<1>2. {a \in L : g.mem[a].word = t} = S
  BY <1>1 DEF SameBooks
<1>3. Summed(S, SizesOf(h))
  BY <1>1 DEF Summed, SizesOf, Sizes
<1>4. \A u \in S \cap Units : SizesOf(g)[u] = SizesOf(h)[u]
  BY <1>1 DEF SizesOf, SameBooks
<1>5. SumOver(S, SizesOf(g)) = SumOver(S, SizesOf(h)) /\ SumOver(S, SizesOf(h)) \in Int
  BY <1>3, <1>4, SumSame, SumInt
<1>6. QED
  BY <1>1, <1>2, <1>5 DEF Owed

LEMMA OwedWithout ==
  ASSUME HeapEnd \in Nat, NEW h, NEW L, Sizes(h, L), NEW a \in L, NEW t
  PROVE  Owed(h, L \ {a}, t) = Owed(h, L, t) - Due(h.mem[a].word, t, h.mem[a].size)
<1>1. PICK S : S = {b \in L : h.mem[b].word = t}
  OBVIOUS
<1>2. {b \in L \ {a} : h.mem[b].word = t} = S \ {a}
  BY <1>1
<1>3. Summed(S, SizesOf(h)) /\ SumOver(S, SizesOf(h)) \in Int
  <2>1. Summed(S, SizesOf(h))
    BY <1>1 DEF Summed, SizesOf, Sizes
  <2>2. QED
    BY <2>1, SumInt
<1>4. CASE h.mem[a].word = t
  <2>1. a \in S /\ a \in Units /\ SizesOf(h)[a] = h.mem[a].size
    BY <1>1, <1>4 DEF Sizes, SizesOf
  <2>2. SumOver(S \ {a}, SizesOf(h)) = SumOver(S, SizesOf(h)) - SizesOf(h)[a]
    BY <1>3, <2>1, SumWithout
  <2>3. QED
    BY <1>1, <1>2, <1>4, <2>1, <2>2 DEF Owed, Due
<1>5. CASE h.mem[a].word # t
  <2>1. S \ {a} = S
    BY <1>1, <1>5
  <2>2. QED
    <3>1. PICK s \in Int : s = SumOver(S, SizesOf(h))
      BY <1>3
    <3>2. Owed(h, L \ {a}, t) = s /\ Owed(h, L, t) = s
      BY <1>1, <1>2, <2>1, <3>1 DEF Owed
    <3>3. Due(h.mem[a].word, t, h.mem[a].size) = 0
      BY <1>5 DEF Due
    <3>4. QED
      BY <3>2, <3>3
<1>6. QED
  BY <1>4, <1>5

LEMMA OwedWith ==
  ASSUME HeapEnd \in Nat, NEW h, NEW L, Sizes(h, L), NEW a \in Units, a \notin L,
         h.mem[a].size \in Int, NEW t
  PROVE  Owed(h, L \cup {a}, t) = Owed(h, L, t) + Due(h.mem[a].word, t, h.mem[a].size)
<1>1. Sizes(h, L \cup {a})
  BY DEF Sizes
<1>2. (L \cup {a}) \ {a} = L
  OBVIOUS
<1>3. PICK M : M = L \cup {a}
  OBVIOUS
<1>4. Owed(h, M \ {a}, t) = Owed(h, M, t) - Due(h.mem[a].word, t, h.mem[a].size)
  BY <1>1, <1>3, OwedWithout
<1>5. Owed(h, M, t) \in Int
  BY <1>1, <1>3, OwedSame DEF SameBooks
<1>6. Due(h.mem[a].word, t, h.mem[a].size) \in Int
  BY DEF Due
<1>7. QED
  BY <1>2, <1>3, <1>4, <1>5, <1>6

LEMMA SeqOfLength ==
  ASSUME NEW T, NEW n \in Nat
  PROVE  /\ \A s \in Seq(T) : Len(s) = n => s \in [1 .. n -> T] /\ DOMAIN s = 1 .. n
         /\ \A s \in [1 .. n -> T] : s \in Seq(T) /\ Len(s) = n
OBVIOUS

-----------------------------------------------------------------------------
\* The accounts after a call: the same sites, that of one with so much more.
Rows(n) == [1 .. n -> [site : Sites, bytes : Int]]

LEMMA RowsAre ==
  ASSUME NEW n \in Nat, NEW w \in Rows(n)
  PROVE  w \in Seq([site : Sites, bytes : Int]) /\ Len(w) = n /\ DOMAIN w = 1 .. n
<1>1. PICK T : T = [site : Sites, bytes : Int]
  OBVIOUS
<1>2. w \in [1 .. n -> T]
  BY <1>1 DEF Rows
<1>3. w \in Seq(T) /\ Len(w) = n /\ DOMAIN w = 1 .. n
  BY <1>2, SeqOfLength
<1>4. QED
  BY <1>1, <1>3

Credited(live, old, n, site, delta) ==
  /\ live \in Seq([site : Sites, bytes : Int]) /\ Len(live) = n /\ live \in Rows(n)
  /\ \A i \in 1 .. n : live[i].site = old[i].site /\ live[i].bytes = old[i].bytes + Due(site, old[i].site, delta)

\* All but the accounts is as it was.
OnlyBooks(g, h) ==
  /\ Shaped(g) /\ g.mem = h.mem /\ g.cursor = h.cursor /\ g.bins = h.bins /\ g.reusable = h.reusable

LEMMA AccountsIs ==
  ASSUME NEW h \in Heaps, NEW n \in Nat, Len(h.live) = n, NEW site \in Sites, NEW delta \in Int,
         NEW g, g = Accounts(h, site, delta)
  PROVE  OnlyBooks(g, h) /\ Credited(g.live, h.live, n, site, delta)
<1>1. h.live \in Seq([site : Sites, bytes : Int]) /\ DOMAIN h.live = 1 .. n /\ h.live \in Rows(n)
  <2>1. h.live \in Seq([site : Sites, bytes : Int])
    BY DEF Heaps
  <2>2. QED
    BY <2>1, SeqOfLength DEF Rows
<1>2. PICK v \in Rows(n) : v = h.live
  BY <1>1
<1>3. \A i \in 1 .. n : v[i] \in [site : Sites, bytes : Int] /\ v[i].bytes \in Int /\ v[i].site \in Sites
  BY DEF Rows
<1>4. PICK known : known = {i \in DOMAIN h.live : h.live[i].site = site}
  OBVIOUS
<1>5. \A i \in 1 .. n : i \in known <=> v[i].site = site
  BY <1>1, <1>2, <1>4
<1>6. g = IF known # {}
          THEN [h EXCEPT !.live = [i \in DOMAIN h.live |->
             IF i \in known THEN [site |-> site, bytes |-> h.live[i].bytes + delta]
             ELSE h.live[i]]]
          ELSE h
  BY <1>4 DEF Accounts
<1>7. CASE known = {}
  <2>1. g = h
    BY <1>6, <1>7
  <2>2. OnlyBooks(g, h)
    BY <2>1 DEF OnlyBooks, Shaped, Heaps
  <2>3. \A i \in 1 .. n : v[i].site # site
    BY <1>5, <1>7
  <2>4. \A i \in 1 .. n : v[i].bytes = v[i].bytes + Due(site, v[i].site, delta)
    BY <1>3, <2>3 DEF Due
  <2>5. QED
    BY <1>1, <1>2, <2>1, <2>2, <2>4 DEF Credited
<1>8. CASE known # {}
  <2>1. PICK w : w = [i \in 1 .. n |-> IF i \in known THEN [site |-> site, bytes |-> v[i].bytes + delta]
                                       ELSE v[i]]
    OBVIOUS
  <2>2. g = [h EXCEPT !.live = w]
    BY <1>1, <1>2, <1>6, <1>8, <2>1
  <2>3. OnlyBooks(g, h) /\ g.live = w
    BY <2>2 DEF OnlyBooks, Shaped, Heaps
  <2>4. ASSUME NEW i \in 1 .. n
        PROVE  /\ w[i] \in [site : Sites, bytes : Int] /\ w[i].site = v[i].site
               /\ w[i].bytes = v[i].bytes + Due(site, v[i].site, delta)
    <3>1. CASE i \in known
      BY <1>3, <1>5, <2>1, <3>1 DEF Due
    <3>2. CASE i \notin known
      BY <1>3, <1>5, <2>1, <3>2 DEF Due
    <3>3. QED
      BY <3>1, <3>2
  <2>5. w \in Rows(n)
    BY <2>1, <2>4 DEF Rows
  <2>6. w \in Seq([site : Sites, bytes : Int]) /\ Len(w) = n
    BY <2>5, RowsAre
  <2>7. QED
    BY <1>2, <2>3, <2>4, <2>5, <2>6 DEF Credited
<1>9. QED
  BY <1>7, <1>8

\* The accounts that a list of them keeps of the blocks L.
Balanced(live, h, L) ==
  /\ Len(live) <= SiteCapacity
  /\ Len(live) < SiteCapacity => \A a \in L : \E i \in DOMAIN live : live[i].site = h.mem[a].word
  /\ \A i \in DOMAIN live :
       /\ \A j \in DOMAIN live : live[i].site = live[j].site => i = j
       /\ live[i].bytes = Owed(h, L, live[i].site)

Sized(h, L) == \A a \in L : h.mem[a].size < h.mem[a].capacity /\ h.mem[a].word \in Sites

LEMMA BookedIs ==
  ASSUME NEW h, NEW L
  PROVE  Booked(h, L) <=> Sized(h, L) /\ Balanced(h.live, h, L)
BY DEF Booked, Sized, Balanced, Owed, SizesOf

\* Of the length and the entries of a list of accounts.
Accounting(live, n) == n \in Nat /\ live \in Rows(n) /\ Len(live) = n /\ DOMAIN live = 1 .. n
                       /\ \A i \in 1 .. n : live[i].site \in Sites /\ live[i].bytes \in Int

LEMMA AccountingIs ==
  ASSUME NEW live \in Seq([site : Sites, bytes : Int])
  PROVE  \E n \in Nat : Accounting(live, n)
<1>1. PICK T : T = [site : Sites, bytes : Int]
  OBVIOUS
<1>2. PICK n \in Nat : n = Len(live)
  OBVIOUS
<1>3. live \in [1 .. n -> T] /\ DOMAIN live = 1 .. n
  BY <1>1, <1>2, SeqOfLength
<1>4. \A i \in 1 .. n : live[i].site \in Sites /\ live[i].bytes \in Int
  BY <1>1, <1>3
<1>5. QED
  BY <1>1, <1>2, <1>3, <1>4 DEF Accounting, Rows

Appends(w, live, site) == w = Append(live, [site |-> site, bytes |-> 0])

\* A site that has no account while there is room has no block.
LEMMA BalancedAppended ==
  ASSUME HeapAssumption, NEW h, NEW L, NEW live, NEW n, Accounting(live, n), Balanced(live, h, L),
         n # SiteCapacity, NEW site \in Sites, \A i \in 1 .. n : live[i].site # site,
         NEW w, Appends(w, live, site)
  PROVE  Accounting(w, n + 1) /\ Balanced(w, h, L) /\ w[n + 1].site = site
<1>1. n \in Nat /\ SiteCapacity \in Nat /\ n < SiteCapacity /\ HeapEnd \in Nat
  BY DEF HeapAssumption, Accounting, Balanced
<1>2. PICK e : e = [site |-> site, bytes |-> 0]
  OBVIOUS
<1>3. /\ DOMAIN w = 1 .. n + 1 /\ w[n + 1] = e /\ Len(w) = n + 1
      /\ \A i \in 1 .. n : w[i] = live[i]
  <2>1. PICK T : T = [site : Sites, bytes : Int]
    OBVIOUS
  <2> w = Append(live, e)
    BY <1>2 DEF Appends
  <2>2. live \in Seq(T) /\ Len(live) = n /\ w = Append(live, e) /\ e \in T
    <3>1. live \in [1 .. n -> T]
      BY <2>1 DEF Accounting, Rows
    <3>2. live \in Seq(T) /\ Len(live) = n
      BY <1>1, <3>1, SeqOfLength
    <3>3. e \in T
      BY <1>2, <2>1
    <3>4. QED
      BY <1>2, <3>2, <3>3
  <2>3. QED
    BY <1>1, <2>2
<1>4. ASSUME NEW i \in 1 .. n + 1 PROVE i = n + 1 \/ i \in 1 .. n
  BY <1>1
<1>5. Accounting(w, n + 1)
  <2>1. \A i \in 1 .. n + 1 : w[i] \in [site : Sites, bytes : Int]
    <3>1. \A i \in 1 .. n : live[i] \in [site : Sites, bytes : Int]
      BY DEF Accounting, Rows
    <3>2. e \in [site : Sites, bytes : Int]
      BY <1>2
    <3>3. QED
      BY <1>3, <1>4, <3>1, <3>2
  <2>2. \A i \in 1 .. n + 1 : w[i].site \in Sites /\ w[i].bytes \in Int
    BY <2>1
  <2>3. w \in Rows(n + 1)
    <3>1. PICK T : T = [site : Sites, bytes : Int]
      OBVIOUS
    <3> w = Append(live, e)
      BY <1>2 DEF Appends
    <3>2. live \in Seq(T) /\ w = Append(live, e) /\ e \in T
      <4>1. live \in [1 .. n -> T]
        BY <3>1 DEF Accounting, Rows
      <4>2. live \in Seq(T)
        BY <1>1, <4>1, SeqOfLength
      <4>3. e \in T
        BY <1>2, <3>1
      <4>4. QED
        BY <1>2, <4>2, <4>3
    <3>3. w \in Seq(T)
      BY <3>2
    <3>4. n + 1 \in Nat
      BY <1>1
    <3>5. w \in [1 .. n + 1 -> T]
      BY <1>3, <3>3, <3>4, SeqOfLength
    <3>6. QED
      BY <3>1, <3>5 DEF Rows
  <2>4. QED
    BY <1>1, <1>3, <2>2, <2>3 DEF Accounting
<1>6. DOMAIN live = 1 .. n /\ Len(live) = n
  BY DEF Accounting
<1>7. {a \in L : h.mem[a].word = site} = {}
  <2>1. \A a \in L : \E i \in 1 .. n : live[i].site = h.mem[a].word
    BY <1>1, <1>6 DEF Balanced
  <2>2. QED
    BY <2>1
<1>8. Owed(h, L, site) = 0
  BY <1>1, <1>7, SumEmpty DEF Owed
<1>9. e.site = site /\ e.bytes = 0
  BY <1>2
<1>10. ASSUME NEW i \in 1 .. n + 1
       PROVE  /\ \A j \in 1 .. n + 1 : w[i].site = w[j].site => i = j
              /\ w[i].bytes = Owed(h, L, w[i].site)
  <2>1. CASE i = n + 1
    <3>1. ASSUME NEW j \in 1 .. n + 1, w[i].site = w[j].site PROVE i = j
      <4>1. ASSUME j \in 1 .. n PROVE FALSE
        BY <1>3, <1>9, <2>1, <3>1, <4>1
      <4>2. QED
        BY <1>4, <2>1, <4>1
    <3>2. QED
      BY <1>3, <1>8, <1>9, <2>1, <3>1
  <2>2. CASE i \in 1 .. n
    <3>1. live[i].bytes = Owed(h, L, live[i].site) /\ \A j \in 1 .. n : live[i].site = live[j].site => i = j
      BY <1>6, <2>2 DEF Balanced
    <3>2. ASSUME NEW j \in 1 .. n + 1, w[i].site = w[j].site PROVE i = j
      <4>1. ASSUME j = n + 1 PROVE FALSE
        BY <1>3, <1>9, <2>2, <3>2, <4>1
      <4>2. j \in 1 .. n
        BY <1>4, <4>1
      <4>3. QED
        BY <1>3, <2>2, <3>1, <3>2, <4>2
    <3>3. QED
      BY <1>3, <2>2, <3>1, <3>2
  <2>3. QED
    BY <1>4, <2>1, <2>2
<1>11. Len(w) <= SiteCapacity
  BY <1>1, <1>3
<1>12. \A a \in L : \E i \in DOMAIN w : w[i].site = h.mem[a].word
  <2>1. \A a \in L : \E i \in 1 .. n : live[i].site = h.mem[a].word
    BY <1>1, <1>6 DEF Balanced
  <2>2. \A i \in 1 .. n : i \in DOMAIN w /\ w[i].site = live[i].site
    BY <1>1, <1>3
  <2>3. QED
    BY <2>1, <2>2
<1>13. Balanced(w, h, L)
  BY <1>3, <1>10, <1>11, <1>12 DEF Balanced
<1>14. QED
  BY <1>3, <1>5, <1>9, <1>13

\* An account with so much more, where the blocks of its site come to so much more.
LEMMA BalancedCredited ==
  ASSUME HeapAssumption, NEW h, NEW L, NEW live, NEW n, Accounting(live, n), Balanced(live, h, L),
         NEW site, NEW delta, NEW w, Credited(w, live, n, site, delta), NEW g, NEW M,
         \A t : Owed(g, M, t) = Owed(h, L, t) + Due(site, t, delta),
         \A a \in M : n < SiteCapacity => \E i \in 1 .. n : live[i].site = g.mem[a].word
  PROVE  Balanced(w, g, M)
<1>1. n \in Nat /\ DOMAIN live = 1 .. n /\ Len(live) = n
  BY DEF Accounting
<1>2. /\ Len(w) = n /\ DOMAIN w = 1 .. n
      /\ \A i \in 1 .. n : w[i].site = live[i].site /\ w[i].bytes = live[i].bytes + Due(site, live[i].site, delta)
  BY <1>1, RowsAre DEF Credited
<1>3. Len(w) <= SiteCapacity
  BY <1>1, <1>2 DEF Balanced
<1>4. Len(w) < SiteCapacity => \A a \in M : \E i \in DOMAIN w : w[i].site = g.mem[a].word
  BY <1>2
<1>5. ASSUME NEW i \in 1 .. n
      PROVE  /\ \A j \in 1 .. n : w[i].site = w[j].site => i = j
             /\ w[i].bytes = Owed(g, M, w[i].site)
  <2>1. live[i].bytes = Owed(h, L, live[i].site) /\ \A j \in 1 .. n : live[i].site = live[j].site => i = j
    BY <1>1 DEF Balanced
  <2>2. QED
    BY <1>2, <2>1
<1>6. QED
  BY <1>2, <1>3, <1>4, <1>5 DEF Balanced

LEMMA SizesIn ==
  ASSUME NEW h \in Heaps, NEW L, L \subseteq Units
  PROVE  Sizes(h, L) /\ \A a \in Units : h.mem[a] \in Cells /\ h.mem[a].size \in 0 .. HeapEnd /\ h.mem[a].size \in Int
<1>1. h.mem \in [Units -> Cells]
  BY DEF Heaps
<1>2. \A a \in Units : h.mem[a].size \in 0 .. HeapEnd
  BY <1>1, CellIs
<1>3. QED
  BY <1>1, <1>2 DEF Sizes

\* The accounts are a matter of the headers.
LEMMA BookedSame ==
  ASSUME HeapEnd \in Nat, NEW h, NEW L, Sizes(h, L), Booked(h, L), NEW g, g.live = h.live,
         \A a \in L : g.mem[a] = h.mem[a]
  PROVE  Booked(g, L)
<1>1. \A t : Owed(g, L, t) = Owed(h, L, t)
  BY OwedSame DEF SameBooks
<1>2. Sized(h, L) /\ Balanced(h.live, h, L)
  BY BookedIs
<1>3. Sized(g, L) /\ Balanced(g.live, g, L)
  BY <1>1, <1>2 DEF Sized, Balanced
<1>4. QED
  BY <1>3, BookedIs

OwedOf(g, M, h, L, site, delta) == \A t : Owed(g, M, t) = Owed(h, L, t) + Due(site, t, delta)

\* A site has an account to record to, unless there is no room for one.
HasRow(live, m, site) == m < SiteCapacity => \E i \in 1 .. m : live[i].site = site

RowFor(k, site) ==
  IF \E i \in DOMAIN k.live : k.live[i].site = site THEN k
  ELSE IF Len(k.live) = SiteCapacity THEN k
  ELSE [k EXCEPT !.live = Append(@, [site |-> site, bytes |-> 0])]

LEMMA RowForIs ==
  ASSUME HeapAssumption, NEW k \in Heaps, NEW L, Balanced(k.live, k, L), NEW site \in Sites,
         NEW r, r = RowFor(k, site)
  PROVE  \E m \in Nat : /\ OnlyBooks(r, k) /\ r \in Heaps /\ Accounting(r.live, m)
                        /\ Balanced(r.live, k, L) /\ HasRow(r.live, m, site)
<1>1. PICK n \in Nat : Accounting(k.live, n)
  BY AccountingIs DEF Heaps
<1>2. DOMAIN k.live = 1 .. n /\ Len(k.live) = n
  BY <1>1 DEF Accounting
<1>3. OnlyBooks(k, k)
  BY DEF OnlyBooks, Shaped, Heaps
<1>4. CASE \E i \in 1 .. n : k.live[i].site = site
  <2>1. r = k
    BY <1>2, <1>4 DEF RowFor
  <2>2. QED
    BY <1>1, <1>3, <1>4, <2>1 DEF HasRow
<1>5. CASE n = SiteCapacity
  <2>1. r = k
    BY <1>2, <1>5 DEF RowFor
  <2>2. ~ (n < SiteCapacity)
    BY <1>5
  <2>3. QED
    BY <1>1, <1>3, <2>1, <2>2 DEF HasRow
<1>6. CASE n # SiteCapacity /\ \A i \in 1 .. n : k.live[i].site # site
  <2>1. PICK w : w = Append(k.live, [site |-> site, bytes |-> 0])
    OBVIOUS
  <2>2. Accounting(w, n + 1) /\ Balanced(w, k, L) /\ w[n + 1].site = site
    <3>1. PICK live : live = k.live
      OBVIOUS
    <3>2. /\ Accounting(live, n) /\ Balanced(live, k, L) /\ n # SiteCapacity
          /\ \A i \in 1 .. n : live[i].site # site
      BY <1>1, <1>6, <3>1
    <3>3. Appends(w, live, site) /\ site \in Sites
      BY <2>1, <3>1 DEF Appends
    <3>4. QED
      BY ONLY HeapAssumption, <3>2, <3>3, BalancedAppended
  <2>3. r = [k EXCEPT !.live = w]
    BY <1>2, <1>6, <2>1 DEF RowFor
  <2>4. OnlyBooks(r, k) /\ r.live = w
    BY <2>3 DEF OnlyBooks, Shaped, Heaps
  <2>5. n + 1 \in Nat /\ n + 1 \in 1 .. n + 1
    BY <1>1
  <2>6. w \in Seq([site : Sites, bytes : Int])
    BY <2>2, <2>5, RowsAre DEF Accounting
  <2>7. r \in Heaps
    <3>1. Fields(k)
      BY HeapFields
    <3>2. QED
      BY <2>4, <2>6, <3>1, HeapMade DEF Fields, OnlyBooks
  <2>8. HasRow(w, n + 1, site)
    BY <2>2, <2>5 DEF HasRow
  <2>9. QED
    BY <2>2, <2>4, <2>5, <2>7, <2>8
<1>7. QED
  BY <1>4, <1>5, <1>6

\* A block that is given out is recorded.
LEMMA BookedMore ==
  ASSUME HeapAssumption, NEW k \in Heaps, NEW L, L \subseteq Units, Booked(k, L),
         NEW a \in Units, a \notin L, NEW size, size = k.mem[a].size, size < k.mem[a].capacity,
         NEW site \in Sites, site = k.mem[a].word, NEW g, g = Records(k, site, size)
  PROVE  OnlyBooks(g, k) /\ g.live \in Seq([site : Sites, bytes : Int]) /\ Booked(g, L \cup {a})
<1>1. HeapEnd \in Nat /\ Sizes(k, L) /\ size \in Int
  BY SizesIn DEF HeapAssumption
<1>2. Sized(k, L) /\ Balanced(k.live, k, L)
  BY BookedIs
<1>3. PICK r : r = RowFor(k, site)
  OBVIOUS
<1>4. PICK m \in Nat : /\ OnlyBooks(r, k) /\ r \in Heaps /\ Accounting(r.live, m)
                       /\ Balanced(r.live, k, L) /\ HasRow(r.live, m, site)
  BY <1>2, <1>3, RowForIs
<1>5. g = Accounts(r, site, size)
  BY <1>3 DEF Records, RowFor
<1>6. OnlyBooks(g, r) /\ Credited(g.live, r.live, m, site, size)
  <2>1. Len(r.live) = m
    BY <1>4 DEF Accounting
  <2>2. QED
    BY <1>1, <1>4, <1>5, <2>1, AccountsIs
<1>7. OnlyBooks(g, k) /\ g.mem = k.mem
  BY <1>4, <1>6 DEF OnlyBooks
<1>8. PICK M : M = L \cup {a}
  OBVIOUS
<1>9. ASSUME NEW t PROVE Owed(g, M, t) = Owed(k, L, t) + Due(site, t, size)
  <2>1. Owed(g, M, t) = Owed(k, M, t)
    BY <1>7 DEF Owed, SizesOf
  <2>2. Owed(k, M, t) = Owed(k, L, t) + Due(k.mem[a].word, t, k.mem[a].size)
    <3>1. k.mem[a].size \in Int
      BY <1>1
    <3>2. QED
      BY <1>1, <1>8, <3>1, OwedWith
  <2>3. QED
    BY <2>1, <2>2
<1>10. \A b \in M : m < SiteCapacity => \E i \in 1 .. m : r.live[i].site = g.mem[b].word
  <2>1. \A b \in L : m < SiteCapacity => \E i \in 1 .. m : r.live[i].site = g.mem[b].word
    BY <1>4, <1>7 DEF Balanced, Accounting
  <2>2. m < SiteCapacity => \E i \in 1 .. m : r.live[i].site = g.mem[a].word
    BY <1>4, <1>7 DEF HasRow
  <2>3. QED
    BY <1>8, <2>1, <2>2
<1>11. Balanced(g.live, g, M)
  BY <1>4, <1>6, <1>9, <1>10, BalancedCredited
<1>12. Sized(g, M)
  BY <1>2, <1>7, <1>8 DEF Sized
<1>13. QED
  BY <1>6, <1>7, <1>8, <1>11, <1>12, BookedIs DEF Credited

\* One that is given back is taken off.
LEMMA BookedLess ==
  ASSUME HeapAssumption, NEW h \in Heaps, NEW L, L \subseteq Units, Booked(h, L), NEW a \in L,
         NEW k \in Heaps, k.live = h.live, \A b \in L \ {a} : k.mem[b] = h.mem[b],
         NEW g, g = Accounts(k, h.mem[a].word, - h.mem[a].size)
  PROVE  OnlyBooks(g, k) /\ g.live \in Seq([site : Sites, bytes : Int]) /\ Booked(g, L \ {a})
<1>1. HeapEnd \in Nat /\ Sizes(h, L) /\ h.mem[a].size \in Int
  BY SizesIn DEF HeapAssumption
<1>2. Sized(h, L) /\ Balanced(h.live, h, L)
  BY BookedIs
<1>3. PICK site \in Sites : site = h.mem[a].word
  BY <1>2 DEF Sized
<1>4. PICK delta \in Int : delta = - h.mem[a].size
  BY <1>1
<1>5. PICK m \in Nat : Accounting(k.live, m)
  BY AccountingIs DEF Heaps
<1>6. OnlyBooks(g, k) /\ Credited(g.live, k.live, m, site, delta)
  <2>1. Len(k.live) = m /\ g = Accounts(k, site, delta)
    BY <1>3, <1>4, <1>5 DEF Accounting
  <2>2. QED
    BY <2>1, AccountsIs
<1>7. g.mem = k.mem
  BY <1>6 DEF OnlyBooks
<1>8. PICK M : M = L \ {a}
  OBVIOUS
<1>9. ASSUME NEW t PROVE Owed(g, M, t) = Owed(h, L, t) + Due(site, t, delta)
  <2>1. Owed(g, M, t) = Owed(h, M, t)
    <3>1. Sizes(h, M) /\ SameBooks(g, h, M)
      BY <1>1, <1>7, <1>8 DEF Sizes, SameBooks
    <3>2. QED
      BY <1>1, <3>1, OwedSame
  <2>2. Owed(h, M, t) = Owed(h, L, t) - Due(site, t, h.mem[a].size)
    BY <1>1, <1>3, <1>8, OwedWithout
  <2>3. Owed(h, L, t) \in Int
    BY <1>1, OwedSame DEF SameBooks
  <2>4. Due(site, t, delta) = - Due(site, t, h.mem[a].size) /\ Due(site, t, h.mem[a].size) \in Int
    BY <1>1, <1>4 DEF Due
  <2>5. QED
    BY <2>1, <2>2, <2>3, <2>4
<1>10. \A b \in M : m < SiteCapacity => \E i \in 1 .. m : k.live[i].site = g.mem[b].word
  <2>1. \A b \in L : m < SiteCapacity => \E i \in 1 .. m : k.live[i].site = h.mem[b].word
    BY <1>2, <1>5 DEF Balanced, Accounting
  <2>2. QED
    BY <1>7, <1>8, <2>1
<1>11. Balanced(g.live, g, M)
  <2>1. Balanced(k.live, h, L)
    BY <1>2
  <2>2. QED
    BY <1>5, <1>6, <1>9, <1>10, <2>1, BalancedCredited
<1>12. Sized(g, M)
  BY <1>2, <1>7, <1>8 DEF Sized
<1>13. QED
  BY <1>6, <1>8, <1>11, <1>12, BookedIs DEF Credited

\* One whose size changes is corrected.
LEMMA BookedOther ==
  ASSUME HeapAssumption, NEW h \in Heaps, NEW L, L \subseteq Units, Booked(h, L), NEW a \in L,
         NEW k \in Heaps, k.live = h.live, \A b \in L \ {a} : k.mem[b] = h.mem[b],
         k.mem[a].word = h.mem[a].word,
         NEW g, g = Accounts(k, h.mem[a].word, k.mem[a].size - h.mem[a].size),
         NEW f, f.live = g.live, \A b \in L \ {a} : f.mem[b] = h.mem[b],
         f.mem[a].word = h.mem[a].word, f.mem[a].size = k.mem[a].size,
         f.mem[a].size < f.mem[a].capacity
  PROVE  OnlyBooks(g, k) /\ g.live \in Seq([site : Sites, bytes : Int]) /\ Booked(f, L)
<1>1. HeapEnd \in Nat /\ Sizes(h, L) /\ h.mem[a].size \in Int /\ k.mem[a].size \in Int /\ a \in Units
  BY SizesIn DEF HeapAssumption
<1>2. Sized(h, L) /\ Balanced(h.live, h, L)
  BY BookedIs
<1>3. PICK site \in Sites : site = h.mem[a].word
  BY <1>2 DEF Sized
<1>4. PICK delta \in Int : delta = k.mem[a].size - h.mem[a].size
  BY <1>1
<1>5. PICK m \in Nat : Accounting(k.live, m)
  BY AccountingIs DEF Heaps
<1>6. OnlyBooks(g, k) /\ Credited(g.live, k.live, m, site, delta)
  <2>1. Len(k.live) = m /\ g = Accounts(k, site, delta)
    BY <1>3, <1>4, <1>5 DEF Accounting
  <2>2. QED
    BY <2>1, AccountsIs
<1>7. PICK M : M = L \ {a}
  OBVIOUS
<1>8. L = M \cup {a} /\ a \notin M
  BY <1>7
<1>9. ASSUME NEW t PROVE Owed(f, L, t) = Owed(h, L, t) + Due(site, t, delta)
  <2>1. Sizes(h, M) /\ SameBooks(f, h, M) /\ Sizes(f, M)
    BY <1>1, <1>7 DEF Sizes, SameBooks
  <2>2. Owed(f, M, t) = Owed(h, M, t)
    BY <1>1, <2>1, OwedSame
  <2>3. Owed(h, M, t) = Owed(h, L, t) - Due(site, t, h.mem[a].size)
    BY <1>1, <1>3, <1>7, OwedWithout
  <2>4. Owed(f, L, t) = Owed(f, M, t) + Due(site, t, k.mem[a].size)
    <3>1. f.mem[a].size \in Int /\ a \in Units
      BY <1>1
    <3>2. Owed(f, M \cup {a}, t) = Owed(f, M, t) + Due(f.mem[a].word, t, f.mem[a].size)
      BY <1>1, <1>8, <2>1, <3>1, OwedWith
    <3>3. QED
      BY <1>3, <1>8, <3>2
  <2>5. Owed(h, L, t) \in Int
    BY <1>1, OwedSame DEF SameBooks
  <2>6. /\ Due(site, t, delta) = Due(site, t, k.mem[a].size) - Due(site, t, h.mem[a].size)
        /\ Due(site, t, h.mem[a].size) \in Int /\ Due(site, t, k.mem[a].size) \in Int
    BY <1>1, <1>4 DEF Due
  <2>7. QED
    BY <2>2, <2>3, <2>4, <2>5, <2>6
<1>10. \A b \in L : m < SiteCapacity => \E i \in 1 .. m : k.live[i].site = f.mem[b].word
  <2>1. \A b \in L : m < SiteCapacity => \E i \in 1 .. m : k.live[i].site = h.mem[b].word
    BY <1>2, <1>5 DEF Balanced, Accounting
  <2>2. \A b \in L : f.mem[b].word = h.mem[b].word
    BY <1>7
  <2>3. QED
    BY <2>1, <2>2
<1>11. Balanced(f.live, f, L)
  <2>1. Balanced(k.live, h, L) /\ f.live = g.live
    BY <1>2
  <2>2. QED
    BY <1>5, <1>6, <1>9, <1>10, <2>1, BalancedCredited
<1>12. Sized(f, L)
  <2>1. \A b \in M : f.mem[b] = h.mem[b]
    BY <1>7
  <2>2. QED
    BY <1>2, <1>3, <1>8, <2>1 DEF Sized
<1>13. QED
  BY <1>6, <1>11, <1>12, BookedIs DEF Credited

-----------------------------------------------------------------------------
(* Writing into a block *)

LEMMA Interior ==
  ASSUME HeapEnd \in Nat, NEW h, h.cursor \in 0 .. HeapEnd, NEW B, Tiled(h, B), NEW a \in B,
         NEW u \in Extent(h, a), u # a
  PROVE  u \notin B /\ u \in Units
<1>1. u \in Units
  BY UnitsTyped
<1>2. ASSUME u \in B PROVE FALSE
  <2>1. u \in Extent(h, u)
    BY <1>2, UnitsTyped
  <2>2. QED
    BY <1>2, <2>1, UnitsApart
<1>3. QED
  BY <1>1, <1>2

\* What lies in a block that is not free is written over.
Fills(g, h, a) ==
  /\ Shaped(g) /\ g.cursor = h.cursor /\ g.bins = h.bins /\ g.reusable = h.reusable /\ g.live = h.live
  /\ g.mem \in [Units -> Cells] /\ SameBut(g, h, Extent(h, a) \ {a})
  /\ \A u \in Extent(h, a) \ {a} : g.mem[u].magic # "live"

LEMMA Filled ==
  ASSUME HeapAssumption, NEW h, NEW L, NEW F, NEW X, Blocks(h, L, F, X), NEW a \in L \cup X,
         NEW g, Fills(g, h, a), NEW M, M \subseteq L \cup F \cup X, a \notin M
  PROVE  /\ Blocks(g, L, F, X) /\ Untouched(g, h, M) /\ g.mem[a] = h.mem[a]
         /\ \A b \in L \cup F \cup X : g.mem[b] = h.mem[b]
<1>1. PICK B : B = L \cup F \cup X
  OBVIOUS
<1>2. /\ HeapEnd \in Nat /\ Fields(h) /\ h.cursor \in 0 .. HeapEnd
      /\ Tiled(h, B) /\ B \subseteq Units
  BY <1>1, BlocksAre
<1>3. a \in B /\ F \subseteq B \ {a} /\ a \in Units
  BY <1>1, <1>2 DEF Blocks
<1>4. /\ Shaped(g) /\ g.cursor = h.cursor /\ g.bins = h.bins /\ g.reusable = h.reusable
      /\ g.live = h.live /\ g.mem \in [Units -> Cells] /\ SameBut(g, h, Extent(h, a) \ {a})
      /\ \A u \in Extent(h, a) \ {a} : g.mem[u].magic # "live"
  BY DEF Fills
<1>5. ASSUME NEW b \in B \ {a}, NEW u \in Extent(h, b) PROVE g.mem[u] = h.mem[u]
  <2>1. u \in Units /\ u \notin Extent(h, a)
    BY <1>2, <1>3, UnitsTyped, UnitsApart
  <2>2. QED
    BY <1>4, <2>1 DEF SameBut
<1>6. Untouched(g, h, M) /\ Untouched(g, h, F)
  BY <1>1, <1>3, <1>5 DEF Untouched
<1>7. \A b \in B : g.mem[b] = h.mem[b]
  <2>1. \A b \in B \ {a} : g.mem[b] = h.mem[b]
    BY <1>2, <1>5, UnitsTyped
  <2>2. g.mem[a] = h.mem[a]
    BY <1>3, <1>4 DEF SameBut
  <2>3. QED
    BY <2>1, <2>2
<1>8. \A u \in Units : g.mem[u].magic = "live" <=> u \in L
  <2>1. \A u \in Units : h.mem[u].magic = "live" <=> u \in L
    BY DEF Blocks, Tagged
  <2>2. ASSUME NEW u \in Units PROVE g.mem[u].magic = "live" <=> u \in L
    <3>1. CASE u \in Extent(h, a) \ {a}
      <4>1. u \notin L
        BY <1>1, <1>2, <1>3, <3>1, Interior
      <4>2. QED
        BY <1>4, <3>1, <4>1
    <3>2. CASE u \notin Extent(h, a) \ {a}
      BY <1>4, <2>1, <3>2 DEF SameBut
    <3>3. QED
      BY <3>1, <3>2
  <2>3. QED
    BY <2>2
<1>9. g \in Heaps
  BY <1>2, <1>4, HeapMade DEF Fields
<1>10. Blocks(g, L, F, X)
  <2>1. L \cup X = L \cup X /\ L \cap X = {} /\ Blocks(h, L, F, X)
    BY DEF Blocks
  <2>2. \A b \in L \cup F \cup X : g.mem[b].capacity = h.mem[b].capacity
    BY <1>1, <1>7
  <2>3. g.cursor = h.cursor /\ g.bins = h.bins /\ g.reusable = h.reusable
    BY <1>4
  <2>4. QED
    BY ONLY HeapAssumption, <1>6, <1>8, <1>9, <2>1, <2>2, <2>3, Retouched
<1>11. QED
  BY <1>1, <1>6, <1>7, <1>10

LEMMA BlocksBooks ==
  ASSUME NEW k, NEW L, NEW F, NEW X, Blocks(k, L, F, X), NEW g, OnlyBooks(g, k),
         g.live \in Seq([site : Sites, bytes : Int])
  PROVE  Blocks(g, L, F, X)
<1>1. Shaped(g) /\ g.mem = k.mem /\ g.cursor = k.cursor /\ g.bins = k.bins /\ g.reusable = k.reusable
  BY DEF OnlyBooks
<1>2. g \in Heaps
  <2>1. Fields(k)
    BY HeapFields DEF Blocks
  <2>2. QED
    BY <1>1, <2>1, HeapMade DEF Fields
<1>3. Tiled(g, L \cup F \cup X) /\ Tagged(g, L, F)
  BY <1>1 DEF Blocks, Tiled, Tagged, EndIn
<1>4. flags.reuse => Footed(g, F) /\ Binned(g, F) /\ \A a \in F : EndIn(g, a) \in L \cup X
  BY <1>1 DEF Blocks, Footed, Binned, EndIn
<1>5. QED
  BY <1>2, <1>3, <1>4 DEF Blocks

LEMMA BumpedIs ==
  ASSUME HeapAssumption, NEW h, NEW L, NEW F, Blocks(h, L, F, {}), NEW n \in 2 .. HeapEnd,
         h.cursor + 1 + n <= HeapEnd, NEW a, a = h.cursor, NEW g, g = Bumped(h, n)
  PROVE  /\ Blocks(g, L, F, {a}) /\ g.mem[a].capacity = n /\ a \in Units
         /\ g.live = h.live /\ Untouched(g, h, L)
<1>1. PICK B : B = L \cup F
  OBVIOUS
<1>2. /\ HeapEnd \in Nat /\ Fields(h) /\ h.cursor \in 0 .. HeapEnd /\ h \in Heaps
      /\ Tiled(h, B) /\ B \subseteq Units
  <2>1. B = L \cup F \cup {}
    BY <1>1
  <2>2. QED
    BY <2>1, BlocksAre
<1>3. \A b \in B : Ranged(h, b)
  BY <1>2, RangedIn
<1>4. a \in Units /\ a \in Nat /\ L \subseteq B /\ F \subseteq B /\ a \notin B
  BY <1>1, <1>2, <1>3 DEF Units, Base, Ranged
<1>5. h.mem \in [Units -> Cells]
  BY <1>2 DEF Fields
<1>6. PICK x \in Cells : x = h.mem[a]
  BY <1>4, <1>5
<1>7. PICK y : y = [x EXCEPT !.capacity = n]
  OBVIOUS
<1>8. y \in Cells /\ y.capacity = n /\ y.magic = x.magic
  <2>1. n \in 0 .. HeapEnd
    BY <1>2
  <2>2. QED
    BY <1>7, <2>1 DEF Cells
<1>9. PICK c \in 0 .. HeapEnd : c = a + 1 + n
  BY <1>2, <1>4
<1>10. /\ g.cursor = c /\ g.live = h.live /\ Shaped(g) /\ g.bins = h.bins
       /\ g.reusable = h.reusable /\ g.mem = [h.mem EXCEPT ![a].capacity = n]
  <2>1. g = [h EXCEPT !.cursor = c, !.mem[a].capacity = n]
    BY <1>2, <1>9 DEF Bumped, Heaps
  <2>2. QED
    BY <1>2, <2>1 DEF Heaps, Shaped
<1>11. g.mem = [h.mem EXCEPT ![a] = y]
  BY <1>6, <1>7, <1>10
<1>12. g.mem \in [Units -> Cells] /\ g.mem[a] = y /\ SameBut(g, h, {a})
  BY <1>4, <1>5, <1>8, <1>11 DEF SameBut
<1>13. g \in Heaps
  BY <1>2, <1>10, <1>12, HeapMade DEF Fields
<1>14. \A b \in B : \A u \in Extent(h, b) : g.mem[u] = h.mem[u]
  <2>1. ASSUME NEW b \in B, NEW u \in Extent(h, b) PROVE g.mem[u] = h.mem[u]
    <3>1. u \in Units /\ u # a
      BY <1>2, UnitsTyped
    <3>2. QED
      BY <1>12, <3>1 DEF SameBut
  <2>2. QED
    BY <2>1
<1>15. Untouched(g, h, L) /\ Untouched(g, h, F) /\ \A b \in B : g.mem[b] = h.mem[b]
  <2>1. \A b \in B : g.mem[b] = h.mem[b]
    BY <1>2, <1>14, UnitsTyped
  <2>2. QED
    BY <1>4, <1>14, <2>1 DEF Untouched
<1>16. Tiled(g, B \cup {a})
  <2>1. n \in 2 .. HeapEnd /\ a = h.cursor
    OBVIOUS
  <2>2. g.cursor = h.cursor + 1 + n /\ g.mem[h.cursor].capacity = n
    BY <1>8, <1>9, <1>10, <1>12
  <2>3. \A b \in B : g.mem[b].capacity = h.mem[b].capacity
    BY <1>15
  <2>4. Tiled(g, B \cup {h.cursor})
    BY ONLY <1>2, <2>1, <2>2, <2>3, Bumps
  <2>5. QED
    BY <2>1, <2>4
<1>17. Tagged(g, L, F)
  <2>1. (\A u \in Units : h.mem[u].magic = "live" <=> u \in L) /\ \A f \in F : h.mem[f].magic = "free"
    BY DEF Blocks, Tagged
  <2>2. ASSUME NEW u \in Units PROVE g.mem[u].magic = h.mem[u].magic
    <3>1. CASE u = a
      BY <1>6, <1>8, <1>12, <3>1
    <3>2. CASE u # a
      BY <1>12, <3>2 DEF SameBut
    <3>3. QED
      BY <3>1, <3>2
  <2>3. \A f \in F : g.mem[f] = h.mem[f]
    BY <1>4, <1>15
  <2>4. QED
    BY <2>1, <2>2, <2>3 DEF Tagged
<1>18. ASSUME flags.reuse
       PROVE  Footed(g, F) /\ Binned(g, F) /\ \A f \in F : EndIn(g, f) \in L \cup {a}
  <2>1. Footed(h, F) /\ Binned(h, F) /\ \A f \in F : EndIn(h, f) \in L \cup {}
    BY <1>18 DEF Blocks
  <2>2. g.bins = h.bins /\ g.reusable = h.reusable
    BY <1>10
  <2>3. /\ Footed(g, F) /\ Binned(g, F)
        /\ \A f \in F : EndIn(g, f) = EndIn(h, f) /\ g.mem[f] = h.mem[f]
    <3>1. Footed(h, F) /\ Binned(h, F) /\ F \subseteq B /\ Untouched(g, h, F)
      BY <1>4, <1>15, <2>1
    <3>2. QED
      BY ONLY <1>2, <2>2, <3>1, FreesKept
  <2>4. QED
    BY <2>1, <2>3
<1>19. Blocks(g, L, F, {a})
  <2>1. L \cup F \cup {a} = B \cup {a} /\ L \cap F = {} /\ {a} \cap (L \cup F) = {}
    BY <1>1, <1>4 DEF Blocks
  <2>2. QED
    BY <1>13, <1>16, <1>17, <1>18, <2>1, Zenon DEF Blocks
<1>20. QED
  BY <1>4, <1>8, <1>10, <1>12, <1>15, <1>19

-----------------------------------------------------------------------------
(* Giving out a block *)

LEMMA WholeIs ==
  ASSUME HeapAssumption, NEW h, NEW L, NEW F, Whole(h, L, F)
  PROVE  /\ HeapEnd \in Nat /\ h.cursor \in 0 .. HeapEnd /\ h \in Heaps
         /\ Tiled(h, L \cup F) /\ L \subseteq Units /\ F \subseteq Units
         /\ Blocks(h, L, F, {}) /\ Booked(h, L)
<1>1. Blocks(h, L, F, {}) /\ Booked(h, L)
  BY DEF Whole
<1>2. /\ HeapEnd \in Nat /\ h.cursor \in 0 .. HeapEnd /\ h \in Heaps
      /\ Tiled(h, L \cup F \cup {}) /\ L \cup F \cup {} \subseteq Units
  BY <1>1, BlocksAre
<1>3. L \cup F \cup {} = L \cup F
  OBVIOUS
<1>4. QED
  BY <1>1, <1>2, <1>3

LEMMA BookedUntouched ==
  ASSUME HeapEnd \in Nat, NEW h \in Heaps, h.cursor \in 0 .. HeapEnd, NEW B, Tiled(h, B), B \subseteq Units,
         NEW L, L \subseteq B, Booked(h, L), NEW g, g.live = h.live, Untouched(g, h, L)
  PROVE  Booked(g, L)
<1>1. \A a \in L : g.mem[a] = h.mem[a]
  BY UnitsTyped DEF Untouched
<1>2. Sizes(h, L)
  BY SizesIn
<1>3. QED
  BY <1>1, <1>2, BookedSame

LiveCell(size, c, site) == [size |-> size, magic |-> "live", capacity |-> c, word |-> site]

HandsOut(g, h, a, size, site) ==
  /\ size \in Nat /\ site \in Sites /\ size < h.mem[a].capacity
  /\ g = Records([h EXCEPT !.mem[a].size = size, !.mem[a].magic = "live", !.mem[a].word = site], site, size)

\* A block in hand becomes one of the guest's.
HandedOut(g, h, L, F, a, size) ==
  Whole(g, L \cup {a}, F) /\ SameBut(g, h, {a}) /\ g.mem[a].size = size /\ a \in Units /\ a \notin L

LEMMA Handed ==
  ASSUME HeapAssumption, NEW h, NEW L, NEW F, NEW a, Blocks(h, L, F, {a}), Booked(h, L),
         NEW size, NEW site, NEW g, HandsOut(g, h, a, size, site)
  PROVE  HandedOut(g, h, L, F, a, size)
<1> PICK k : k = [h EXCEPT !.mem[a].size = size, !.mem[a].magic = "live", !.mem[a].word = site]
  OBVIOUS
<1> size \in Nat /\ site \in Sites /\ size < h.mem[a].capacity /\ g = Records(k, site, size)
  BY DEF HandsOut
<1>1. PICK B : B = L \cup F \cup {a}
  OBVIOUS
<1>2. /\ HeapEnd \in Nat /\ Fields(h) /\ h.cursor \in 0 .. HeapEnd /\ h \in Heaps
      /\ Tiled(h, B) /\ B \subseteq Units
  BY <1>1, BlocksAre
<1>3. a \in B /\ a \in Units /\ a \notin L /\ L \subseteq Units
  BY <1>1, <1>2 DEF Blocks
<1>4. PICK c \in 2 .. HeapEnd : c = h.mem[a].capacity
  <2>1. Ranged(h, a)
    BY <1>2, <1>3, RangedIn
  <2>2. QED
    BY <2>1 DEF Ranged
<1>5. PICK y : y = LiveCell(size, c, site)
  OBVIOUS
<1>6. y \in Cells /\ y.capacity = c /\ y.magic = "live" /\ y.size = size /\ y.word = site
  <2>1. size \in 0 .. HeapEnd /\ c \in 0 .. HeapEnd
    BY <1>2, <1>4
  <2>2. QED
    BY <1>5, <2>1 DEF LiveCell, Cells
<1>7. h.mem \in [Units -> Cells]
  BY <1>2 DEF Fields
<1>8. k.mem = [h.mem EXCEPT ![a] = y]
  <2>1. k.mem = [h.mem EXCEPT ![a].size = size, ![a].magic = "live", ![a].word = site]
    BY <1>2 DEF Heaps
  <2>2. PICK x \in Cells : x = h.mem[a]
    BY <1>3, <1>7
  <2>3. PICK z : z = [x EXCEPT !.size = size, !.magic = "live", !.word = site]
    OBVIOUS
  <2>4. k.mem = [h.mem EXCEPT ![a] = z]
    BY <1>3, <1>7, <2>1, <2>2, <2>3
  <2>5. z = [size |-> size, magic |-> "live", capacity |-> x.capacity, word |-> site]
    BY <2>3 DEF Cells
  <2>6. z = y
    BY <1>4, <1>5, <2>2, <2>5 DEF LiveCell
  <2>7. QED
    BY <2>4, <2>6
<1>9. /\ Shaped(k) /\ k.cursor = h.cursor /\ k.bins = h.bins /\ k.reusable = h.reusable
      /\ k.live = h.live
  BY <1>2 DEF Heaps, Shaped
<1>10. PICK M : M = L \cup {a}
  OBVIOUS
<1>11. Blocks(k, M, F, {}) /\ SameBut(k, h, {a}) /\ k.mem[a] = y
  <2>1. PICK X, Z : X = {a} /\ Z = {}
    OBVIOUS
  <2>2. Blocks(h, L, F, X) /\ Retags(M, Z, L, X, a, y)
    BY <1>3, <1>6, <1>10, <2>1 DEF Retags
  <2>3. Reheads(k, h, a, y)
    BY <1>2, <1>4, <1>6, <1>8, <1>9 DEF Reheads, Fields
  <2>5. Blocks(k, M, F, Z) /\ SameBut(k, h, {a}) /\ k.mem[a] = y
    BY ONLY HeapAssumption, <2>2, <2>3, Headed
  <2>6. QED
    BY <2>1, <2>5
<1>12. k \in Heaps
  BY <1>11, BlocksAre
<1>13. Booked(k, L)
  <2>1. \A b \in L : k.mem[b] = h.mem[b]
    BY <1>3, <1>11 DEF SameBut
  <2>2. Sizes(h, L) /\ Booked(h, L) /\ k.live = h.live /\ HeapEnd \in Nat
    BY <1>2, <1>3, <1>9, SizesIn
  <2>3. QED
    BY ONLY <2>1, <2>2, BookedSame
<1>14. OnlyBooks(g, k) /\ g.live \in Seq([site : Sites, bytes : Int]) /\ Booked(g, M)
  <2>1. /\ size = k.mem[a].size /\ size < k.mem[a].capacity /\ site = k.mem[a].word
    BY <1>4, <1>6, <1>11
  <2>2. OnlyBooks(g, k) /\ g.live \in Seq([site : Sites, bytes : Int]) /\ Booked(g, L \cup {a})
    BY <1>3, <1>12, <1>13, <2>1, BookedMore
  <2>3. QED
    BY <1>10, <2>2
<1>15. Whole(g, M, F)
  BY <1>11, <1>14, BlocksBooks DEF Whole
<1>16. g.mem = k.mem
  BY <1>14 DEF OnlyBooks
<1>17. SameBut(g, h, {a}) /\ g.mem[a].size = size
  BY <1>6, <1>11, <1>16 DEF SameBut
<1>18. QED
  BY <1>3, <1>10, <1>15, <1>17 DEF HandedOut

\* What a call that gives out a block comes to.
GivenTo(g, a, h, L, size) ==
  /\ \E G \in SUBSET Units : Whole(g, L \cup {a}, G)
  /\ a \in Units /\ a \notin L /\ Untouched(g, h, L) /\ g.mem[a].size = size

LEMMA AllocatedIs ==
  ASSUME HeapAssumption, NEW h, NEW L, NEW F, Whole(h, L, F), NEW size \in Nat \ {0}, NEW site \in Sites,
         CanAllocate(h, size), NEW g, g = Allocated(h, size, site), NEW a, a = AddressFor(h, size)
  PROVE  GivenTo(g, a, h, L, size)
<1>1. /\ HeapEnd \in Nat /\ h.cursor \in 0 .. HeapEnd /\ h \in Heaps
      /\ Tiled(h, L \cup F) /\ L \subseteq Units /\ F \subseteq Units
      /\ Blocks(h, L, F, {}) /\ Booked(h, L)
  BY WholeIs
<1>2. PICK n \in Nat : n = CapacityFor(size)
  BY DEF CapacityFor
<1>3. n = size + 1 /\ n >= 2
  BY <1>2 DEF CapacityFor
<1>4. PICK got : got = IF Reusable(h, size) THEN TakeFree(h, n) ELSE Bumped(h, n)
  OBVIOUS
<1>5. PICK k : k = [got EXCEPT !.mem[a].size = size, !.mem[a].magic = "live", !.mem[a].word = site]
  OBVIOUS
<1>6. g = Records(k, site, size)
  BY <1>2, <1>4, <1>5 DEF Allocated
<1>7. \E G \in SUBSET Units : /\ Blocks(got, L, G, {a}) /\ got.mem[a].capacity >= n
                              /\ got.live = h.live /\ Untouched(got, h, L)
  <2>1. CASE Reusable(h, size)
    <3>1. flags.reuse /\ HasFit(h, n) /\ a = FirstFit(h, n) /\ got = TakeFree(h, n)
      BY <1>2, <1>4, <2>1 DEF Reusable, AddressFor
    <3>2. Reusing(h, L, F, {})
      BY <1>1, <3>1, ReusesBlocks
    <3>3. n \in 2 .. HeapEnd
      <4>1. h.bins \in [Bins -> Seq(Units)] /\ Binned(h, F)
        BY <3>2, HeapFields DEF Reusing, Fields
      <4>2. a \in F /\ h.mem[a].capacity >= n
        BY <1>3, <3>1, <4>1, FitFound
      <4>3. Ranged(h, a)
        BY <1>1, <4>2, RangedIn
      <4>4. QED
        BY <1>1, <1>3, <4>2, <4>3 DEF Ranged
    <3>4. GivenOut(got, a, h, L, n)
      BY <3>1, <3>2, <3>3, Taken
    <3>5. PICK G \in SUBSET Units : Reusing(got, L, G, {a}) /\ got.mem[a].capacity >= n
                                    /\ got.live = h.live /\ Untouched(got, h, L)
      BY <3>4 DEF GivenOut
    <3>6. Blocks(got, L, G, {a})
      BY <3>1, <3>5, ReusesBlocks
    <3>7. QED
      BY <3>5, <3>6
  <2>2. CASE ~ Reusable(h, size)
    <3>1. h.cursor + 1 + n <= HeapEnd /\ a = h.cursor /\ got = Bumped(h, n)
      BY <1>2, <1>4, <2>2 DEF CanAllocate, AddressFor
    <3>2. n \in 2 .. HeapEnd
      BY <1>1, <1>3, <3>1
    <3>3. /\ Blocks(got, L, F, {a}) /\ got.mem[a].capacity = n /\ a \in Units
          /\ got.live = h.live /\ Untouched(got, h, L)
      BY <1>1, <3>1, <3>2, BumpedIs
    <3>4. got.mem[a].capacity >= n
      BY <3>3
    <3>5. QED
      BY <1>1, <3>3, <3>4
  <2>3. QED
    BY <2>1, <2>2
<1>8. PICK G \in SUBSET Units : /\ Blocks(got, L, G, {a}) /\ got.mem[a].capacity >= n
                                /\ got.live = h.live /\ Untouched(got, h, L)
  BY <1>7
<1>9. Booked(got, L)
  <2>1. PICK B : B = L \cup F
    OBVIOUS
  <2>2. L \subseteq B /\ B \subseteq Units /\ Tiled(h, B)
    BY <1>1, <2>1
  <2>3. QED
    BY ONLY <1>1, <1>8, <2>2, BookedUntouched
<1>10. /\ Whole(g, L \cup {a}, G) /\ SameBut(g, got, {a}) /\ g.mem[a].size = size
       /\ a \in Units /\ a \notin L
  <2>1. size < got.mem[a].capacity
    <3>1. PICK C : C = L \cup G \cup {a}
      OBVIOUS
    <3>2. Tiled(got, C) /\ a \in C /\ got.cursor \in 0 .. HeapEnd
      BY <1>8, <3>1, BlocksAre
    <3>3. Ranged(got, a)
      BY <1>1, <3>2, RangedIn
    <3>4. QED
      BY <1>3, <1>8, <3>3 DEF Ranged
  <2>2. HandsOut(g, got, a, size, site)
    BY <1>5, <1>6, <2>1 DEF HandsOut
  <2>3. Blocks(got, L, G, {a}) /\ Booked(got, L)
    BY <1>8, <1>9
  <2>4. HandedOut(g, got, L, G, a, size)
    BY ONLY HeapAssumption, <2>2, <2>3, Handed, Zenon
  <2>5. QED
    BY <2>4, Zenon DEF HandedOut
<1>11. Untouched(g, h, L)
  <2>1. PICK C : C = L \cup G \cup {a}
    OBVIOUS
  <2>2. Tiled(got, C) /\ got.cursor \in 0 .. HeapEnd
    BY <1>8, <2>1, BlocksAre
  <2>3. a \in C /\ L \subseteq C
    BY <2>1
  <2>4. a \in Extent(got, a)
    BY <1>1, <2>2, <2>3, UnitsTyped
  <2>5. Untouched(g, got, L)
    BY ONLY <1>1, <1>10, <2>2, <2>3, <2>4, LeavesAlone
  <2>6. PICK B : B = L \cup F
    OBVIOUS
  <2>7. L \subseteq B /\ Tiled(h, B)
    BY <1>1, <2>6
  <2>8. QED
    BY ONLY <1>1, <1>8, <2>5, <2>7, LeavesOn
<1>12. QED
  BY <1>8, <1>10, <1>11 DEF GivenTo

-----------------------------------------------------------------------------
(* Taking a block back *)

Releases(k, h, a) == k = [h EXCEPT !.mem[a] = FreeCell(h.mem[a].capacity)]

\* The header of a block that is being given back.
LEMMA Released ==
  ASSUME HeapAssumption, NEW h, NEW L, NEW F, Whole(h, L, F), NEW a \in L,
         NEW k, Releases(k, h, a), NEW M, M = L \ {a}
  PROVE  /\ Blocks(k, M, F, {a}) /\ SameBut(k, h, {a}) /\ k.live = h.live
         /\ k.mem[a].magic = "free" /\ k \in Heaps
<1>1. PICK B : B = L \cup F
  OBVIOUS
<1>2. /\ HeapEnd \in Nat /\ h.cursor \in 0 .. HeapEnd /\ h \in Heaps /\ Fields(h)
      /\ Tiled(h, B) /\ L \subseteq Units /\ L \subseteq B /\ Blocks(h, L, F, {})
  BY <1>1, WholeIs, HeapFields
<1>3. PICK c \in 2 .. HeapEnd : c = h.mem[a].capacity
  <2>1. Ranged(h, a)
    BY <1>2, RangedIn
  <2>2. QED
    BY <2>1 DEF Ranged
<1>4. PICK y \in Cells : y = FreeCell(c) /\ y.capacity = c /\ y.magic = "free"
  BY <1>2, <1>3, FreeCellIs
<1>5. k = [h EXCEPT !.mem[a] = y]
  BY <1>3, <1>4 DEF Releases
<1>6. Reheads(k, h, a, y)
  <2>1. /\ Shaped(k) /\ k.cursor = h.cursor /\ k.bins = h.bins /\ k.reusable = h.reusable
        /\ k.live = h.live /\ k.mem = [h.mem EXCEPT ![a] = y]
    BY <1>2, <1>5 DEF Heaps, Shaped
  <2>2. QED
    BY <1>2, <1>3, <1>4, <2>1 DEF Reheads, Fields
<1>7. PICK X, Z : X = {} /\ Z = {a}
  OBVIOUS
<1>8. Retags(M, Z, L, X, a, y) /\ Blocks(h, L, F, X)
  BY <1>2, <1>4, <1>7 DEF Retags
<1>9. Blocks(k, M, F, Z) /\ SameBut(k, h, {a}) /\ k.mem[a] = y
  BY ONLY HeapAssumption, <1>6, <1>8, Headed
<1>10. k.live = h.live
  BY <1>2, <1>5 DEF Heaps
<1>11. k \in Heaps
  BY <1>9 DEF Blocks
<1>12. QED
  BY <1>4, <1>7, <1>9, <1>10, <1>11

LEMMA PoisonedIs ==
  ASSUME HeapAssumption, NEW h \in Heaps, NEW a \in Units, Extent(h, a) \subseteq Units,
         h.mem[a].capacity \in 2 .. HeapEnd, NEW g, g = Poisoned(h, a)
  PROVE  g = h \/ Fills(g, h, a)
<1>1. CASE ~ flags.poison
  BY <1>1 DEF Poisoned
<1>2. CASE flags.poison
  <2>1. h.mem \in [Units -> Cells]
    BY DEF Heaps
  <2>2. PICK m : m = [u \in Units |-> IF u \in a + 1 .. a + h.mem[a].capacity THEN Zero ELSE h.mem[u]]
    OBVIOUS
  <2>3. g = [h EXCEPT !.mem = m]
    BY <1>2, <2>2 DEF Poisoned
  <2>4. /\ Shaped(g) /\ g.cursor = h.cursor /\ g.bins = h.bins /\ g.reusable = h.reusable
        /\ g.live = h.live /\ g.mem = m
    BY <2>3 DEF Heaps, Shaped
  <2>5. HeapEnd \in Nat
    BY DEF HeapAssumption
  <2>6. PICK z : z = Zero
    OBVIOUS
  <2>7. z \in Cells /\ z.magic = "none"
    BY <2>5, <2>6 DEF Zero, Cells
  <2>8. \A u : u \in Extent(h, a) \ {a} <=> u \in a + 1 .. a + h.mem[a].capacity
    <3>1. a \in Int /\ h.mem[a].capacity \in Int
      BY DEF Units, Base
    <3>2. QED
      BY <3>1 DEF Extent
  <2>9. m \in [Units -> Cells]
    BY <2>1, <2>2, <2>6, <2>7
  <2>10. SameBut(g, h, Extent(h, a) \ {a})
    BY <2>2, <2>4, <2>8 DEF SameBut
  <2>11. \A u \in Extent(h, a) \ {a} : g.mem[u].magic # "live"
    BY <2>2, <2>4, <2>6, <2>7, <2>8
  <2>12. QED
    BY <2>4, <2>9, <2>10, <2>11 DEF Fills
<1>3. QED
  BY <1>1, <1>2

\* What a call that takes a block back comes to.
TakenBack(g, a, h, L) ==
  (\E G \in SUBSET Units : Whole(g, L \ {a}, G)) /\ Untouched(g, h, L \ {a})

LEMMA DeallocatedIs ==
  ASSUME HeapAssumption, NEW h, NEW L, NEW F, Whole(h, L, F), NEW a \in L, NEW g, g = Deallocated(h, a)
  PROVE  TakenBack(g, a, h, L)
<1>1. PICK B : B = L \cup F
  OBVIOUS
<1>2. PICK M : M = L \ {a}
  OBVIOUS
<1>3. /\ HeapEnd \in Nat /\ h.cursor \in 0 .. HeapEnd /\ h \in Heaps
      /\ Tiled(h, B) /\ L \subseteq Units /\ F \subseteq Units /\ L \subseteq B /\ M \subseteq B /\ Booked(h, L)
  BY <1>1, <1>2, WholeIs
<1>4. PICK k : k = [h EXCEPT !.mem[a] = FreeCell(h.mem[a].capacity)]
  OBVIOUS
<1> Releases(k, h, a)
  BY <1>4 DEF Releases
<1>5. /\ Blocks(k, M, F, {a}) /\ SameBut(k, h, {a}) /\ k.live = h.live
      /\ k.mem[a].magic = "free" /\ k \in Heaps
  BY <1>2, <1>4, Released
<1>6. Untouched(k, h, M)
  <2>1. a \in Extent(h, a) /\ a \in B /\ a \notin M
    BY <1>2, <1>3, UnitsTyped
  <2>2. QED
    BY ONLY <1>3, <1>5, <2>1, LeavesAlone
<1>7. PICK f : f = Accounts(k, h.mem[a].word, - h.mem[a].size)
  OBVIOUS
<1>8. OnlyBooks(f, k) /\ f.live \in Seq([site : Sites, bytes : Int]) /\ Booked(f, M)
  <2>1. \A b \in L \ {a} : k.mem[b] = h.mem[b]
    BY <1>3, <1>5 DEF SameBut
  <2>2. OnlyBooks(f, k) /\ f.live \in Seq([site : Sites, bytes : Int]) /\ Booked(f, L \ {a})
    BY <1>3, <1>5, <1>7, <2>1, BookedLess
  <2>3. QED
    BY <1>2, <2>2
<1>9. Blocks(f, M, F, {a}) /\ f.mem = k.mem
  BY <1>5, <1>8, BlocksBooks DEF OnlyBooks
<1>10. PICK C : C = M \cup F \cup {a}
  OBVIOUS
<1>11. /\ f \in Heaps /\ f.cursor \in 0 .. HeapEnd /\ Tiled(f, C) /\ a \in C /\ M \subseteq C /\ C \subseteq Units
       /\ Ranged(f, a) /\ a \notin M /\ a \in Units
  <2>1. /\ f \in Heaps /\ f.cursor \in 0 .. HeapEnd /\ Tiled(f, C) /\ a \in C /\ M \subseteq C /\ C \subseteq Units
    BY <1>9, <1>10, BlocksAre
  <2>2. Ranged(f, a)
    BY <1>3, <2>1, RangedIn
  <2>3. QED
    BY <1>2, <2>1, <2>2
<1>12. PICK p : p = Poisoned(f, a)
  OBVIOUS
<1>13. /\ Blocks(p, M, F, {a}) /\ Untouched(p, f, M) /\ p.mem[a] = f.mem[a] /\ p.live = f.live
  <2>1. p = f \/ Fills(p, f, a)
    <3>1. Extent(f, a) \subseteq Units /\ f.mem[a].capacity \in 2 .. HeapEnd
      BY <1>3, <1>11, UnitsTyped DEF Ranged
    <3>2. QED
      BY <1>11, <1>12, <3>1, PoisonedIs
  <2>2. CASE p = f
    BY <1>9, <2>2 DEF Untouched
  <2>3. CASE Fills(p, f, a)
    <3>1. PICK X : X = {a}
      OBVIOUS
    <3>2. Blocks(f, M, F, X) /\ a \in M \cup X /\ M \subseteq M \cup F \cup X /\ a \notin M
      BY <1>9, <1>11, <3>1
    <3>3. Blocks(p, M, F, X) /\ Untouched(p, f, M) /\ p.mem[a] = f.mem[a]
      BY ONLY HeapAssumption, <2>3, <3>2, Filled
    <3>5. QED
      BY <2>3, <3>1, <3>3 DEF Fills
  <2>4. QED
    BY <2>1, <2>2, <2>3
<1>14. Untouched(p, h, M)
  <2>1. Untouched(f, h, M)
    BY <1>6, <1>9 DEF Untouched
  <2>2. QED
    BY ONLY <1>3, <1>13, <2>1, LeavesOn
<1>15. Booked(p, M)
  BY ONLY <1>3, <1>8, <1>11, <1>13, BookedUntouched
<1>16. g = IF flags.reuse THEN Coalesce(p, a) ELSE p
  BY <1>4, <1>7, <1>12 DEF Deallocated, FreeCell
<1>17. CASE ~ flags.reuse
  <2>1. PICK G : G = F \cup {a}
    OBVIOUS
  <2>2. Blocks(p, M, G, {})
    <3>1. /\ M \cup G \cup {} = M \cup F \cup {a} /\ M \cap G = {} /\ {} \cap (M \cup G) = {}
      BY <1>2, <1>13, <2>1 DEF Blocks
    <3>2. Tagged(p, M, G)
      BY <1>5, <1>9, <1>13, <2>1 DEF Blocks, Tagged
    <3>3. QED
      BY <1>13, <1>17, <3>1, <3>2 DEF Blocks
  <2>3. g = p
    BY <1>16, <1>17
  <2>4. G \in SUBSET Units
    BY <1>3, <1>11, <2>1
  <2>5. Whole(g, M, G)
    BY <1>15, <2>2, <2>3 DEF Whole
  <2>6. QED
    BY <1>2, <1>14, <2>3, <2>4, <2>5 DEF TakenBack
<1>18. CASE flags.reuse
  <2>1. Reusing(p, M, F, {a}) /\ g = Coalesce(p, a)
    BY <1>13, <1>16, <1>18, ReusesBlocks
  <2>2. PICK G \in SUBSET F, b \in Units :
           /\ Reusing(g, M, G, {}) \/ Reusing(g, M, G \cup {b}, {})
           /\ g.live = p.live /\ Untouched(g, p, M)
    BY <1>18, <2>1, Coalesced
  <2>3. PICK H \in SUBSET Units : Reusing(g, M, H, {})
    <3>1. G \in SUBSET Units /\ G \cup {b} \in SUBSET Units
      BY <1>3
    <3>2. QED
      BY <2>2, <3>1
  <2>4. Blocks(g, M, H, {})
    BY <1>18, <2>3, ReusesBlocks
  <2>5. Booked(g, M)
    <3>1. p \in Heaps /\ p.cursor \in 0 .. HeapEnd /\ Tiled(p, C)
      BY <1>10, <1>13, BlocksAre
    <3>2. QED
      BY ONLY <1>3, <1>11, <1>15, <2>2, <3>1, BookedUntouched
  <2>6. Untouched(g, h, M)
    BY ONLY <1>3, <1>14, <2>2, LeavesOn
  <2>7. Whole(g, M, H)
    BY <2>4, <2>5 DEF Whole
  <2>8. QED
    BY <1>2, <2>6, <2>7 DEF TakenBack
<1>19. QED
  BY <1>17, <1>18

-----------------------------------------------------------------------------
(* A block of another size *)

Resizes(k, h, a, size) == size \in Nat /\ k = [h EXCEPT !.mem[a].size = size]

\* A block of the guest's is of another size, its account aside.
LEMMA Resized ==
  ASSUME HeapAssumption, NEW h, NEW L, NEW F, Whole(h, L, F), NEW a \in L,
         NEW size, size <= HeapEnd, NEW k, Resizes(k, h, a, size)
  PROVE  /\ Blocks(k, L, F, {}) /\ SameBut(k, h, {a}) /\ k.live = h.live /\ k \in Heaps
         /\ k.mem[a].size = size /\ k.mem[a].capacity = h.mem[a].capacity /\ k.mem[a].word = h.mem[a].word
         /\ k.cursor = h.cursor /\ k.mem[a].magic = "live" /\ k.mem[a] \in Cells
<1>1. PICK B : B = L \cup F
  OBVIOUS
<1>2. /\ HeapEnd \in Nat /\ h.cursor \in 0 .. HeapEnd /\ h \in Heaps /\ Fields(h)
      /\ Tiled(h, B) /\ L \subseteq Units /\ L \subseteq B /\ Blocks(h, L, F, {})
  BY <1>1, WholeIs, HeapFields
<1>3. h.mem \in [Units -> Cells] /\ a \in Units
  BY <1>2 DEF Fields
<1>4. PICK x \in Cells : x = h.mem[a]
  BY <1>3
<1>5. x.magic = "live"
  BY <1>2, <1>3, <1>4 DEF Blocks, Tagged
<1>6. PICK y : y = [x EXCEPT !.size = size]
  OBVIOUS
<1>7. /\ y \in Cells /\ y.size = size /\ y.magic = x.magic /\ y.capacity = x.capacity /\ y.word = x.word
  <2>1. size \in 0 .. HeapEnd
    BY <1>2 DEF Resizes
  <2>2. QED
    BY <1>6, <2>1 DEF Cells
<1>8. k = [h EXCEPT !.mem[a].size = size]
  BY DEF Resizes
<1>9. k.mem = [h.mem EXCEPT ![a] = y]
  <2>1. k.mem = [h.mem EXCEPT ![a].size = size]
    BY <1>2, <1>8 DEF Heaps
  <2>2. QED
    BY <1>3, <1>4, <1>6, <2>1
<1>10. /\ Shaped(k) /\ k.cursor = h.cursor /\ k.bins = h.bins /\ k.reusable = h.reusable
       /\ k.live = h.live
  BY <1>2, <1>8 DEF Heaps, Shaped
<1>11. Reheads(k, h, a, y)
  BY <1>2, <1>4, <1>7, <1>9, <1>10 DEF Reheads, Fields
<1>12. PICK X : X = {}
  OBVIOUS
<1>13. Retags(L, X, L, X, a, y) /\ Blocks(h, L, F, X)
  BY <1>2, <1>5, <1>7, <1>12 DEF Retags
<1>14. Blocks(k, L, F, X) /\ SameBut(k, h, {a}) /\ k.mem[a] = y
  BY ONLY HeapAssumption, <1>11, <1>13, Headed
<1>15. k \in Heaps
  BY <1>14 DEF Blocks
<1>16. QED
  BY <1>4, <1>5, <1>7, <1>10, <1>12, <1>14, <1>15

\* What a call that changes the size of a block comes to.
ResizedTo(g, a, h, L, size) ==
  /\ \E G \in SUBSET Units : Whole(g, L, G)
  /\ SameBut(g, h, {a}) /\ Untouched(g, h, L \ {a}) /\ g.mem[a].size = size

LEMMA ShrunkIs ==
  ASSUME HeapAssumption, NEW h, NEW L, NEW F, Whole(h, L, F), NEW a \in L,
         NEW size \in Nat, size < h.mem[a].capacity, NEW k, Resizes(k, h, a, size),
         NEW g, g = Accounts(k, h.mem[a].word, size - h.mem[a].size)
  PROVE  ResizedTo(g, a, h, L, size)
<1>1. PICK B : B = L \cup F
  OBVIOUS
<1>2. /\ HeapEnd \in Nat /\ h.cursor \in 0 .. HeapEnd /\ h \in Heaps /\ F \subseteq Units /\ Booked(h, L)
      /\ Tiled(h, B) /\ L \subseteq Units /\ L \subseteq B /\ Blocks(h, L, F, {})
  BY <1>1, WholeIs
<1>3. size <= HeapEnd
  <2>1. Ranged(h, a)
    BY <1>2, RangedIn
  <2>2. QED
    BY <1>2, <2>1 DEF Ranged
<1>4. /\ Blocks(k, L, F, {}) /\ SameBut(k, h, {a}) /\ k.live = h.live /\ k \in Heaps
      /\ k.mem[a].size = size /\ k.mem[a].capacity = h.mem[a].capacity /\ k.mem[a].word = h.mem[a].word
  BY <1>3, Resized
<1>5. PICK d \in Int : d = size - h.mem[a].size
  <2>1. h.mem[a].size \in Int
    BY <1>2, SizesIn
  <2>2. QED
    BY <2>1
<1>6. OnlyBooks(g, k) /\ g.live \in Seq([site : Sites, bytes : Int])
  <2>1. PICK w \in Sites : w = h.mem[a].word
    BY <1>2 DEF Booked
  <2>2. PICK m \in Nat : Accounting(k.live, m)
    BY <1>4, AccountingIs DEF Heaps
  <2>3. Len(k.live) = m /\ g = Accounts(k, w, d)
    BY <1>5, <2>1, <2>2 DEF Accounting
  <2>4. QED
    BY ONLY <1>4, <1>5, <2>2, <2>3, AccountsIs DEF Credited
<1>7. g.mem = k.mem
  BY <1>6 DEF OnlyBooks
<1>8. SameBut(g, h, {a}) /\ g.mem[a].size = size /\ g.mem[a].word = h.mem[a].word /\ g.mem[a].capacity = h.mem[a].capacity
  BY <1>4, <1>7 DEF SameBut
<1>9. Booked(g, L)
  <2>1. \A b \in L \ {a} : k.mem[b] = h.mem[b]
    BY <1>2, <1>4 DEF SameBut
  <2>5. \A b \in L \ {a} : g.mem[b] = h.mem[b]
    BY <1>7, <2>1
  <2>2. g.mem[a].size < g.mem[a].capacity /\ g.mem[a].size = k.mem[a].size
    BY <1>4, <1>8
  <2>3. g = Accounts(k, h.mem[a].word, k.mem[a].size - h.mem[a].size)
    BY <1>4
  <2>4. a \in L /\ g.mem[a].word = h.mem[a].word
    BY <1>8
  <2>6. QED
    BY ONLY HeapAssumption, <1>2, <1>4, <2>1, <2>2, <2>3, <2>4, <2>5, BookedOther
<1>10. Whole(g, L, F)
  BY <1>4, <1>6, <1>9, BlocksBooks DEF Whole
<1>11. Untouched(g, h, L \ {a})
  <2>1. PICK M : M = L \ {a}
    OBVIOUS
  <2>2. M \subseteq B /\ a \in B /\ a \notin M /\ a \in Extent(h, a)
    BY <1>2, <2>1, UnitsTyped
  <2>3. Untouched(g, h, M)
    BY ONLY <1>2, <1>8, <2>2, LeavesAlone
  <2>4. QED
    BY <2>1, <2>3
<1>12. QED
  BY <1>2, <1>8, <1>10, <1>11 DEF ResizedTo

Stretches(g, k, a, n) == g = [k EXCEPT !.mem[a].capacity = n, !.cursor = a + 1 + n]

LEMMA ExtendedIs ==
  ASSUME HeapAssumption, NEW h, NEW L, NEW F, Whole(h, L, F), NEW a \in L, EndIn(h, a) = h.cursor,
         NEW size \in Nat, NEW n, n = size + 1, n > h.mem[a].capacity, a + 1 + n <= HeapEnd,
         NEW k, Resizes(k, h, a, size),
         NEW f, f = Accounts(k, h.mem[a].word, size - h.mem[a].size),
         NEW g, Stretches(g, f, a, n)
  PROVE  ResizedTo(g, a, h, L, size)
<1>1. PICK B : B = L \cup F
  OBVIOUS
<1>2. /\ HeapEnd \in Nat /\ h.cursor \in 0 .. HeapEnd /\ h \in Heaps /\ F \subseteq Units /\ Booked(h, L)
      /\ Tiled(h, B) /\ L \subseteq Units /\ L \subseteq B /\ Blocks(h, L, F, {}) /\ a \in B
  BY <1>1, WholeIs
<1>3. /\ Ranged(h, a) /\ n \in 2 .. HeapEnd /\ size <= HeapEnd /\ size < n
      /\ a \in Units /\ a + 1 + n \in 0 .. HeapEnd /\ F \subseteq B
  <2>1. Ranged(h, a)
    BY <1>2, RangedIn
  <2>2. QED
    BY <1>1, <1>2, <2>1 DEF Ranged
<1>4. /\ SameBut(k, h, {a}) /\ k.live = h.live /\ k \in Heaps /\ k.cursor = h.cursor
      /\ k.mem[a].size = size /\ k.mem[a].word = h.mem[a].word /\ k.mem[a].magic = "live"
      /\ k.mem[a] \in Cells /\ Blocks(k, L, F, {})
  <2>1. Whole(h, L, F) /\ a \in L /\ size <= HeapEnd /\ Resizes(k, h, a, size)
    BY <1>3
  <2>2. QED
    BY ONLY HeapAssumption, <2>1, Resized
<1>5. OnlyBooks(f, k) /\ f.live \in Seq([site : Sites, bytes : Int])
  <2>1. PICK w \in Sites : w = h.mem[a].word
    BY <1>2 DEF Booked
  <2>2. PICK m \in Nat : Accounting(k.live, m)
    BY <1>4, AccountingIs DEF Heaps
  <2>3. PICK d \in Int : d = size - h.mem[a].size
    <3>1. h.mem[a].size \in Int
      BY <1>2, <1>3, SizesIn
    <3>2. QED
      BY <3>1
  <2>4. Len(k.live) = m /\ f = Accounts(k, w, d)
    BY <2>1, <2>2, <2>3 DEF Accounting
  <2>5. QED
    BY ONLY <1>4, <2>1, <2>2, <2>3, <2>4, AccountsIs DEF Credited
<1>6. /\ Shaped(f) /\ f.mem = k.mem /\ f.cursor = k.cursor /\ f.bins = k.bins /\ f.reusable = k.reusable
      /\ f \in Heaps
  <2>1. Blocks(f, L, F, {})
    BY <1>4, <1>5, BlocksBooks
  <2>2. QED
    BY <1>5, <2>1 DEF OnlyBooks, Blocks
<1>7. h.bins = k.bins /\ h.reusable = k.reusable
  BY <1>2 DEF Resizes, Heaps
<1>8. PICK x \in Cells : x = k.mem[a]
  BY <1>4
<1>9. PICK y : y = [x EXCEPT !.capacity = n]
  OBVIOUS
<1>10. y \in Cells /\ y.size = x.size /\ y.magic = x.magic /\ y.word = x.word /\ y.capacity = n
  <2>1. n \in 0 .. HeapEnd
    BY <1>2, <1>3
  <2>2. QED
    BY <1>9, <2>1 DEF Cells
<1>11. PICK c \in 0 .. HeapEnd : c = a + 1 + n
  BY <1>3
<1>12. /\ g.cursor = c /\ g.live = f.live /\ Shaped(g) /\ g.bins = h.bins
       /\ g.reusable = h.reusable /\ g.mem = [k.mem EXCEPT ![a].capacity = n]
  <2>1. g = [f EXCEPT !.mem[a].capacity = n, !.cursor = c]
    BY <1>11 DEF Stretches
  <2>2. QED
    BY <1>6, <1>7, <2>1 DEF Heaps, Shaped
<1>13. k.mem \in [Units -> Cells]
  BY <1>4 DEF Heaps
<1>14. g.mem \in [Units -> Cells] /\ g.mem[a] = y /\ SameBut(g, k, {a})
  <2>1. g.mem = [k.mem EXCEPT ![a] = y]
    BY <1>8, <1>9, <1>12
  <2>2. QED
    BY <1>3, <1>10, <1>13, <2>1 DEF SameBut
<1>15. SameBut(g, h, {a})
  BY <1>4, <1>14 DEF SameBut
<1>16. g \in Heaps
  <2>1. g.bins \in [Bins -> Seq(Units)] /\ g.reusable \in Int
    BY <1>2, <1>12, HeapFields DEF Fields
  <2>2. QED
    BY <1>5, <1>12, <1>14, <2>1, HeapMade
<1>17. \A b \in B \ {a} : g.mem[b] = h.mem[b] /\ k.mem[b] = h.mem[b]
  <2>1. B \subseteq Units
    BY <1>1, <1>2
  <2>2. QED
    BY <1>4, <1>15, <2>1 DEF SameBut
<1>18. Tiled(g, B)
  <2>1. g.cursor = a + 1 + n /\ g.mem[a].capacity = n
    BY <1>10, <1>11, <1>12, <1>14
  <2>2. \A b \in B \ {a} : g.mem[b].capacity = h.mem[b].capacity
    BY <1>17
  <2>3. EndIn(h, a) = h.cursor /\ n > h.mem[a].capacity
    OBVIOUS
  <2>4. QED
    BY ONLY <1>2, <1>3, <2>1, <2>2, <2>3, Grows
<1>19. a \notin F /\ a \in Extent(h, a)
  BY <1>2, UnitsTyped DEF Blocks
<1>20. Untouched(g, h, F) /\ Untouched(g, h, L \ {a})
  <2>1. PICK M : M = L \ {a}
    OBVIOUS
  <2>2. M \subseteq B /\ a \notin M
    BY <1>2, <2>1
  <2>3. Untouched(g, h, M)
    BY ONLY <1>2, <1>15, <1>19, <2>2, LeavesAlone
  <2>4. Untouched(g, h, F)
    BY ONLY <1>2, <1>3, <1>15, <1>19, LeavesAlone
  <2>5. QED
    BY <2>1, <2>3, <2>4
<1>21. Tagged(g, L, F)
  <2>1. (\A u \in Units : h.mem[u].magic = "live" <=> u \in L) /\ \A b \in F : h.mem[b].magic = "free"
    BY <1>2 DEF Blocks, Tagged
  <2>2. \A u \in Units : g.mem[u].magic = "live" <=> u \in L
    <3>1. g.mem[a].magic = "live"
      BY <1>4, <1>8, <1>10, <1>14
    <3>2. \A u \in Units \ {a} : g.mem[u] = h.mem[u]
      BY <1>15 DEF SameBut
    <3>3. QED
      BY <2>1, <3>1, <3>2
  <2>3. \A b \in F : g.mem[b] = h.mem[b]
    BY <1>3, <1>17, <1>19
  <2>4. QED
    BY <2>1, <2>2, <2>3 DEF Tagged
<1>22. ASSUME flags.reuse
       PROVE  Footed(g, F) /\ Binned(g, F) /\ \A b \in F : EndIn(g, b) \in L \cup {}
  <2>1. Footed(h, F) /\ Binned(h, F) /\ \A b \in F : EndIn(h, b) \in L \cup {}
    BY <1>2, <1>22 DEF Blocks
  <2>2. g.bins = h.bins /\ g.reusable = h.reusable
    BY <1>12
  <2>3. /\ Footed(g, F) /\ Binned(g, F)
        /\ \A b \in F : EndIn(g, b) = EndIn(h, b) /\ g.mem[b] = h.mem[b]
    BY ONLY <1>2, <1>3, <1>20, <2>1, <2>2, FreesKept
  <2>4. QED
    BY <2>1, <2>3
<1>23. Blocks(g, L, F, {})
  <2>1. L \cup F \cup {} = B /\ L \cap F = {} /\ {} \cap (L \cup F) = {}
    BY <1>1, <1>2 DEF Blocks
  <2>2. QED
    BY <1>16, <1>18, <1>21, <1>22, <2>1, Zenon DEF Blocks
<1>24. g.mem[a].size = size /\ g.mem[a].word = h.mem[a].word /\ g.mem[a].capacity = n
  BY <1>4, <1>8, <1>10, <1>14
<1>25. Booked(g, L)
  <2>1. \A b \in L \ {a} : k.mem[b] = h.mem[b]
    BY <1>2, <1>17
  <2>2. \A b \in L \ {a} : g.mem[b] = h.mem[b]
    BY <1>2, <1>17
  <2>3. a \in L /\ g.mem[a].word = h.mem[a].word /\ g.mem[a].size = k.mem[a].size /\ g.live = f.live
    BY <1>4, <1>12, <1>24
  <2>4. f = Accounts(k, h.mem[a].word, k.mem[a].size - h.mem[a].size)
    BY <1>4
  <2>5. g.mem[a].size < g.mem[a].capacity
    BY <1>3, <1>24
  <2>6. QED
    BY ONLY HeapAssumption, <1>2, <1>4, <2>1, <2>2, <2>3, <2>4, <2>5, BookedOther
<1>26. Whole(g, L, F)
  BY <1>23, <1>25 DEF Whole
<1>27. QED
  BY <1>2, <1>15, <1>20, <1>24, <1>26 DEF ResizedTo

-----------------------------------------------------------------------------
(* The owners *)

Callers == [at : {"none", "clear", "move", "copy", "drop"}, size : Nat, site : Sites \cup {0}, old : Int]

\* The blocks of an owner with that block and that call.
Moves(c) == c.at \in {"copy", "drop"}
Has(b, c) == {a \in Units : a = b \/ (Moves(c) /\ a = c.old)}
Mine(o) == Has(block[o], call[o])

\* One of a call's blocks is none of M.
Separate(b, c, M) ==
  /\ b \in Units => b \notin M
  /\ Moves(c) => c.old \in Units /\ c.old # b /\ c.old \notin M

\* What CallsMatch and ContentKept say of an owner.
Matches(h, b, c, k) ==
  /\ b = NoBlock => c.at = "none" /\ k = 0
  /\ b # NoBlock /\ c.at # "copy" => k <= h.mem[b].size
  /\ c.at = "clear" => k = 0
  /\ c.at = "move" => c.old = h.mem[b].size /\ c.site \in Sites /\ c.size > c.old
  /\ c.at = "copy" => k <= c.size /\ c.size <= h.mem[b].size /\ c.size = h.mem[c.old].size
Lies(b, c) == IF c.at = "copy" THEN c.old ELSE b
Holds(h, o, a, k) == \A i \in 1 .. k : h.mem[a + i] = Written(o)
Held(h, o, b, c, k) == Matches(h, b, c, k) /\ Holds(h, o, Lies(b, c), k)

LEMMA HeldIs ==
  CallsMatch /\ ContentKept <=> \A p \in Owners : Held(heap, p, block[p], call[p], kept[p])
<1>1. CallsMatch <=> \A o \in Owners : Matches(heap, block[o], call[o], kept[o])
  BY DEF CallsMatch, Matches
<1>2. ContentKept <=> \A o \in Owners : Holds(heap, o, Lies(block[o], call[o]), kept[o])
  BY DEF ContentKept, Holds, Lies
<1>3. QED
  BY <1>1, <1>2 DEF Held

LEMMA NoBlockIs == NoBlock \notin Units
BY DEF NoBlock, Units, Base

LEMMA OwnedIs ==
  CallsTyped /\ OwnersApart =>
    /\ \A a : a \in Owned <=> \E p \in Owners : a \in Mine(p)
    /\ Owned \subseteq Units
    /\ \A o, p \in Owners : o # p => Mine(o) \cap Mine(p) = {}
<1> SUFFICES ASSUME CallsTyped, OwnersApart
             PROVE  /\ \A a : a \in Owned <=> \E o \in Owners : a \in Mine(o)
                    /\ Owned \subseteq Units
                    /\ \A o, p \in Owners : o # p => Mine(o) \cap Mine(p) = {}
  OBVIOUS
<1>1. \A a : a \in Owned <=> \E o \in Owners : a \in Mine(o)
  <2>1. \A o \in Owners : block[o] \in Units \cup {NoBlock}
    BY DEF CallsTyped
  <2>2. \A o \in Owners : Moving(o) <=> Moves(call[o])
    BY DEF Moving, Moves
  <2>3. \A o \in Owners : Moving(o) => call[o].old \in Units
    BY DEF OwnersApart
  <2>4. \A a : a \in Owned <=> \E o \in Owners : \/ a = block[o] /\ a # NoBlock
                                                 \/ Moving(o) /\ a = call[o].old
    BY DEF Owned, Moving
  <2>5. QED
    BY <2>1, <2>2, <2>3, <2>4, NoBlockIs DEF Mine, Has
<1>2. Owned \subseteq Units
  BY <1>1 DEF Mine, Has
<1>3. ASSUME NEW o \in Owners, NEW p \in Owners, o # p, NEW a, a \in Mine(o), a \in Mine(p) PROVE FALSE
  <2>1. a \in Units /\ (a = block[o] \/ (Moving(o) /\ a = call[o].old)) /\ (a = block[p] \/ (Moving(p) /\ a = call[p].old))
    BY <1>3 DEF Mine, Has, Moves, Moving
  <2>2. QED
    BY <1>3, <2>1, NoBlockIs DEF OwnersApart
<1>4. QED
  BY <1>1, <1>2, <1>3

LEMMA OwnedOf == CallsTyped /\ OwnersApart => \A a : a \in Owned <=> \E p \in Owners : a \in Mine(p)
BY OwnedIs

\* A block that no one else has a part in keeps what it says and what it holds.
LEMMA HeldKept ==
  ASSUME HeapAssumption, NEW h, NEW L, NEW F, Whole(h, L, F), NEW M, M \subseteq L,
         NEW g, Untouched(g, h, M), NEW o, NEW b \in M \cup {NoBlock}, NEW c \in Callers, NEW k \in Nat,
         Moves(c) => c.old \in M, Held(h, o, b, c, k)
  PROVE  Held(g, o, b, c, k)
<1>1. PICK B : B = L \cup F
  OBVIOUS
<1>2. /\ HeapEnd \in Nat /\ h.cursor \in 0 .. HeapEnd /\ h \in Heaps
      /\ Tiled(h, B) /\ L \subseteq Units /\ M \subseteq B /\ Booked(h, L)
  BY <1>1, WholeIs
<1>3. \A a \in M : g.mem[a] = h.mem[a]
  BY <1>2, UnitsTyped DEF Untouched
<1>4. Matches(g, b, c, k)
  <2>1. b = NoBlock \/ b \in M
    OBVIOUS
  <2>2. CASE b = NoBlock
    BY <1>3, <2>2 DEF Held, Matches, Moves
  <2>3. CASE b \in M
    <3>1. g.mem[b] = h.mem[b] /\ (c.at = "copy" => g.mem[c.old] = h.mem[c.old])
      BY <1>3, <2>3 DEF Moves
    <3>2. QED
      BY <3>1 DEF Held, Matches
  <2>4. QED
    BY <2>1, <2>2, <2>3
<1>5. PICK a : a = Lies(b, c)
  OBVIOUS
<1>6. a \in M => k < h.mem[a].capacity /\ a \in Int /\ h.mem[a].capacity \in Nat
  <2>1. ASSUME a \in M PROVE k < h.mem[a].capacity /\ a \in Int /\ h.mem[a].capacity \in Nat
    <3>1. Ranged(h, a) /\ h.mem[a].size < h.mem[a].capacity /\ h.mem[a].size \in Int /\ a \in Units
      BY <1>2, <2>1, RangedIn, SizesIn DEF Booked
    <3>2. k <= h.mem[a].size
      <4>1. a # NoBlock
        BY <1>2, <2>1, NoBlockIs
      <4>2. c.size \in Nat
        BY DEF Callers
      <4>3. CASE c.at = "copy"
        <5>1. k <= c.size /\ c.size = h.mem[a].size
          BY <1>5, <4>3 DEF Held, Matches, Lies
        <5>2. QED
          BY <5>1
      <4>4. CASE c.at # "copy"
        BY <1>5, <4>1, <4>4 DEF Held, Matches, Lies
      <4>5. QED
        BY <4>3, <4>4
    <3>3. QED
      BY <3>1, <3>2 DEF Ranged
  <2>2. QED
    BY <2>1
<1>7. Holds(g, o, a, k)
  <2>1. Holds(h, o, a, k)
    BY <1>5 DEF Held
  <2>2. a \notin M => k = 0
    BY <1>5 DEF Held, Matches, Lies, Moves
  <2>3. ASSUME NEW i \in 1 .. k PROVE g.mem[a + i] = Written(o)
    <3>1. a \in M
      BY <2>2, <2>3
    <3>2. a + i \in Extent(h, a)
      BY <1>6, <3>1 DEF Extent
    <3>3. QED
      BY <2>1, <3>1, <3>2 DEF Holds, Untouched
  <2>4. QED
    BY <2>3 DEF Holds
<1>8. QED
  BY <1>4, <1>5, <1>7 DEF Held

-----------------------------------------------------------------------------
(* A step of an owner *)

\* An owner's own part of a step.
Turns(o, b, c, k) ==
  /\ block' = [block EXCEPT ![o] = b] /\ call' = [call EXCEPT ![o] = c]
  /\ kept' = [kept EXCEPT ![o] = k] /\ flags' = flags

Leaves(g, h, M, b, c) ==
  /\ \E F \in SUBSET Units : Whole(g, M \cup Has(b, c), F)
  /\ Untouched(g, h, M) /\ Separate(b, c, M)

LEMMA StepOf ==
  ASSUME HeapAssumption, HeapInv, NEW o \in Owners, NEW b \in Units \cup {NoBlock},
         NEW c \in Callers, NEW k \in Nat, Turns(o, b, c, k), NEW M, M = Owned \ Mine(o),
         Leaves(heap', heap, M, b, c), Held(heap', o, b, c, k)
  PROVE  HeapInv'
<1>1. PICK F \in SUBSET Units : Whole(heap, Owned, F)
  BY DEF HeapInv
<1>2. CallsTyped /\ OwnersApart /\ \A p \in Owners : Held(heap, p, block[p], call[p], kept[p])
  BY HeldIs DEF HeapInv
<1>3. /\ \A a : a \in Owned <=> \E p \in Owners : a \in Mine(p)
      /\ Owned \subseteq Units
      /\ \A p, q \in Owners : p # q => Mine(p) \cap Mine(q) = {}
  BY <1>2, OwnedIs
<1>4. /\ block' \in [Owners -> Units \cup {NoBlock}] /\ call' \in [Owners -> Callers]
      /\ kept' \in [Owners -> Nat] /\ flags' = flags
      /\ block'[o] = b /\ call'[o] = c /\ kept'[o] = k
      /\ \A p \in Owners \ {o} : block'[p] = block[p] /\ call'[p] = call[p] /\ kept'[p] = kept[p]
  BY <1>2 DEF CallsTyped, Turns, Callers
<1>5. CallsTyped'
  BY <1>2, <1>4 DEF CallsTyped, Callers
<1>6. \A p \in Owners \ {o} : Mine(p) \subseteq M
  BY <1>3
<1>7. \A p \in Owners : Moves(call[p]) => call[p].old \in Units /\ call[p].old # block[p]
  BY <1>2 DEF OwnersApart, Moving, Moves
<1>8. Separate(b, c, M)
  BY DEF Leaves
<1>9. OwnersApart'
  <2>1. ASSUME NEW p \in Owners, NEW q \in Owners, block'[p] = block'[q], p # q
        PROVE  block'[p] = NoBlock
    <3>1. SUFFICES ASSUME block'[p] \in Units PROVE FALSE
      BY <1>4
    <3>2. CASE p # o /\ q # o
      <4>1. block[p] = block[q] /\ block[p] \in Units
        BY <1>4, <2>1, <3>1, <3>2
      <4>2. QED
        BY <1>3, <2>1, <4>1 DEF Mine, Has
    <3>3. CASE p = o
      <4>1. q # o /\ block[q] = b /\ b \in Units
        BY <1>4, <2>1, <3>1, <3>3
      <4>2. b \in M
        BY <1>6, <4>1 DEF Mine, Has
      <4>3. QED
        BY <1>8, <4>1, <4>2 DEF Separate
    <3>4. CASE q = o
      <4>1. p # o /\ block[p] = b /\ b \in Units
        BY <1>4, <2>1, <3>1, <3>4
      <4>2. b \in M
        BY <1>6, <4>1 DEF Mine, Has
      <4>3. QED
        BY <1>8, <4>1, <4>2 DEF Separate
    <3>5. QED
      BY <3>2, <3>3, <3>4
  <2>2. ASSUME NEW p \in Owners, Moves(call'[p])
        PROVE  call'[p].old \in Units /\ call'[p].old # block'[p]
    <3>1. CASE p = o
      BY <1>4, <1>8, <2>2, <3>1 DEF Separate
    <3>2. CASE p # o
      BY <1>4, <1>7, <2>2, <3>2
    <3>3. QED
      BY <3>1, <3>2
  <2>3. ASSUME NEW p \in Owners, Moves(call'[p]), NEW q \in Owners, p # q
        PROVE  call'[p].old # block'[q] /\ (Moves(call'[q]) => call'[q].old # call'[p].old)
    <3>1. CASE p # o /\ q # o
      <4>1. /\ call'[p] = call[p] /\ block'[q] = block[q] /\ call'[q] = call[q]
        BY <1>4, <3>1
      <4>2. call[p].old \in Mine(p)
        BY <1>7, <2>3, <4>1 DEF Mine, Has
      <4>3. call[p].old \notin Mine(q)
        BY <1>3, <2>3, <4>2
      <4>4. QED
        BY <1>7, <2>3, <4>1, <4>3 DEF Mine, Has
    <3>2. CASE p = o
      <4>1. c.old \in Units /\ c.old \notin M /\ call'[p] = c
        BY <1>4, <1>8, <2>3, <3>2 DEF Separate
      <4>2. c.old \notin Mine(q) /\ call'[q] = call[q] /\ block'[q] = block[q]
        BY <1>4, <1>6, <2>3, <3>2, <4>1
      <4>3. QED
        BY <1>7, <4>1, <4>2 DEF Mine, Has
    <3>3. CASE q = o
      <4>1. call'[p] = call[p] /\ call[p].old \in Units /\ block'[q] = b /\ call'[q] = c
        BY <1>4, <1>7, <2>3, <3>3
      <4>2. call[p].old \in M
        BY <1>6, <2>3, <3>3, <4>1 DEF Mine, Has
      <4>3. QED
        BY <1>8, <4>1, <4>2 DEF Separate
    <3>4. QED
      BY <3>1, <3>2, <3>3
  <2>4. \A p \in Owners : Moving(p)' <=> Moves(call'[p])
    BY DEF Moving, Moves
  <2>5. QED
    BY <2>1, <2>2, <2>3, <2>4 DEF OwnersApart
<1>10. Owned' = M \cup Has(b, c)
  <2>1. \A a : a \in Owned' <=> \E p \in Owners : a \in Has(block'[p], call'[p])
    <3>1. CallsTyped' /\ OwnersApart' => (\A a : a \in Owned <=> \E p \in Owners : a \in Mine(p))'
      BY ONLY OwnedOf, PTL
    <3>2. QED
      BY <1>5, <1>9, <3>1 DEF Mine
  <2>2. \A a : a \in M <=> \E p \in Owners \ {o} : a \in Mine(p)
    BY <1>3
  <2>3. \A p \in Owners \ {o} : Has(block'[p], call'[p]) = Mine(p)
    BY <1>4 DEF Mine
  <2>4. Has(block'[o], call'[o]) = Has(b, c)
    BY <1>4
  <2>5. QED
    BY <2>1, <2>2, <2>3, <2>4
<1>11. ASSUME NEW p \in Owners PROVE Held(heap', p, block'[p], call'[p], kept'[p])
  <2>1. CASE p = o
    BY <1>4, <2>1
  <2>2. CASE p # o
    <3>1. Mine(p) \subseteq M /\ M \subseteq Owned
      BY <1>6, <2>2
    <3>2. block[p] \in M \cup {NoBlock} /\ (Moves(call[p]) => call[p].old \in M)
      <4>1. block[p] \in Units \cup {NoBlock}
        BY <1>2 DEF CallsTyped
      <4>2. QED
        BY <1>7, <3>1, <4>1 DEF Mine, Has
    <3>3. call[p] \in Callers /\ kept[p] \in Nat
      BY <1>2 DEF CallsTyped, Callers
    <3>4. Untouched(heap', heap, M) /\ Held(heap, p, block[p], call[p], kept[p])
      BY <1>2 DEF Leaves
    <3>5. Held(heap', p, block[p], call[p], kept[p])
      BY ONLY HeapAssumption, <1>1, <3>1, <3>2, <3>3, <3>4, HeldKept
    <3>6. QED
      BY <1>4, <2>2, <3>5
  <2>3. QED
    BY <2>1, <2>2
<1>12. CallsMatch' /\ ContentKept'
  <2>1. (\A p \in Owners : Held(heap, p, block[p], call[p], kept[p]))' => CallsMatch' /\ ContentKept'
    BY ONLY HeldIs, PTL
  <2>2. QED
    BY <1>11, <2>1
<1>13. \E G \in SUBSET Units : Whole(heap, Owned, G)'
  <2>1. PICK G \in SUBSET Units : Whole(heap', Owned', G)
    BY <1>10 DEF Leaves
  <2>2. Whole(heap, Owned, G)'
    BY <1>4, <2>1 DEF Whole, Blocks
  <2>3. QED
    BY <2>2
<1>14. QED
  BY <1>5, <1>9, <1>12, <1>13 DEF HeapInv

LEMMA HeapRests ==
  ASSUME HeapInv, heap' = heap, flags' = flags, block' = block, call' = call, kept' = kept
  PROVE  HeapInv'
<1>1. Owned' = Owned
  BY DEF Owned
<1>2. PICK F \in SUBSET Units : Whole(heap, Owned, F)
  BY DEF HeapInv
<1>3. Whole(heap, Owned, F)'
  <2>1. Whole(heap', Owned', F)
    BY <1>1, <1>2
  <2>2. QED
    BY <2>1 DEF Whole, Blocks
<1>4. CallsTyped' /\ OwnersApart'
  BY DEF HeapInv, CallsTyped, OwnersApart, Moving
<1>5. CallsMatch' /\ ContentKept'
  BY DEF HeapInv, CallsMatch, ContentKept
<1>6. QED
  BY <1>3, <1>4, <1>5 DEF HeapInv

OwnerFacts(o) ==
  /\ block[o] \in Units \cup {NoBlock} /\ call[o] \in Callers /\ kept[o] \in Nat
  /\ Matches(heap, block[o], call[o], kept[o]) /\ Holds(heap, o, Lies(block[o], call[o]), kept[o])
  /\ Mine(o) = Has(block[o], call[o]) /\ Mine(o) \subseteq Owned
  /\ Moves(call[o]) => call[o].old \in Units /\ call[o].old # block[o]

LEMMA OwnerIs ==
  ASSUME HeapInv, NEW o \in Owners
  PROVE  OwnerFacts(o) /\ \E F \in SUBSET Units : Whole(heap, Owned, F)
<1>1. CallsTyped /\ OwnersApart /\ \A p \in Owners : Held(heap, p, block[p], call[p], kept[p])
  BY HeldIs DEF HeapInv
<1>2. Mine(o) \subseteq Owned
  BY <1>1, OwnedIs
<1>3. Moves(call[o]) => call[o].old \in Units /\ call[o].old # block[o]
  BY <1>1 DEF OwnersApart, Moving, Moves
<1>4. QED
  BY <1>1, <1>2, <1>3 DEF OwnerFacts, CallsTyped, Callers, Held, Mine, HeapInv

\* What a block of the guest's is.
LiveBlock(h, a, L) ==
  /\ a \in L /\ a \in Units /\ a \in Nat /\ h.mem[a].capacity \in 2 .. HeapEnd
  /\ h.mem[a].size \in Nat /\ h.mem[a].size < h.mem[a].capacity
  /\ h.mem[a].word \in Sites /\ h.mem[a].magic = "live"
  /\ EndIn(h, a) <= h.cursor /\ a < h.cursor
  /\ \A u \in Extent(h, a) \ {a} : u \notin L /\ u \in Units
  /\ Extent(h, a) \ {a} = a + 1 .. a + h.mem[a].capacity

LEMMA LiveBlockIs ==
  ASSUME HeapAssumption, NEW h, NEW L, NEW F, Whole(h, L, F), NEW a \in L
  PROVE  LiveBlock(h, a, L) /\ Valid(h, a)
<1>1. PICK B : B = L \cup F
  OBVIOUS
<1>2. /\ HeapEnd \in Nat /\ h.cursor \in 0 .. HeapEnd /\ h \in Heaps
      /\ Tiled(h, B) /\ L \subseteq Units /\ L \subseteq B /\ Booked(h, L) /\ Blocks(h, L, F, {})
  BY <1>1, WholeIs
<1>3. Ranged(h, a)
  BY <1>2, RangedIn
<1>4. h.mem[a].size \in 0 .. HeapEnd /\ h.mem[a].size < h.mem[a].capacity /\ h.mem[a].word \in Sites
  BY <1>2, SizesIn DEF Booked
<1>5. h.mem[a].magic = "live"
  BY <1>2 DEF Blocks, Tagged
<1>6. \A u \in Extent(h, a) \ {a} : u \notin L /\ u \in Units
  BY <1>2, Interior
<1>7. Extent(h, a) \ {a} = a + 1 .. a + h.mem[a].capacity
  BY <1>3 DEF Extent, Ranged
<1>8. LiveBlock(h, a, L)
  BY <1>2, <1>3, <1>4, <1>5, <1>6, <1>7 DEF LiveBlock, Ranged
<1>9. Valid(h, a)
  <2>1. a \in Base .. h.cursor - 1
    BY <1>2, <1>3 DEF Ranged, Base
  <2>2. IsCapacity(h.mem[a].capacity) /\ a + 1 + h.mem[a].capacity <= h.cursor
    BY <1>2, <1>3 DEF Ranged, IsCapacity, SmallestCapacity
  <2>3. h.mem[a].size <= h.mem[a].capacity
    BY <1>2, <1>3, <1>4 DEF Ranged
  <2>4. QED
    BY <1>5, <2>1, <2>2, <2>3 DEF Valid
<1>10. QED
  BY <1>8, <1>9

\* What lies in a block of the guest's is written over.
Overwrites(g, h, a, m) ==
  /\ g = [h EXCEPT !.mem = m] /\ m \in [Units -> Cells]
  /\ \A u \in Units : m[u] = h.mem[u] \/ (u \in Extent(h, a) \ {a} /\ m[u].magic # "live")

LEMMA Overwritten ==
  ASSUME HeapAssumption, NEW h, NEW L, NEW F, Whole(h, L, F), NEW a \in L,
         NEW g, NEW m, Overwrites(g, h, a, m), NEW M, M = L \ {a}
  PROVE  Whole(g, L, F) /\ Untouched(g, h, M) /\ g.mem = m /\ g.mem[a] = h.mem[a]
<1>1. /\ HeapEnd \in Nat /\ h.cursor \in 0 .. HeapEnd /\ h \in Heaps
      /\ L \subseteq Units /\ Booked(h, L) /\ Blocks(h, L, F, {})
  BY WholeIs
<1>2. LiveBlock(h, a, L)
  BY LiveBlockIs
<1>3. /\ Shaped(g) /\ g.cursor = h.cursor /\ g.bins = h.bins /\ g.reusable = h.reusable
      /\ g.live = h.live /\ g.mem = m
  BY <1>1 DEF Overwrites, Heaps, Shaped
<1>4. Fills(g, h, a)
  <2>1. SameBut(g, h, Extent(h, a) \ {a})
    BY <1>3 DEF Overwrites, SameBut
  <2>2. \A u \in Units : h.mem[u].magic = "live" <=> u \in L
    BY <1>1 DEF Blocks, Tagged
  <2>3. \A u \in Extent(h, a) \ {a} : g.mem[u].magic # "live"
    BY <1>2, <1>3, <2>2 DEF Overwrites, LiveBlock
  <2>4. g.mem \in [Units -> Cells]
    BY <1>3 DEF Overwrites
  <2>5. QED
    BY <1>3, <2>1, <2>3, <2>4 DEF Fills
<1>5. PICK X : X = {}
  OBVIOUS
<1>6. /\ Blocks(g, L, F, X) /\ Untouched(g, h, M) /\ g.mem[a] = h.mem[a]
      /\ \A b \in L \cup F \cup X : g.mem[b] = h.mem[b]
  <2>1. Blocks(h, L, F, X) /\ a \in L \cup X /\ M \subseteq L \cup F \cup X /\ a \notin M
    BY <1>1, <1>5
  <2>2. QED
    BY ONLY HeapAssumption, <1>4, <2>1, Filled
<1>7. Booked(g, L)
  <2>1. \A b \in L : g.mem[b] = h.mem[b]
    BY <1>6
  <2>2. Sizes(h, L)
    BY <1>1, SizesIn
  <2>3. QED
    BY ONLY <1>1, <1>3, <2>1, <2>2, BookedSame
<1>8. QED
  BY <1>3, <1>5, <1>6, <1>7 DEF Whole

-----------------------------------------------------------------------------
(* The actions *)

\* An owner that keeps the blocks it has.
LEMMA SameBlocks ==
  ASSUME HeapAssumption, HeapInv, NEW o \in Owners, block[o] \in Units,
         NEW c \in Callers, NEW k \in Nat, Turns(o, block[o], c, k),
         Moves(c) <=> Moves(call[o]), Moves(c) => c.old = call[o].old,
         \E F \in SUBSET Units : Whole(heap', Owned, F),
         Untouched(heap', heap, Owned \ {block[o]}), Held(heap', o, block[o], c, k)
  PROVE  HeapInv'
<1>1. OwnerFacts(o)
  BY OwnerIs
<1>2. PICK M, b : M = Owned \ Mine(o) /\ b = block[o]
  OBVIOUS
<1>3. Has(b, c) = Mine(o) /\ Mine(o) \subseteq Owned /\ b \in Mine(o) /\ b \in Units
  BY <1>1, <1>2 DEF OwnerFacts, Has
<1>4. M \cup Has(b, c) = Owned
  BY <1>2, <1>3
<1>5. Untouched(heap', heap, M)
  BY <1>2, <1>3 DEF Untouched
<1>6. Separate(b, c, M)
  <2>1. Moves(c) => c.old \in Units /\ c.old # b /\ c.old \in Mine(o)
    BY <1>1, <1>2 DEF OwnerFacts, Has
  <2>2. QED
    BY <1>2, <1>3, <2>1 DEF Separate
<1>7. Leaves(heap', heap, M, b, c)
  BY <1>4, <1>5, <1>6 DEF Leaves
<1>8. Turns(o, b, c, k) /\ Held(heap', o, b, c, k) /\ b \in Units \cup {NoBlock}
  BY <1>2, <1>3
<1>9. QED
  BY ONLY HeapAssumption, HeapInv, o \in Owners, c \in Callers, k \in Nat, <1>2, <1>7, <1>8, StepOf

LEMMA NoCallIs == NoCall \in Callers /\ NoCall.at = "none"
BY DEF NoCall, Callers, NoBlock

LEMMA CallIs ==
  ASSUME NEW at \in {"none", "clear", "move", "copy", "drop"}, NEW size \in Nat, NEW site \in Sites \cup {0},
         NEW old \in Int, NEW c, c = [at |-> at, size |-> size, site |-> site, old |-> old]
  PROVE  c \in Callers /\ c.at = at /\ c.size = size /\ c.site = site /\ c.old = old
BY DEF Callers

\* The cases of an owner that is not moving its block.
LEMMA IdleIs ==
  ASSUME HeapInv, NEW o \in Owners, Idle(o), block[o] # NoBlock
  PROVE  /\ OwnerFacts(o) /\ block[o] \in Units /\ block[o] \in Owned /\ Mine(o) = {block[o]}
         /\ call[o] \in Callers /\ call[o].at = "none" /\ ~ Moves(call[o])
         /\ kept[o] \in Nat /\ kept[o] <= heap.mem[block[o]].size
         /\ Holds(heap, o, block[o], kept[o])
<1>1. OwnerFacts(o)
  BY OwnerIs
<1>2. call[o].at = "none" /\ ~ Moves(call[o])
  BY DEF Idle, Moves
<1>3. block[o] \in Units /\ block[o] \in Owned /\ Mine(o) = {block[o]}
  BY <1>1, <1>2 DEF OwnerFacts, Has
<1>4. kept[o] <= heap.mem[block[o]].size /\ Holds(heap, o, block[o], kept[o])
  BY <1>1, <1>2 DEF OwnerFacts, Matches, Lies
<1>5. QED
  BY <1>1, <1>2, <1>3, <1>4 DEF OwnerFacts

LEMMA TurnsIs ==
  ASSUME HeapInv, NEW o \in Owners
  PROVE  /\ block' = block => block' = [block EXCEPT ![o] = block[o]]
         /\ call' = call => call' = [call EXCEPT ![o] = call[o]]
         /\ kept' = kept => kept' = [kept EXCEPT ![o] = kept[o]]
<1>1. block \in [Owners -> Units \cup {NoBlock}] /\ kept \in [Owners -> Nat] /\ call \in [Owners -> Callers]
  BY DEF HeapInv, CallsTyped, Callers
<1>2. QED
  BY <1>1

LEMMA MallocKeeps ==
  ASSUME HeapAssumption, HeapInv, NEW o \in Owners, Malloc(o)
  PROVE  HeapInv'
<1>1. PICK request \in Requests[o], clear \in BOOLEAN :
        /\ CanAllocate(heap, request.size)
        /\ heap' = Allocated(heap, request.size, request.site)
        /\ block' = [block EXCEPT ![o] = AddressFor(heap, request.size)]
        /\ IF clear THEN Proceeds(o, "clear", 0, 0, NoBlock) ELSE UNCHANGED call
  BY DEF Malloc
<1>2. Idle(o) /\ block[o] = NoBlock /\ flags' = flags /\ kept' = kept
  BY DEF Malloc
<1>3. PICK size \in Nat \ {0}, site \in Sites : size = request.size /\ site = request.site
  BY DEF HeapAssumption
<1>4. PICK F \in SUBSET Units : Whole(heap, Owned, F)
  BY OwnerIs
<1>5. PICK a : a = AddressFor(heap, size)
  OBVIOUS
<1>6. GivenTo(heap', a, heap, Owned, size)
  BY <1>1, <1>3, <1>4, <1>5, AllocatedIs
<1>7. OwnerFacts(o)
  BY OwnerIs
<1>8. call[o].at = "none" /\ kept[o] = 0 /\ Mine(o) = {}
  BY <1>2, <1>7, NoBlockIs DEF Idle, OwnerFacts, Matches, Has, Moves
<1>9. PICK c \in Callers : /\ call' = [call EXCEPT ![o] = c] /\ c.at \in {"none", "clear"}
  <2>1. CASE clear
    <3>1. PICK c : c = [at |-> "clear", size |-> 0, site |-> 0, old |-> NoBlock]
      OBVIOUS
    <3>2. c \in Callers /\ c.at = "clear"
      BY <3>1, CallIs DEF NoBlock
    <3>3. call' = [call EXCEPT ![o] = c]
      BY <1>1, <2>1, <3>1 DEF Proceeds
    <3>4. QED
      BY <3>2, <3>3
  <2>2. CASE ~ clear
    <3>1. call' = [call EXCEPT ![o] = call[o]]
      BY <1>1, <2>2, TurnsIs
    <3>2. QED
      BY <1>7, <1>8, <3>1 DEF OwnerFacts
  <2>3. QED
    BY <2>1, <2>2
<1>10. PICK M : M = Owned
  OBVIOUS
<1>11. a \in Units /\ a \notin M /\ Untouched(heap', heap, M) /\ heap'.mem[a].size = size
  BY <1>6, <1>10 DEF GivenTo
<1>12. Has(a, c) = {a} /\ ~ Moves(c)
  BY <1>9, <1>11 DEF Has, Moves
<1>13. Leaves(heap', heap, M, a, c)
  BY <1>6, <1>10, <1>11, <1>12 DEF GivenTo, Leaves, Separate
<1>14. Turns(o, a, c, 0)
  <2>1. kept' = [kept EXCEPT ![o] = 0]
    BY <1>2, <1>8, TurnsIs
  <2>2. QED
    BY <1>1, <1>2, <1>3, <1>5, <1>9, <2>1 DEF Turns
<1>15. Held(heap', o, a, c, 0)
  BY <1>3, <1>9, <1>11, NoBlockIs DEF Held, Matches, Holds
<1>16. M = Owned \ Mine(o)
  BY <1>8, <1>10
<1>17. QED
  BY ONLY HeapAssumption, HeapInv, o \in Owners, c \in Callers, <1>11, <1>13, <1>14, <1>15, <1>16, StepOf

LEMMA ClearKeeps ==
  ASSUME HeapAssumption, HeapInv, NEW o \in Owners, Clear(o)
  PROVE  HeapInv'
<1>1. OwnerFacts(o)
  BY OwnerIs
<1>2. PICK F \in SUBSET Units : Whole(heap, Owned, F)
  BY OwnerIs
<1>3. PICK a : a = block[o]
  OBVIOUS
<1>4. call[o].at = "clear" /\ kept[o] = 0 /\ a \in Units /\ a \in Owned /\ ~ Moves(call[o])
  <2>1. call[o].at = "clear"
    BY DEF Clear
  <2>2. QED
    BY <1>1, <1>3, <2>1 DEF OwnerFacts, Matches, Has, Moves
<1>5. PICK m : m = [u \in Units |-> IF u \in a + 1 .. a + heap.mem[a].capacity THEN Zero ELSE heap.mem[u]]
  OBVIOUS
<1>6. heap' = [heap EXCEPT !.mem = m] /\ flags' = flags /\ block' = block /\ kept' = kept
      /\ call' = [call EXCEPT ![o] = NoCall]
  BY <1>3, <1>5 DEF Clear
<1>7. LiveBlock(heap, a, Owned)
  BY <1>2, <1>4, LiveBlockIs
<1>8. PICK z : z = Zero
  OBVIOUS
<1>9. z \in Cells /\ z.magic = "none"
  <2>1. HeapEnd \in Nat
    BY DEF HeapAssumption
  <2>2. QED
    BY <1>8, <2>1 DEF Zero, Cells
<1>10. heap.mem \in [Units -> Cells]
  <2>1. heap \in Heaps
    BY <1>2, WholeIs
  <2>2. QED
    BY <2>1 DEF Heaps
<1>11. Overwrites(heap', heap, a, m)
  <2>1. m \in [Units -> Cells]
    BY <1>5, <1>8, <1>9, <1>10
  <2>2. \A u \in Units : m[u] = heap.mem[u] \/ (u \in Extent(heap, a) \ {a} /\ m[u].magic # "live")
    BY <1>5, <1>7, <1>8, <1>9 DEF LiveBlock
  <2>3. QED
    BY <1>6, <2>1, <2>2 DEF Overwrites
<1>12. Whole(heap', Owned, F) /\ Untouched(heap', heap, Owned \ {a}) /\ heap'.mem[a] = heap.mem[a]
  BY <1>2, <1>4, <1>11, Overwritten
<1>13. PICK c : c = NoCall
  OBVIOUS
<1>14. c \in Callers /\ c.at = "none" /\ ~ Moves(c)
  BY <1>13, NoCallIs DEF Moves
<1>15. Turns(o, block[o], c, 0)
  BY <1>4, <1>6, <1>13, TurnsIs DEF Turns
<1>16. Held(heap', o, block[o], c, 0)
  BY <1>3, <1>4, <1>7, <1>12, <1>14, NoBlockIs DEF Held, Matches, Holds, LiveBlock
<1>17. QED
  BY <1>2, <1>3, <1>4, <1>12, <1>14, <1>15, <1>16, SameBlocks

LEMMA WrittenIs ==
  ASSUME HeapAssumption, NEW o \in Owners, NEW w, w = Written(o)
  PROVE  w \in Cells /\ w.magic = "none"
<1>1. HeapEnd \in Nat
  BY DEF HeapAssumption
<1>2. w = [size |-> 0, magic |-> "none", capacity |-> 0, word |-> o]
  BY DEF Written, Zero
<1>3. QED
  BY <1>1, <1>2 DEF Cells

LEMMA WriteKeeps ==
  ASSUME HeapAssumption, HeapInv, NEW o \in Owners, Write(o)
  PROVE  HeapInv'
<1>1. Idle(o) /\ block[o] # NoBlock
  BY DEF Write
<1>2. PICK F \in SUBSET Units : Whole(heap, Owned, F)
  BY OwnerIs
<1>3. PICK a : a = block[o]
  OBVIOUS
<1>4. a \in Units /\ a \in Owned /\ call[o] \in Callers /\ call[o].at = "none" /\ ~ Moves(call[o])
  BY <1>1, <1>3, IdleIs
<1>5. LiveBlock(heap, a, Owned)
  BY <1>2, <1>4, LiveBlockIs
<1>6. PICK size \in Nat : size = heap.mem[a].size
  BY <1>5 DEF LiveBlock
<1>7. PICK w : w = Written(o)
  OBVIOUS
<1>8. w \in Cells /\ w.magic = "none"
  BY <1>7, WrittenIs
<1>9. PICK m : m = [u \in Units |-> IF u \in a + 1 .. a + size THEN w ELSE heap.mem[u]]
  OBVIOUS
<1>10. heap' = [heap EXCEPT !.mem = m] /\ flags' = flags /\ block' = block /\ call' = call
       /\ kept' = [kept EXCEPT ![o] = size]
  BY <1>3, <1>6, <1>7, <1>9 DEF Write
<1>11. heap.mem \in [Units -> Cells]
  <2>1. heap \in Heaps
    BY <1>2, WholeIs
  <2>2. QED
    BY <2>1 DEF Heaps
<1>12. \A u : u \in a + 1 .. a + size => u \in Extent(heap, a) \ {a} /\ u \in Units
  <2>1. \A u : u \in a + 1 .. a + size => u \in a + 1 .. a + heap.mem[a].capacity
    BY <1>5, <1>6 DEF LiveBlock
  <2>2. QED
    BY <1>5, <2>1 DEF LiveBlock
<1>13. Overwrites(heap', heap, a, m)
  <2>1. m \in [Units -> Cells]
    BY <1>8, <1>9, <1>11
  <2>2. \A u \in Units : m[u] = heap.mem[u] \/ (u \in Extent(heap, a) \ {a} /\ m[u].magic # "live")
    BY <1>8, <1>9, <1>12
  <2>3. QED
    BY <1>10, <2>1, <2>2 DEF Overwrites
<1>14. Whole(heap', Owned, F) /\ Untouched(heap', heap, Owned \ {a}) /\ heap'.mem[a] = heap.mem[a] /\ heap'.mem = m
  BY <1>2, <1>4, <1>13, Overwritten
<1>15. PICK c \in Callers : c = call[o]
  BY <1>4
<1>16. Turns(o, block[o], c, size)
  BY <1>10, <1>15, TurnsIs DEF Turns
<1>17. Held(heap', o, a, c, size)
  <2>1. Matches(heap', a, c, size)
    BY <1>4, <1>5, <1>6, <1>14, <1>15, NoBlockIs DEF Matches
  <2>2. ASSUME NEW i \in 1 .. size PROVE heap'.mem[a + i] = Written(o)
    <3>1. a + i \in a + 1 .. a + size
      BY <1>5 DEF LiveBlock
    <3>2. QED
      BY <1>7, <1>9, <1>12, <1>14, <3>1
  <2>3. Holds(heap', o, a, size)
    BY <2>2 DEF Holds
  <2>4. QED
    BY <1>4, <1>15, <2>1, <2>3 DEF Held, Lies
<1>18. QED
  BY <1>2, <1>3, <1>4, <1>14, <1>15, <1>16, <1>17, SameBlocks

\* What the owner wrote to a block is taken out of it, and the block given back.
LEMMA Forgotten ==
  ASSUME HeapAssumption, NEW h, NEW L, NEW F, Whole(h, L, F), NEW a \in L, NEW o,
         NEW g, g = IF Valid(h, a) THEN Deallocated(Forget(h, o, a), a) ELSE h
  PROVE  TakenBack(g, a, h, L)
<1>1. /\ HeapEnd \in Nat /\ h \in Heaps /\ h.cursor \in 0 .. HeapEnd
      /\ Tiled(h, L \cup F) /\ L \subseteq Units
  BY WholeIs
<1>2. LiveBlock(h, a, L) /\ Valid(h, a)
  BY LiveBlockIs
<1>3. PICK k : k = Forget(h, o, a)
  OBVIOUS
<1>4. PICK m : m = [u \in Units |-> IF u \in a + 1 .. a + h.mem[a].capacity /\ h.mem[u] = Written(o)
                                    THEN Zero ELSE h.mem[u]]
  OBVIOUS
<1>5. PICK z : z = Zero
  OBVIOUS
<1>6. z \in Cells /\ z.magic = "none"
  BY <1>1, <1>5 DEF Zero, Cells
<1>7. h.mem \in [Units -> Cells]
  BY <1>1 DEF Heaps
<1>8. Overwrites(k, h, a, m)
  <2>1. m \in [Units -> Cells]
    BY <1>4, <1>5, <1>6, <1>7
  <2>2. \A u \in Units : m[u] = h.mem[u] \/ (u \in Extent(h, a) \ {a} /\ m[u].magic # "live")
    BY <1>2, <1>4, <1>5, <1>6 DEF LiveBlock
  <2>3. k = [h EXCEPT !.mem = m]
    BY <1>3, <1>4 DEF Forget
  <2>4. QED
    BY <2>1, <2>2, <2>3 DEF Overwrites
<1>9. PICK M : M = L \ {a}
  OBVIOUS
<1>10. Whole(k, L, F) /\ Untouched(k, h, M)
  BY <1>8, <1>9, Overwritten
<1>11. TakenBack(g, a, k, L)
  <2>1. g = Deallocated(k, a)
    BY <1>2, <1>3
  <2>2. QED
    BY <1>10, <2>1, DeallocatedIs
<1>12. Untouched(g, k, M)
  BY <1>9, <1>11 DEF TakenBack
<1>13. Untouched(g, h, M)
  <2>1. PICK B : B = L \cup F
    OBVIOUS
  <2>2. Tiled(h, B) /\ M \subseteq B
    BY <1>1, <1>9, <2>1
  <2>3. QED
    BY ONLY <1>1, <1>10, <1>12, <2>2, LeavesOn
<1>14. QED
  BY <1>9, <1>11, <1>13 DEF TakenBack

LEMMA FreeKeeps ==
  ASSUME HeapAssumption, HeapInv, NEW o \in Owners, Free(o)
  PROVE  HeapInv'
<1>1. Idle(o) /\ block[o] # NoBlock
  BY DEF Free
<1>2. PICK F \in SUBSET Units : Whole(heap, Owned, F)
  BY OwnerIs
<1>3. PICK a : a = block[o]
  OBVIOUS
<1>4. /\ a \in Units /\ a \in Owned /\ Mine(o) = {a} /\ call[o] \in Callers /\ call[o].at = "none"
      /\ ~ Moves(call[o])
  BY <1>1, <1>3, IdleIs
<1>5. /\ heap' = IF Valid(heap, a) THEN Deallocated(Forget(heap, o, a), a) ELSE heap
      /\ block' = [block EXCEPT ![o] = NoBlock] /\ kept' = [kept EXCEPT ![o] = 0]
      /\ flags' = flags /\ call' = call
  BY <1>3 DEF Free
<1>6. PICK L : L = Owned
  OBVIOUS
<1>7. TakenBack(heap', a, heap, L)
  BY <1>2, <1>4, <1>5, <1>6, Forgotten
<1>8. PICK M : M = Owned \ Mine(o)
  OBVIOUS
<1>9. PICK c, b : c \in Callers /\ c = call[o] /\ b = NoBlock
  BY <1>4
<1>10. b \in Units \cup {NoBlock} /\ Has(b, c) = {} /\ M = L \ {a}
  BY <1>4, <1>6, <1>8, <1>9, NoBlockIs DEF Has
<1>11. Leaves(heap', heap, M, b, c)
  BY <1>4, <1>7, <1>9, <1>10, NoBlockIs DEF Leaves, TakenBack, Separate
<1>12. Turns(o, b, c, 0)
  BY <1>5, <1>9, TurnsIs DEF Turns
<1>13. Held(heap', o, b, c, 0)
  BY <1>4, <1>9 DEF Held, Matches, Holds
<1>14. QED
  BY ONLY HeapAssumption, HeapInv, o \in Owners, <1>9, <1>8, <1>10, <1>11, <1>12, <1>13, StepOf

\* A block of another size still holds what it held.
LEMMA ResizedHeld ==
  ASSUME HeapAssumption, NEW h, NEW L, NEW a, LiveBlock(h, a, L), NEW o, NEW k \in Nat,
         k <= h.mem[a].size, Holds(h, o, a, k), NEW g, SameBut(g, h, {a}), NEW c, c.at = "none",
         NEW n \in Nat, n <= k, n <= g.mem[a].size
  PROVE  Held(g, o, a, c, n)
<1>1. a \in Nat /\ a \in Units /\ k < h.mem[a].capacity /\ h.mem[a].capacity \in Nat
  BY DEF LiveBlock
<1>2. ASSUME NEW i \in 1 .. n PROVE g.mem[a + i] = Written(o)
  <2>1. i \in 1 .. k /\ a + i \in a + 1 .. a + h.mem[a].capacity /\ a + i # a
    BY <1>1
  <2>2. a + i \in Units
    BY <2>1 DEF LiveBlock
  <2>3. g.mem[a + i] = h.mem[a + i]
    BY <2>1, <2>2 DEF SameBut
  <2>4. QED
    BY <2>1, <2>3 DEF Holds
<1>3. QED
  BY <1>1, <1>2, NoBlockIs DEF Held, Matches, Holds, Lies

LEMMA ReallocInPlaceKeeps ==
  ASSUME HeapAssumption, HeapInv, NEW o \in Owners, ReallocInPlace(o)
  PROVE  HeapInv'
<1>1. Idle(o) /\ block[o] # NoBlock
  BY DEF ReallocInPlace
<1>2. PICK F \in SUBSET Units : Whole(heap, Owned, F)
  BY OwnerIs
<1>3. PICK a : a = block[o]
  OBVIOUS
<1>4. /\ a \in Units /\ a \in Owned /\ call[o] \in Callers /\ call[o].at = "none" /\ ~ Moves(call[o])
      /\ kept[o] \in Nat /\ kept[o] <= heap.mem[a].size /\ Holds(heap, o, a, kept[o])
  BY <1>1, <1>3, IdleIs
<1>5. PICK request \in Requests[o] :
        /\ CapacityFor(request.size) <= heap.mem[a].capacity
        /\ heap' = Accounts([heap EXCEPT !.mem[a].size = request.size], heap.mem[a].word,
                            request.size - heap.mem[a].size)
        /\ kept' = [kept EXCEPT ![o] = Lesser(kept[o], request.size)]
  BY <1>3 DEF ReallocInPlace
<1>6. PICK size \in Nat \ {0} : size = request.size
  BY DEF HeapAssumption
<1>7. flags' = flags /\ block' = block /\ call' = call
  BY DEF ReallocInPlace
<1>8. LiveBlock(heap, a, Owned)
  BY <1>2, <1>4, LiveBlockIs
<1>9. size < heap.mem[a].capacity
  BY <1>5, <1>6, <1>8 DEF CapacityFor, LiveBlock
<1>10. PICK k : k = [heap EXCEPT !.mem[a].size = size]
  OBVIOUS
<1>11. ResizedTo(heap', a, heap, Owned, size)
  <2>1. Resizes(k, heap, a, size) /\ heap' = Accounts(k, heap.mem[a].word, size - heap.mem[a].size)
    BY <1>5, <1>6, <1>10 DEF Resizes
  <2>2. size \in Nat
    OBVIOUS
  <2>3. QED
    BY ONLY HeapAssumption, <1>2, <1>4, <1>9, <2>1, <2>2, ShrunkIs
<1>12. /\ \E G \in SUBSET Units : Whole(heap', Owned, G)
       /\ SameBut(heap', heap, {a}) /\ Untouched(heap', heap, Owned \ {a}) /\ heap'.mem[a].size = size
  BY <1>11 DEF ResizedTo
<1>13. PICK n \in Nat : n = Lesser(kept[o], size) /\ n <= kept[o] /\ n <= size
  BY <1>4 DEF Lesser
<1>14. PICK c \in Callers : c = call[o] /\ c.at = "none"
  BY <1>4
<1>15. Turns(o, a, c, n)
  BY <1>3, <1>5, <1>6, <1>7, <1>13, <1>14, TurnsIs DEF Turns
<1>16. Held(heap', o, a, c, n)
  BY <1>4, <1>8, <1>12, <1>13, <1>14, ResizedHeld
<1>17. QED
  BY <1>3, <1>4, <1>12, <1>14, <1>15, <1>16, SameBlocks

LEMMA ReallocExtendsKeeps ==
  ASSUME HeapAssumption, HeapInv, NEW o \in Owners, ReallocExtends(o)
  PROVE  HeapInv'
<1>1. Idle(o) /\ block[o] # NoBlock
  BY DEF ReallocExtends
<1>2. PICK F \in SUBSET Units : Whole(heap, Owned, F)
  BY OwnerIs
<1>3. PICK a : a = block[o]
  OBVIOUS
<1>4. /\ a \in Units /\ a \in Owned /\ call[o] \in Callers /\ call[o].at = "none" /\ ~ Moves(call[o])
      /\ kept[o] \in Nat /\ kept[o] <= heap.mem[a].size /\ Holds(heap, o, a, kept[o])
  BY <1>1, <1>3, IdleIs
<1>5. PICK request \in Requests[o] :
        /\ CapacityFor(request.size) > heap.mem[a].capacity
        /\ CanExtend(o, request.size)
        /\ heap' = [Accounts([heap EXCEPT !.mem[a].size = request.size], heap.mem[a].word,
                             request.size - heap.mem[a].size)
                      EXCEPT !.mem[a].capacity = CapacityFor(request.size),
                             !.cursor = a + 1 + CapacityFor(request.size)]
  BY <1>3 DEF ReallocExtends
<1>6. PICK size \in Nat \ {0} : size = request.size
  BY DEF HeapAssumption
<1>7. flags' = flags /\ block' = block /\ call' = call /\ kept' = kept
  BY DEF ReallocExtends
<1>8. LiveBlock(heap, a, Owned)
  BY <1>2, <1>4, LiveBlockIs
<1>9. PICK n \in Nat : n = size + 1
  OBVIOUS
<1>10. n > heap.mem[a].capacity /\ EndIn(heap, a) = heap.cursor /\ a + 1 + n <= HeapEnd
  BY <1>3, <1>5, <1>6, <1>9 DEF CapacityFor, CanExtend, EndOf, EndIn
<1>11. PICK k, f : /\ k = [heap EXCEPT !.mem[a].size = size]
                   /\ f = Accounts(k, heap.mem[a].word, size - heap.mem[a].size)
  OBVIOUS
<1>12. ResizedTo(heap', a, heap, Owned, size)
  <2>1. Resizes(k, heap, a, size) /\ Stretches(heap', f, a, n)
    BY <1>5, <1>6, <1>9, <1>11 DEF Resizes, Stretches, CapacityFor
  <2>2. size \in Nat
    OBVIOUS
  <2>3. QED
    BY ONLY HeapAssumption, <1>2, <1>4, <1>9, <1>10, <1>11, <2>1, <2>2, ExtendedIs
<1>13. /\ \E G \in SUBSET Units : Whole(heap', Owned, G)
       /\ SameBut(heap', heap, {a}) /\ Untouched(heap', heap, Owned \ {a}) /\ heap'.mem[a].size = size
  BY <1>12 DEF ResizedTo
<1>14. kept[o] <= size
  BY <1>4, <1>8, <1>9, <1>10 DEF LiveBlock
<1>15. PICK c \in Callers, j \in Nat : c = call[o] /\ c.at = "none" /\ j = kept[o]
  BY <1>4
<1>16. Turns(o, a, c, j)
  BY <1>3, <1>7, <1>15, TurnsIs DEF Turns
<1>17. Held(heap', o, a, c, j)
  <2>1. j <= heap.mem[a].size /\ Holds(heap, o, a, j) /\ j <= j /\ j <= heap'.mem[a].size
    BY <1>4, <1>13, <1>14, <1>15
  <2>2. QED
    BY ONLY HeapAssumption, <1>8, <1>13, <1>15, <2>1, ResizedHeld
<1>18. QED
  BY <1>3, <1>4, <1>13, <1>15, <1>16, <1>17, SameBlocks

LEMMA ReallocMovesKeeps ==
  ASSUME HeapAssumption, HeapInv, NEW o \in Owners, ReallocMoves(o)
  PROVE  HeapInv'
<1>1. Idle(o) /\ block[o] # NoBlock
  BY DEF ReallocMoves
<1>2. PICK F \in SUBSET Units : Whole(heap, Owned, F)
  BY OwnerIs
<1>3. PICK a : a = block[o]
  OBVIOUS
<1>4. /\ a \in Units /\ a \in Owned /\ call[o] \in Callers /\ call[o].at = "none" /\ ~ Moves(call[o])
      /\ kept[o] \in Nat /\ kept[o] <= heap.mem[a].size /\ Holds(heap, o, a, kept[o])
  BY <1>1, <1>3, IdleIs
<1>5. PICK request \in Requests[o] :
        /\ CapacityFor(request.size) > heap.mem[a].capacity
        /\ Proceeds(o, "move", request.size, request.site, heap.mem[a].size)
  BY <1>3 DEF ReallocMoves
<1>6. PICK size \in Nat \ {0}, site \in Sites : size = request.size /\ site = request.site
  BY DEF HeapAssumption
<1>7. flags' = flags /\ block' = block /\ heap' = heap /\ kept' = kept
  BY DEF ReallocMoves
<1>8. LiveBlock(heap, a, Owned)
  BY <1>2, <1>4, LiveBlockIs
<1>9. PICK old \in Nat : old = heap.mem[a].size
  BY <1>8 DEF LiveBlock
<1>10. size > old
  BY <1>5, <1>6, <1>8, <1>9 DEF CapacityFor, LiveBlock
<1>11. PICK c : c = [at |-> "move", size |-> size, site |-> site, old |-> old]
  OBVIOUS
<1>12. c \in Callers /\ c.at = "move" /\ c.size = size /\ c.site = site /\ c.old = old /\ ~ Moves(c)
  BY <1>11, CallIs DEF Moves
<1>13. PICK j \in Nat : j = kept[o]
  BY <1>4
<1>14. Turns(o, a, c, j)
  <2>1. call' = [call EXCEPT ![o] = c]
    BY <1>5, <1>6, <1>9, <1>11 DEF Proceeds
  <2>2. QED
    BY <1>3, <1>7, <1>13, <2>1, TurnsIs DEF Turns
<1>15. Held(heap', o, a, c, j)
  BY <1>4, <1>7, <1>9, <1>10, <1>12, <1>13, NoBlockIs DEF Held, Matches, Lies
<1>16. Untouched(heap', heap, Owned \ {a}) /\ Whole(heap', Owned, F)
  BY <1>2, <1>7 DEF Untouched
<1>17. QED
  BY <1>2, <1>3, <1>4, <1>12, <1>14, <1>15, <1>16, SameBlocks

LEMMA MoveAllocatesKeeps ==
  ASSUME HeapAssumption, HeapInv, NEW o \in Owners, MoveAllocates(o)
  PROVE  HeapInv'
<1>1. call[o].at = "move" /\ flags' = flags /\ kept' = kept
  BY DEF MoveAllocates
<1>2. PICK F \in SUBSET Units : Whole(heap, Owned, F)
  BY OwnerIs
<1>3. PICK b : b = block[o]
  OBVIOUS
<1>4. PICK size, site, old : size = call[o].size /\ site = call[o].site /\ old = call[o].old
  OBVIOUS
<1>5. OwnerFacts(o)
  BY OwnerIs
<1>6. /\ b \in Units /\ b \in Owned /\ ~ Moves(call[o]) /\ Mine(o) = {b}
      /\ kept[o] \in Nat /\ kept[o] <= heap.mem[b].size /\ Holds(heap, o, b, kept[o])
      /\ old = heap.mem[b].size /\ site \in Sites /\ size > old /\ size \in Nat
  BY <1>1, <1>3, <1>4, <1>5 DEF OwnerFacts, Matches, Has, Moves, Lies, Callers
<1>7. LiveBlock(heap, b, Owned)
  BY <1>2, <1>6, LiveBlockIs
<1>8. old \in Nat /\ size \in Nat \ {0}
  BY <1>6, <1>7 DEF LiveBlock
<1>9. PICK j \in Nat : j = kept[o]
  BY <1>6
<1>10. CASE CanAllocate(heap, size)
  <2>1. PICK a : a = AddressFor(heap, size)
    OBVIOUS
  <2>2. PICK c : c = [at |-> "copy", size |-> old, site |-> 0, old |-> b]
    OBVIOUS
  <2>3. c \in Callers /\ c.at = "copy" /\ c.size = old /\ c.old = b /\ Moves(c)
    <3>1. b \in Int
      BY <1>7 DEF LiveBlock
    <3>2. QED
      BY <1>8, <2>2, <3>1, CallIs DEF Moves
  <2>4. heap' = Allocated(heap, size, site) /\ Turns(o, a, c, j)
    <3>1. Lesser(old, size) = old
      BY <1>6, <1>8 DEF Lesser
    <3>2. /\ heap' = Allocated(heap, size, site) /\ block' = [block EXCEPT ![o] = a]
          /\ Proceeds(o, "copy", Lesser(old, size), 0, b)
      BY <1>3, <1>4, <1>10, <2>1 DEF MoveAllocates
    <3>3. call' = [call EXCEPT ![o] = c]
      BY <2>2, <3>1, <3>2 DEF Proceeds
    <3>4. QED
      BY <1>1, <1>9, <3>2, <3>3, TurnsIs DEF Turns
  <2>5. PICK L : L = Owned
    OBVIOUS
  <2>6. GivenTo(heap', a, heap, L, size)
    BY <1>2, <1>6, <1>8, <1>10, <2>1, <2>4, <2>5, AllocatedIs
  <2>7. PICK M : M = Owned \ Mine(o)
    OBVIOUS
  <2>8. a \in Units /\ a \notin L /\ Untouched(heap', heap, L) /\ heap'.mem[a].size = size
    BY <2>6 DEF GivenTo
  <2>9. heap'.mem[b] = heap.mem[b] /\ b # a
    <3>1. b \in Extent(heap, b)
      BY <1>7 DEF Extent, LiveBlock
    <3>2. QED
      BY <1>6, <2>5, <2>8, <3>1 DEF Untouched
  <2>10. Has(a, c) = {a, b} /\ M \cup Has(a, c) = L \cup {a}
    <3>1. Has(a, c) = {a, b}
      BY <1>6, <2>3, <2>8 DEF Has
    <3>2. QED
      BY <1>6, <2>5, <2>7, <3>1
  <2>11. Separate(a, c, M)
    BY <1>6, <2>3, <2>5, <2>7, <2>8, <2>9 DEF Separate
  <2>12. Untouched(heap', heap, M)
    BY <2>5, <2>7, <2>8 DEF Untouched
  <2>13. Leaves(heap', heap, M, a, c)
    BY <2>6, <2>10, <2>11, <2>12 DEF Leaves, GivenTo
  <2>14. Held(heap', o, a, c, j)
    <3>1. Matches(heap', a, c, j)
      <4>1. old <= heap'.mem[a].size /\ j <= old
        BY <1>6, <1>8, <1>9, <2>8
      <4>2. QED
        BY <1>6, <2>3, <2>8, <2>9, <4>1, NoBlockIs DEF Matches
    <3>2. Holds(heap', o, b, j)
      <4>1. ASSUME NEW i \in 1 .. j PROVE heap'.mem[b + i] = Written(o)
        <5>1. b + i \in Extent(heap, b) /\ i \in 1 .. kept[o]
          BY <1>6, <1>7, <1>9 DEF Extent, LiveBlock
        <5>2. QED
          BY <1>6, <2>5, <2>8, <5>1 DEF Untouched, Holds
      <4>2. QED
        BY <4>1 DEF Holds
    <3>3. QED
      BY <2>3, <3>1, <3>2 DEF Held, Lies
  <2>15. QED
    BY ONLY HeapAssumption, HeapInv, o \in Owners, <2>3, <2>4, <2>7, <2>8, <2>13, <2>14, StepOf
<1>11. CASE ~ CanAllocate(heap, size)
  <2>1. call' = [call EXCEPT ![o] = NoCall] /\ heap' = heap /\ block' = block
    BY <1>4, <1>11 DEF MoveAllocates
  <2>2. PICK c : c = NoCall
    OBVIOUS
  <2>3. c \in Callers /\ c.at = "none" /\ ~ Moves(c)
    BY <2>2, NoCallIs DEF Moves
  <2>4. Turns(o, b, c, j)
    BY <1>1, <1>3, <1>9, <2>1, <2>2, TurnsIs DEF Turns
  <2>5. Held(heap', o, b, c, j)
    BY <1>6, <1>9, <2>1, <2>3, NoBlockIs DEF Held, Matches, Lies
  <2>6. Untouched(heap', heap, Owned \ {b}) /\ Whole(heap', Owned, F)
    BY <1>2, <2>1 DEF Untouched
  <2>7. QED
    BY <1>2, <1>3, <1>6, <2>3, <2>4, <2>5, <2>6, SameBlocks
<1>12. QED
  BY <1>10, <1>11

LEMMA MoveCopiesKeeps ==
  ASSUME HeapAssumption, HeapInv, NEW o \in Owners, MoveCopies(o)
  PROVE  HeapInv'
<1>1. call[o].at = "copy" /\ flags' = flags /\ kept' = kept /\ block' = block
  BY DEF MoveCopies
<1>2. PICK F \in SUBSET Units : Whole(heap, Owned, F)
  BY OwnerIs
<1>3. PICK b, old : b = block[o] /\ old = call[o].old
  OBVIOUS
<1>4. PICK size : size = call[o].size
  OBVIOUS
<1>5. OwnerFacts(o)
  BY OwnerIs
<1>6. PICK j \in Nat : j = kept[o]
  BY <1>5 DEF OwnerFacts
<1>7. Moves(call[o]) /\ old \in Units /\ old # b /\ b \in Units
  BY <1>1, <1>3, <1>5, NoBlockIs DEF OwnerFacts, Matches, Moves
<1>8. b \in Owned /\ old \in Owned
  BY <1>3, <1>5, <1>7 DEF OwnerFacts, Has
<1>9. /\ size \in Nat /\ j <= size /\ size <= heap.mem[b].size /\ size = heap.mem[old].size
      /\ Holds(heap, o, old, j)
  BY <1>1, <1>3, <1>4, <1>5, <1>6 DEF OwnerFacts, Matches, Lies, Callers
<1>10. LiveBlock(heap, b, Owned) /\ LiveBlock(heap, old, Owned)
  BY <1>2, <1>8, LiveBlockIs
<1>11. PICK m : m = [u \in Units |-> IF u \in b + 1 .. b + size THEN heap.mem[old + u - b] ELSE heap.mem[u]]
  OBVIOUS
<1>12. heap' = [heap EXCEPT !.mem = m] /\ Proceeds(o, "drop", 0, 0, old)
  BY <1>3, <1>4, <1>11 DEF MoveCopies
<1>13. heap.mem \in [Units -> Cells] /\ \A u \in Units : heap.mem[u].magic = "live" <=> u \in Owned
  <2>1. heap \in Heaps /\ Blocks(heap, Owned, F, {})
    BY <1>2, WholeIs
  <2>2. QED
    BY <2>1 DEF Heaps, Blocks, Tagged
<1>14. ASSUME NEW i \in 1 .. size
       PROVE  /\ old + i \in Units /\ old + i \notin Owned
              /\ b + i \in Extent(heap, b) \ {b} /\ b + i \in Units
  <2>1. old + i \in old + 1 .. old + heap.mem[old].capacity /\ b + i \in b + 1 .. b + heap.mem[b].capacity
    BY <1>9, <1>10 DEF LiveBlock
  <2>2. QED
    BY <1>10, <2>1 DEF LiveBlock
<1>15. ASSUME NEW u \in b + 1 .. b + size
       PROVE  /\ old + u - b \in Units /\ old + u - b \notin Owned /\ u \in Extent(heap, b) \ {b}
  <2>1. PICK i \in 1 .. size : u = b + i
    <3>1. u - b \in 1 .. size /\ u = b + (u - b)
      BY <1>9, <1>10 DEF LiveBlock
    <3>2. QED
      BY <3>1
  <2>2. old + u - b = old + i
    BY <1>9, <1>10, <2>1 DEF LiveBlock
  <2>3. QED
    BY <1>14, <2>1, <2>2
<1>16. Overwrites(heap', heap, b, m)
  <2>1. m \in [Units -> Cells]
    BY <1>11, <1>13, <1>15
  <2>2. \A u \in Units : m[u] = heap.mem[u] \/ (u \in Extent(heap, b) \ {b} /\ m[u].magic # "live")
    BY <1>11, <1>13, <1>15
  <2>3. QED
    BY <1>12, <2>1, <2>2 DEF Overwrites
<1>17. Whole(heap', Owned, F) /\ Untouched(heap', heap, Owned \ {b}) /\ heap'.mem[b] = heap.mem[b] /\ heap'.mem = m
  BY <1>2, <1>8, <1>16, Overwritten
<1>18. PICK c : c = [at |-> "drop", size |-> 0, site |-> 0, old |-> old]
  OBVIOUS
<1>19. c \in Callers /\ c.at = "drop" /\ c.old = old /\ Moves(c)
  <2>1. old \in Int
    BY <1>10 DEF LiveBlock
  <2>2. QED
    BY <1>18, <2>1, CallIs DEF Moves
<1>20. Turns(o, b, c, j)
  <2>1. call' = [call EXCEPT ![o] = c]
    BY <1>12, <1>18 DEF Proceeds
  <2>2. QED
    BY <1>1, <1>3, <1>6, <2>1, TurnsIs DEF Turns
<1>21. Held(heap', o, b, c, j)
  <2>1. j <= heap'.mem[b].size
    BY <1>9, <1>10, <1>17 DEF LiveBlock
  <2>2. Matches(heap', b, c, j)
    BY <1>7, <1>19, <2>1, NoBlockIs DEF Matches
  <2>3. ASSUME NEW i \in 1 .. j PROVE heap'.mem[b + i] = Written(o)
    <3>1. i \in 1 .. size /\ b + i \in b + 1 .. b + size /\ old + (b + i) - b = old + i
      BY <1>9, <1>10 DEF LiveBlock
    <3>2. m[b + i] = heap.mem[old + i]
      BY <1>11, <1>14, <3>1
    <3>3. QED
      BY <1>9, <1>17, <3>2 DEF Holds
  <2>4. QED
    BY <1>19, <2>2, <2>3 DEF Held, Holds, Lies
<1>22. QED
  BY <1>2, <1>3, <1>7, <1>17, <1>19, <1>20, <1>21, SameBlocks

LEMMA MoveDropsKeeps ==
  ASSUME HeapAssumption, HeapInv, NEW o \in Owners, MoveDrops(o)
  PROVE  HeapInv'
<1>1. call[o].at = "drop" /\ flags' = flags /\ kept' = kept /\ block' = block
  BY DEF MoveDrops
<1>2. PICK F \in SUBSET Units : Whole(heap, Owned, F)
  BY OwnerIs
<1>3. PICK b, old : b = block[o] /\ old = call[o].old
  OBVIOUS
<1>4. OwnerFacts(o)
  BY OwnerIs
<1>5. PICK j \in Nat : j = kept[o]
  BY <1>4 DEF OwnerFacts
<1>6. Moves(call[o]) /\ old \in Units /\ old # b /\ b \in Units
  BY <1>1, <1>3, <1>4, NoBlockIs DEF OwnerFacts, Matches, Moves
<1>7. Mine(o) = {b, old} /\ b \in Owned /\ old \in Owned
  BY <1>3, <1>4, <1>6 DEF OwnerFacts, Has
<1>8. j <= heap.mem[b].size /\ Holds(heap, o, b, j)
  BY <1>1, <1>3, <1>4, <1>5, <1>6, NoBlockIs DEF OwnerFacts, Matches, Lies
<1>9. /\ heap' = IF Valid(heap, old) THEN Deallocated(Forget(heap, o, old), old) ELSE heap
      /\ call' = [call EXCEPT ![o] = NoCall]
  BY <1>3 DEF MoveDrops
<1>10. PICK L : L = Owned
  OBVIOUS
<1>11. TakenBack(heap', old, heap, L)
  BY <1>2, <1>7, <1>9, <1>10, Forgotten
<1>12. PICK M : M = Owned \ Mine(o)
  OBVIOUS
<1>13. PICK c : c = NoCall
  OBVIOUS
<1>14. c \in Callers /\ c.at = "none" /\ ~ Moves(c)
  BY <1>13, NoCallIs DEF Moves
<1>15. Has(b, c) = {b} /\ M \cup Has(b, c) = L \ {old}
  <2>1. Has(b, c) = {b}
    BY <1>6, <1>14 DEF Has
  <2>2. QED
    BY <1>6, <1>7, <1>10, <1>12, <2>1
<1>16. Leaves(heap', heap, M, b, c)
  <2>1. Separate(b, c, M)
    BY <1>7, <1>12, <1>14 DEF Separate
  <2>2. Untouched(heap', heap, L \ {old})
    BY <1>11 DEF TakenBack
  <2>3. Untouched(heap', heap, M)
    BY <1>7, <1>10, <1>12, <2>2 DEF Untouched
  <2>4. QED
    BY <1>11, <1>15, <2>1, <2>3 DEF Leaves, TakenBack
<1>17. Turns(o, b, c, j)
  BY <1>1, <1>3, <1>5, <1>9, <1>13, TurnsIs DEF Turns
<1>18. Held(heap', o, b, c, j)
  <2>1. PICK N : N = L \ {old}
    OBVIOUS
  <2>2. /\ Whole(heap, L, F) /\ N \subseteq L /\ Untouched(heap', heap, N) /\ b \in N \cup {NoBlock}
        /\ (Moves(c) => c.old \in N)
    BY <1>2, <1>6, <1>7, <1>10, <1>11, <1>14, <2>1 DEF TakenBack
  <2>3. Held(heap, o, b, c, j)
    BY <1>6, <1>8, <1>14, NoBlockIs DEF Held, Matches, Lies
  <2>4. QED
    BY ONLY HeapAssumption, <1>5, <1>14, <2>2, <2>3, HeldKept
<1>19. b \in Units \cup {NoBlock}
  BY <1>6
<1>20. QED
  BY ONLY HeapAssumption, HeapInv, o \in Owners, <1>5, <1>12, <1>14, <1>16, <1>17, <1>18, <1>19, StepOf

LEMMA FreeStrayKeeps ==
  ASSUME HeapAssumption, HeapInv, FreeStray
  PROVE  HeapInv'
<1>1. PICK a \in Units \ ({block[o] : o \in Owners} \cup {call[o].old : o \in Owners}) :
        heap' = IF Valid(heap, a) THEN Deallocated(heap, a) ELSE heap
  BY DEF FreeStray
<1>2. a \notin Owned
  BY <1>1 DEF Owned
<1>3. PICK F \in SUBSET Units : Whole(heap, Owned, F)
  BY DEF HeapInv
<1>4. ~ Valid(heap, a)
  <2>1. heap.mem[a].magic # "live"
    BY <1>1, <1>2, <1>3, WholeIs DEF Blocks, Tagged
  <2>2. QED
    BY <2>1 DEF Valid
<1>5. heap' = heap /\ flags' = flags /\ block' = block /\ call' = call /\ kept' = kept
  BY <1>1, <1>4 DEF FreeStray
<1>6. QED
  BY <1>5, HeapRests

-----------------------------------------------------------------------------
(* The invariant *)

LEMMA HeapStepKeeps ==
  ASSUME HeapAssumption, HeapInv, [HeapNext]_heapVars
  PROVE  HeapInv'
<1>1. CASE FreeStray
  BY <1>1, FreeStrayKeeps
<1>2. CASE \E o \in Owners : HeapStep(o)
  <2>1. PICK o \in Owners : HeapStep(o)
    BY <1>2
  <2>2. QED
    BY <2>1, MallocKeeps, ClearKeeps, WriteKeeps, FreeKeeps, ReallocInPlaceKeeps, ReallocExtendsKeeps,
       ReallocMovesKeeps, MoveAllocatesKeeps, MoveCopiesKeeps, MoveDropsKeeps DEF HeapStep
<1>3. CASE UNCHANGED heapVars
  <2>1. heap' = heap /\ flags' = flags /\ block' = block /\ call' = call /\ kept' = kept
    BY <1>3 DEF heapVars
  <2>2. QED
    BY <2>1, HeapRests
<1>4. QED
  BY <1>1, <1>2, <1>3 DEF HeapNext

LEMMA HeapStarts ==
  ASSUME HeapAssumption, HeapInit
  PROVE  HeapInv
<1>1. HeapEnd \in Nat /\ Reuses \subseteq BOOLEAN /\ Poisons \subseteq BOOLEAN /\ SiteCapacity \in Nat
  BY DEF HeapAssumption
<1>2. PICK z : z = Zero
  OBVIOUS
<1>3. z \in Cells /\ z.magic = "none"
  BY <1>1, <1>2 DEF Zero, Cells
<1>4. PICK m : m = [u \in Units |-> z]
  OBVIOUS
<1>5. PICK bins : bins = [b \in Bins |-> <<>>]
  OBVIOUS
<1>6. /\ heap.mem = m /\ heap.cursor = 0 /\ heap.bins = bins /\ heap.live = <<>> /\ heap.reusable = 0
      /\ Shaped(heap)
  BY <1>2, <1>4, <1>5 DEF HeapInit, Shaped, Base
<1>7. m \in [Units -> Cells] /\ bins \in [Bins -> Seq(Units)]
  BY <1>3, <1>4, <1>5
<1>8. heap \in Heaps
  <2>1. heap.cursor \in 0 .. HeapEnd /\ heap.reusable \in Int /\ heap.live \in Seq([site : Sites, bytes : Int])
    BY <1>1, <1>6
  <2>2. Shaped(heap) /\ heap.mem \in [Units -> Cells] /\ heap.bins \in [Bins -> Seq(Units)]
    BY <1>6, <1>7
  <2>3. QED
    BY ONLY <2>1, <2>2, HeapMade
<1>9. PICK L, F : L = {} /\ F = {}
  OBVIOUS
<1>10. flags \in [reuse : BOOLEAN, poison : BOOLEAN]
  BY <1>1 DEF HeapInit
<1>11. /\ block = [o \in Owners |-> NoBlock] /\ call = [o \in Owners |-> NoCall] /\ kept = [o \in Owners |-> 0]
  BY DEF HeapInit
<1>12. NoCall \in Callers /\ NoCall.at = "none"
  BY NoCallIs
<1>13. CallsTyped
  BY <1>10, <1>11, <1>12 DEF CallsTyped, Callers
<1>14. OwnersApart
  BY <1>11, <1>12 DEF OwnersApart, Moving
<1>15. CallsMatch /\ ContentKept
  BY <1>11, <1>12 DEF CallsMatch, ContentKept
<1>16. Owned = L
  BY <1>9, <1>11, <1>12 DEF Owned
<1>17. Tiled(heap, L \cup F \cup {})
  BY <1>6, <1>9 DEF Tiled, Base
<1>18. Tagged(heap, L, F)
  BY <1>3, <1>4, <1>6, <1>9 DEF Tagged
<1>19. Footed(heap, F) /\ Binned(heap, F)
  <2>1. Footed(heap, F)
    BY <1>9 DEF Footed
  <2>2. heap.reusable = SumOver(F, [a \in Units |-> heap.mem[a].capacity])
    BY <1>1, <1>6, <1>9, SumEmpty
  <2>3. \A b \in Bins : heap.bins[b] = <<>>
    BY <1>5, <1>6
  <2>4. Elements(<<>>) = {} /\ Distinct(<<>>)
    BY DEF Elements, Distinct
  <2>5. \A b \in Bins : /\ Elements(heap.bins[b]) = {a \in F : Bin(heap.mem[a].capacity) = b}
                        /\ Distinct(heap.bins[b])
    BY <1>9, <2>3, <2>4
  <2>6. QED
    BY <2>1, <2>2, <2>5 DEF Binned
<1>20. Blocks(heap, L, F, {})
  BY <1>8, <1>9, <1>17, <1>18, <1>19 DEF Blocks
<1>21. Booked(heap, L)
  BY <1>1, <1>6, <1>9 DEF Booked
<1>22. F \in SUBSET Units /\ Whole(heap, Owned, F)
  BY <1>9, <1>16, <1>20, <1>21 DEF Whole
<1>23. QED
  BY <1>13, <1>14, <1>15, <1>22 DEF HeapInv

\* The inductive invariant of the heap: up to the cursor lie the guest's blocks, the
\* free ones and those in a call's hands, each with the header, the footer and the
\* place in a bin that its kind has, and every call in progress matches its block.
THEOREM HeapInvariant == HeapAssumption => (HeapSpec => []HeapInv)
<1> SUFFICES ASSUME HeapAssumption PROVE HeapSpec => []HeapInv
  OBVIOUS
<1>1. HeapInit => HeapInv
  BY HeapStarts
<1>2. HeapInv /\ [HeapNext]_heapVars => HeapInv'
  BY HeapStepKeeps
<1>3. QED
  BY <1>1, <1>2, PTL DEF HeapSpec

-----------------------------------------------------------------------------
(* What follows from it *)

WalksTo(w, n) == w = [i \in 0 .. n |-> IF i = 0 THEN Base ELSE NextHeader(w[i - 1])]

LEMMA WalksExist ==
  ASSUME NEW n \in Nat
  PROVE  \E w : WalksTo(w, n)
<1> DEFINE T == {k \in 0 .. n : \E w : WalksTo(w, k)}
<1>1. 0 \in T
  <2> DEFINE w == [i \in 0 .. 0 |-> Base]
  <2>1. WalksTo(w, 0)
    BY DEF WalksTo
  <2>2. QED
    BY <2>1
<1>2. ASSUME NEW k \in 0 .. n - 1, k \in T PROVE k + 1 \in T
  <2>1. PICK w : WalksTo(w, k)
    BY <1>2
  <2> DEFINE h == [i \in 0 .. k + 1 |-> IF i <= k THEN w[i] ELSE NextHeader(w[k])]
  <2>2. ASSUME NEW i \in 0 .. k + 1
        PROVE  h[i] = IF i = 0 THEN Base ELSE NextHeader(h[i - 1])
    <3>1. CASE i = 0
      <4>1. w[0] = Base
        BY <2>1 DEF WalksTo
      <4>2. h[i] = w[0]
        BY <3>1
      <4>3. QED
        BY <3>1, <4>1, <4>2
    <3>2. CASE i \in 1 .. k
      <4>1. w[i] = NextHeader(w[i - 1])
        BY <2>1, <3>2 DEF WalksTo
      <4>2. h[i] = w[i] /\ h[i - 1] = w[i - 1]
        BY <3>2
      <4>3. QED
        BY <3>2, <4>1, <4>2
    <3>3. CASE i = k + 1
      <4>1. h[i] = NextHeader(w[k]) /\ h[i - 1] = w[k] /\ i # 0
        BY <3>3
      <4>2. QED
        BY <4>1
    <3>4. QED
      BY <3>1, <3>2, <3>3
  <2>3. h = [i \in 0 .. k + 1 |-> IF i = 0 THEN Base ELSE NextHeader(h[i - 1])]
    <3> HIDE DEF h
    <3>1. h = [i \in 0 .. k + 1 |-> h[i]]
      BY DEF h
    <3>2. QED
      BY <2>2, <3>1, Zenon
  <2>4. WalksTo(h, k + 1)
    BY <2>3 DEF WalksTo
  <2>5. QED
    BY <2>4
<1>3. 0 .. n \subseteq T
  <2> HIDE DEF T
  <2>1. QED
    BY <1>1, <1>2, UpTo
<1>4. QED
  BY <1>3

\* The walk begins at the base and goes from a header to the next.
LEMMA WalkIs ==
  ASSUME HeapEnd \in Nat
  PROVE  /\ Walk[0] = Base
         /\ \A i \in 1 .. HeapEnd : Walk[i] = NextHeader(Walk[i - 1])
<1>1. PICK w : w = Walk
  OBVIOUS
<1>2. WalksTo(w, HeapEnd)
  <2>1. \E r : WalksTo(r, HeapEnd)
    BY WalksExist
  <2>2. w = CHOOSE r : WalksTo(r, HeapEnd)
    BY <1>1 DEF Walk, WalksTo
  <2>3. QED
    BY <2>1, <2>2
<1>3. /\ w[0] = Base
      /\ \A i \in 1 .. HeapEnd : w[i] = NextHeader(w[i - 1])
  BY <1>2 DEF WalksTo
<1>4. QED
  BY <1>1, <1>3

\* It meets the blocks, all of them, and ends at the cursor.
LEMMA HeadersAre ==
  ASSUME HeapEnd \in Nat, heap.cursor \in 0 .. HeapEnd, NEW B, Tiled(heap, B)
  PROVE  Headers = B /\ Walk[HeapEnd] = heap.cursor
<1>1. PICK w : w = Walk
  OBVIOUS
<1>2. w[0] = 0 /\ \A i \in 1 .. HeapEnd : w[i] = NextHeader(w[i - 1])
  BY <1>1, WalkIs DEF Base
<1>3. ASSUME NEW b \in B
      PROVE  /\ Ranged(heap, b) /\ NextHeader(b) = EndIn(heap, b) /\ EndIn(heap, b) \in B \cup {heap.cursor}
             /\ EndIn(heap, b) > b
  <2>1. Ranged(heap, b)
    BY RangedIn
  <2>2. NextHeader(b) = EndIn(heap, b)
    BY <2>1 DEF NextHeader, IsCapacity, SmallestCapacity, Ranged
  <2>3. QED
    BY <2>1, <2>2 DEF Tiled, Ranged
<1>4. NextHeader(heap.cursor) = heap.cursor
  BY DEF NextHeader
<1> DEFINE S == {n \in 0 .. HeapEnd : w[n] = heap.cursor \/ (w[n] \in B /\ w[n] >= n)}
<1>5. 0 .. HeapEnd \subseteq S
  <2>1. 0 \in S
    BY <1>2 DEF Tiled, Base
  <2>2. ASSUME NEW n \in 0 .. HeapEnd - 1, n \in S PROVE n + 1 \in S
    <3>1. w[n + 1] = NextHeader(w[n]) /\ n + 1 \in 0 .. HeapEnd
      <4>1. n + 1 \in 1 .. HeapEnd /\ (n + 1) - 1 = n
        OBVIOUS
      <4>2. QED
        BY <1>2, <4>1
    <3>2. CASE w[n] = heap.cursor
      BY <1>4, <3>1, <3>2
    <3>3. CASE w[n] \in B /\ w[n] >= n
      <4>1. PICK b \in B : b = w[n]
        BY <3>3
      <4>2. w[n + 1] = EndIn(heap, b) /\ b \in Nat /\ EndIn(heap, b) \in Nat /\ EndIn(heap, b) > b
        BY <1>3, <3>1, <4>1 DEF Ranged
      <4>3. EndIn(heap, b) >= n + 1
        BY <3>3, <4>1, <4>2
      <4>4. QED
        BY <1>3, <3>1, <4>2, <4>3
    <3>4. QED
      BY <2>2, <3>2, <3>3
  <2> HIDE DEF S
  <2>3. QED
    BY <2>1, <2>2, UpTo
<1>6. w[HeapEnd] = heap.cursor
  <2>1. w[HeapEnd] = heap.cursor \/ (w[HeapEnd] \in B /\ w[HeapEnd] >= HeapEnd)
    BY <1>5
  <2>2. \A b \in B : b < heap.cursor /\ b \in Nat
    BY <1>3 DEF Ranged
  <2>3. QED
    BY <2>1, <2>2
<1>7. Headers \subseteq B
  BY <1>1, <1>5 DEF Headers
<1>8. ASSUME NEW b \in B PROVE b \in Headers
  <2>1. b \in Nat /\ b < heap.cursor
    BY <1>3 DEF Ranged
  <2>2. SUFFICES ASSUME \A n \in 0 .. HeapEnd : w[n] # b PROVE FALSE
    BY <1>1, <2>1 DEF Headers
  <2> DEFINE R == {n \in 0 .. HeapEnd : w[n] < b}
  <2>3. 0 .. HeapEnd \subseteq R
    <3>1. 0 \in R
      BY <1>2, <2>1, <2>2
    <3>2. ASSUME NEW n \in 0 .. HeapEnd - 1, n \in R PROVE n + 1 \in R
      <4>1. w[n + 1] = NextHeader(w[n]) /\ n + 1 \in 0 .. HeapEnd
        <5>1. n + 1 \in 1 .. HeapEnd /\ (n + 1) - 1 = n
          OBVIOUS
        <5>2. QED
          BY <1>2, <5>1
      <4>2. PICK a \in B : a = w[n]
        <5>1. n \in 0 .. HeapEnd /\ w[n] < b
          BY <3>2
        <5>2. w[n] = heap.cursor \/ w[n] \in B
          BY <1>5, <5>1
        <5>3. w[n] # heap.cursor
          BY <2>1, <5>1
        <5>4. QED
          BY <5>2, <5>3
      <4>3. a < b /\ EndIn(heap, a) <= b
        BY <3>2, <4>2 DEF Tiled
      <4>4. EndIn(heap, a) \in Nat /\ w[n + 1] = EndIn(heap, a) /\ w[n + 1] # b
        BY <1>3, <2>2, <4>1, <4>2 DEF Ranged
      <4>5. QED
        BY <2>1, <4>1, <4>3, <4>4
    <3> HIDE DEF R
    <3>3. QED
      BY <3>1, <3>2, UpTo
  <2>4. w[HeapEnd] < b
    BY <2>3
  <2>5. QED
    BY <1>6, <2>1, <2>4
<1>9. QED
  BY <1>1, <1>6, <1>7, <1>8

LEMMA HeapInvSound ==
  ASSUME HeapAssumption, HeapInv
  PROVE  HeapSound
<1>1. PICK F \in SUBSET Units : Whole(heap, Owned, F)
  BY DEF HeapInv
<1>2. PICK B, L : B = L \cup F /\ L = Owned
  OBVIOUS
<1>3. /\ HeapEnd \in Nat /\ heap.cursor \in 0 .. HeapEnd /\ heap \in Heaps
      /\ Tiled(heap, B) /\ L \subseteq Units /\ Blocks(heap, L, F, {}) /\ Booked(heap, L)
  BY <1>1, <1>2, WholeIs
<1>4. Headers = B /\ Walk[HeapEnd] = heap.cursor
  BY <1>3, HeadersAre
<1>5. /\ \A u \in Units : heap.mem[u].magic = "live" <=> u \in L
      /\ \A a \in F : heap.mem[a].magic = "free"
  BY <1>3 DEF Blocks, Tagged
<1>6. {a \in Headers : ~IsFree(a)} = Owned /\ \A a \in Owned : heap.mem[a].magic = "live"
  BY <1>2, <1>3, <1>4, <1>5 DEF IsFree
<1>7. ASSUME flags.reuse
      PROVE  /\ Binned(heap, F) /\ \A a \in F : EndIn(heap, a) \in L
             /\ \A a \in F : Bin(heap.mem[a].capacity) \in Bins
  <2>1. Binned(heap, F) /\ \A a \in F : EndIn(heap, a) \in L
    BY <1>3, <1>7 DEF Blocks
  <2>2. \A a \in F : heap.mem[a].capacity \in 2 .. HeapEnd
    BY <1>2, <1>3, RangedIn DEF Ranged
  <2>3. \A a \in F : Bin(heap.mem[a].capacity) \in Bins
    BY <2>2, BinIn
  <2>4. QED
    BY <2>1, <2>3
<1>8. HeapTiles
  <2>1. ASSUME flags.reuse, NEW a \in Headers, IsFree(a)
        PROVE  /\ EndIn(heap, a) \in Headers /\ ~IsFree(EndIn(heap, a))
               /\ a \in Elements(heap.bins[Bin(heap.mem[a].capacity)])
    <3>1. a \in F
      BY <1>2, <1>4, <1>6, <2>1
    <3>2. EndIn(heap, a) \in L
      BY <1>7, <2>1, <3>1
    <3>3. EndIn(heap, a) \in Headers /\ ~IsFree(EndIn(heap, a))
      BY <1>2, <1>4, <1>6, <3>2
    <3>4. a \in Elements(heap.bins[Bin(heap.mem[a].capacity)])
      BY <1>7, <2>1, <3>1 DEF Binned
    <3>5. QED
      BY <3>3, <3>4
  <2>2. ASSUME flags.reuse, NEW b \in Bins
        PROVE  /\ Distinct(heap.bins[b])
               /\ \A a \in Elements(heap.bins[b]) :
                    a \in Headers /\ IsFree(a) /\ Bin(heap.mem[a].capacity) = b
    <3>1. Distinct(heap.bins[b]) /\ Elements(heap.bins[b]) = {a \in F : Bin(heap.mem[a].capacity) = b}
      BY <1>7, <2>2 DEF Binned
    <3>2. QED
      BY <1>2, <1>4, <1>5, <3>1 DEF IsFree
  <2>3. QED
    BY <1>4, <1>6, <2>1, <2>2 DEF HeapTiles
<1>9. BooksBalance
  <2>1. ASSUME flags.reuse
        PROVE  heap.reusable = SumOver(UNION {Elements(heap.bins[b]) : b \in Bins},
                                       [a \in Units |-> heap.mem[a].capacity])
    <3>1. UNION {Elements(heap.bins[b]) : b \in Bins} = F
      <4>1. \A a : a \in UNION {Elements(heap.bins[b]) : b \in Bins} <=> \E b \in Bins : a \in Elements(heap.bins[b])
        OBVIOUS
      <4>2. \A b \in Bins : Elements(heap.bins[b]) = {a \in F : Bin(heap.mem[a].capacity) = b}
        BY <1>7, <2>1 DEF Binned
      <4>3. QED
        BY <1>7, <2>1, <4>1, <4>2
    <3>2. QED
      BY <1>7, <2>1, <3>1 DEF Binned
  <2>2. \A i \in DOMAIN heap.live :
          heap.live[i].bytes = SumOver({a \in Owned : heap.mem[a].word = heap.live[i].site},
                                       [a \in Units |-> heap.mem[a].size])
    BY <1>2, <1>3 DEF Booked
  <2>3. QED
    BY <2>1, <2>2 DEF BooksBalance
<1>10. QED
  BY <1>8, <1>9 DEF HeapSound

LEMMA HeapInvTyped ==
  ASSUME HeapAssumption, HeapInv
  PROVE  HeapTypeOK
<1>1. PICK F \in SUBSET Units : Whole(heap, Owned, F)
  BY DEF HeapInv
<1>2. HeapEnd \in Nat /\ heap \in Heaps
  BY <1>1, WholeIs
<1>3. heap.mem \in [Units -> Cells] /\ heap.cursor \in Base .. HeapEnd
  BY <1>2 DEF Heaps
<1>4. block \in [Owners -> Units \cup {NoBlock}] /\ kept \in [Owners -> Nat]
  BY DEF HeapInv, CallsTyped
<1>5. ASSUME NEW o \in Owners PROVE kept[o] \in 0 .. HeapEnd
  <2>1. OwnerFacts(o)
    BY OwnerIs
  <2>2. CASE block[o] = NoBlock
    BY <1>2, <2>1, <2>2 DEF OwnerFacts, Matches
  <2>3. CASE block[o] \in Units
    <3>1. heap.mem[block[o]].size \in 0 .. HeapEnd
      BY <1>3, <2>3 DEF Cells
    <3>2. call[o].size \in Nat
      BY <2>1 DEF OwnerFacts, Callers
    <3>3. kept[o] <= heap.mem[block[o]].size
      BY <1>4, <2>1, <2>3, <3>1, <3>2, NoBlockIs DEF OwnerFacts, Matches
    <3>4. QED
      BY <1>2, <1>4, <3>1, <3>3
  <2>4. QED
    BY <2>1, <2>2, <2>3 DEF OwnerFacts
<1>6. kept \in [Owners -> 0 .. HeapEnd]
  BY <1>4, <1>5
<1>7. QED
  BY <1>3, <1>4, <1>6 DEF HeapTypeOK, Cells

\* Stale headers and footers mislead no call of guest_allocate_at, guest_deallocate
\* or guest_reallocate: the blocks tile the heap, the free ones are in their bins and
\* merged, and the statistics are those of the blocks.
THEOREM HeapIsSound == HeapAssumption => (HeapSpec => []HeapSound)
<1> SUFFICES ASSUME HeapAssumption PROVE HeapSpec => []HeapSound
  OBVIOUS
<1>1. HeapInv => HeapSound
  BY HeapInvSound
<1>2. HeapSpec => []HeapInv
  BY HeapInvariant
<1>3. QED
  BY <1>1, <1>2, PTL

\* What a guest wrote stays in its block, through a guest_reallocate whose locked
\* steps have others' calls between them; and the heap's words keep their types.
THEOREM HeapKeepsContent == HeapAssumption => (HeapSpec => [](ContentKept /\ HeapTypeOK))
<1> SUFFICES ASSUME HeapAssumption PROVE HeapSpec => [](ContentKept /\ HeapTypeOK)
  OBVIOUS
<1>1. HeapInv => ContentKept /\ HeapTypeOK
  BY HeapInvTyped DEF HeapInv
<1>2. HeapSpec => []HeapInv
  BY HeapInvariant
<1>3. QED
  BY <1>1, <1>2, PTL

=============================================================================
