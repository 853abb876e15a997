------------------------------- MODULE GuestHeap -------------------------------
(***************************************************************************)
(* The guest's heap in compat_runtime.c: blocks laid end to end from       *)
(* kGuestHeapBase to guest_heap_cursor, the free ones in bins by capacity. *)
(* Addresses and capacities are counted in 16 byte units: one unit of      *)
(* header, then the block's capacity.  A free block repeats its capacity   *)
(* in the second half of its last unit.                                    *)
(*                                                                         *)
(* The memory keeps what was written to it, so headers and footers of      *)
(* blocks that have been merged, split or given back are still there to be *)
(* read.  A bin's links are a sequence.  Every call is under               *)
(* guest_heap_lock but for calloc's memset and for realloc, which drops    *)
(* the lock when it has to move the block.                                 *)
(***************************************************************************)
EXTENDS Integers, Sequences, FiniteSets

CONSTANTS
  Owners,       \* guest variables, each with at most one block
  Sites,        \* the callers blocks are accounted to
  SiteCapacity, \* kGuestHeapSiteCapacity
  HeapEnd,      \* kGuestHeapEnd, in units from kGuestHeapBase
  Exact,        \* capacities that have a bin of their own: 512 bytes
  BinCount,     \* kGuestHeapBinCount
  Requests,     \* BOUND: per owner, the sizes it asks for and from which site
  MaxAllocations, \* BOUND: blocks given out
  Reuses,       \* values of guest_heap_reuse
  Poisons       \* values of guest_heap_poison

HeapAssumption ==
  /\ SiteCapacity \in Nat /\ HeapEnd \in Nat
  /\ Requests \in [Owners -> SUBSET [size : Nat \ {0}, site : Sites]] /\ MaxAllocations \in Nat
  /\ Exact \in Nat \ {0, 1} /\ BinCount \in Nat /\ BinCount > Exact
  /\ Reuses \subseteq BOOLEAN /\ Poisons \subseteq BOOLEAN

Base == 0
NoBlock == -1
Mark == -2     \* kGuestHeapFreeMagic, read as a capacity
Units == Base .. HeapEnd - 1
Bins == 0 .. BinCount - 1

VARIABLES
  heap,   \* [mem, cursor, bins, site statistics, capacity that can be reused]
  flags,  \* guest_heap_reuse and guest_heap_poison
  block,  \* per owner: the header of its block, or NoBlock
  call,   \* per owner: the call in progress
  kept,   \* history: per owner, the units it wrote that the heap has to keep
  given   \* blocks given out so far

heapVars == <<heap, flags, block, call, kept, given>>

\* A unit of memory as the four words of a header.
Zero == [size |-> 0, magic |-> "none", capacity |-> 0, word |-> 0]
Written(o) == [Zero EXCEPT !.word = o]

NoCall == [at |-> "none", size |-> 0, site |-> 0, old |-> NoBlock]

HeapInit ==
  /\ heap = [mem |-> [u \in Units |-> Zero], cursor |-> Base, bins |-> [b \in Bins |-> <<>>],
             live |-> <<>>, reusable |-> 0]
  /\ flags \in [reuse : Reuses, poison : Poisons]
  /\ block = [o \in Owners |-> NoBlock]
  /\ call = [o \in Owners |-> NoCall]
  /\ kept = [o \in Owners |-> 0]
  /\ given = 0

-----------------------------------------------------------------------------
(* Capacities and bins *)

\* guest_heap_capacity_for_size: a unit more than was asked for.
CapacityFor(size) == size + 1

SmallestCapacity == 2

Doubles(bin) == Exact * 2 ^ (bin - Exact + 1)

\* guest_heap_bin_for_capacity
Bin(capacity) ==
  IF capacity <= Exact THEN capacity - 1
  ELSE CHOOSE b \in Exact .. BinCount - 1 :
         /\ b = BinCount - 1 \/ capacity <= Doubles(b)
         /\ \A c \in Exact .. b - 1 : ~ (capacity <= Doubles(c))

IsCapacity(w) == w \in SmallestCapacity .. HeapEnd

Elements(s) == {s[i] : i \in DOMAIN s}

\* Where a block ends: the next one's header, or the cursor.
EndIn(h, a) == a + 1 + h.mem[a].capacity

\* A bin without a block that was in it.
Unlinked(s, a) ==
  IF a \in Elements(s)
  THEN LET i == CHOOSE i \in DOMAIN s : s[i] = a
       IN [j \in 1 .. Len(s) - 1 |-> IF j < i THEN s[j] ELSE s[j + 1]]
  ELSE s

-----------------------------------------------------------------------------
(* The accounts of the sites: guest_heap_site_locked and its callers *)

Accounts(h, site, delta) ==
  LET known == {i \in DOMAIN h.live : h.live[i].site = site}
  IN IF known # {}
     THEN [h EXCEPT !.live = [i \in DOMAIN h.live |->
             IF i \in known THEN [site |-> site, bytes |-> h.live[i].bytes + delta]
             ELSE h.live[i]]]
     ELSE h

Records(h, site, size) ==
  Accounts(IF \E i \in DOMAIN h.live : h.live[i].site = site THEN h
           ELSE IF Len(h.live) = SiteCapacity THEN h
           ELSE [h EXCEPT !.live = Append(@, [site |-> site, bytes |-> 0])],
           site, size)

-----------------------------------------------------------------------------
(* Free blocks *)

InsertFreeNoFooter(h, a) ==
  LET c == h.mem[a].capacity
  IN [h EXCEPT !.bins[Bin(c)] = <<a>> \o @, !.reusable = @ + c]

\* guest_heap_insert_free_locked: the footer, and the front of the bin.
InsertFree(h, a) ==
  LET c == h.mem[a].capacity
  IN [h EXCEPT !.mem[a + c].capacity = Mark, !.mem[a + c].word = c,
               !.bins[Bin(c)] = <<a>> \o @,
               !.reusable = @ + c]

Listed(h, a) ==
  /\ h.mem[a].magic = "free"
  /\ IsCapacity(h.mem[a].capacity)
  /\ a \in Elements(h.bins[Bin(h.mem[a].capacity)])

\* guest_heap_remove_free_locked, of a block that is Listed.
RemoveFree(h, a) ==
  LET c == h.mem[a].capacity
  IN [h EXCEPT !.bins[Bin(c)] = Unlinked(@, a),
               !.reusable = @ - c,
               !.mem[a].word = 0]

NextIsFree(h, a) ==
  LET next == a + 1 + h.mem[a].capacity
  IN /\ next + 1 <= h.cursor
     /\ Listed(h, next)
     /\ next + 1 + h.mem[next].capacity <= h.cursor

\* What the unit before the header says is the previous block's footer, which
\* the block itself has to confirm.
PreviousIsFreeByFooter(h, a) ==
  /\ a >= Base + 1 + SmallestCapacity
  /\ h.mem[a - 1].capacity = Mark
  /\ h.mem[a - 1].word \in SmallestCapacity .. a - Base - 1

PreviousIsFree(h, a) ==
  /\ a >= Base + 1 + SmallestCapacity
  /\ h.mem[a - 1].capacity = Mark
  /\ h.mem[a - 1].word \in SmallestCapacity .. a - Base - 1
  /\ LET previous == a - 1 - h.mem[a - 1].word
     IN /\ h.mem[previous].capacity = h.mem[a - 1].word
        /\ Listed(h, previous)

MergeNext(h, a) ==
  LET next == a + 1 + h.mem[a].capacity
  IN IF NextIsFree(h, a)
     THEN [RemoveFree(h, next) EXCEPT !.mem[a].capacity = @ + 1 + h.mem[next].capacity]
     ELSE h

MergePrevious(h, a) ==
  LET previous == a - 1 - h.mem[a - 1].word
  IN IF PreviousIsFree(h, a)
     THEN [at |-> previous,
           heap |-> [RemoveFree(h, previous) EXCEPT
                       !.mem[previous].capacity = @ + 1 + h.mem[a].capacity]]
     ELSE [at |-> a, heap |-> h]

\* guest_heap_coalesce_free_locked and the insertion of what it returns: the last
\* block goes back to the part of the heap that was never given out.
Coalesce(h, a) ==
  LET merged == MergePrevious(MergeNext(h, a), a)
      b == merged.at
      last == b + 1 + merged.heap.mem[b].capacity = merged.heap.cursor
  IN IF last THEN [merged.heap EXCEPT !.cursor = b]
     ELSE InsertFree([merged.heap EXCEPT !.mem[b].size = 0, !.mem[b].magic = "free",
                                         !.mem[b].word = 0], b)

\* guest_heap_take_free_locked: from the bin of the capacity up, the first block
\* of a bin that is large enough.
Fits(h, needed, b) == {i \in DOMAIN h.bins[b] : h.mem[h.bins[b][i]].capacity >= needed}

HasFit(h, needed) == \E b \in Bin(needed) .. BinCount - 1 : Fits(h, needed, b) # {}

FirstFit(h, needed) ==
  LET bin == CHOOSE b \in Bin(needed) .. BinCount - 1 :
               /\ Fits(h, needed, b) # {}
               /\ \A c \in Bin(needed) .. b - 1 : Fits(h, needed, c) = {}
      first == CHOOSE i \in Fits(h, needed, bin) : \A j \in Fits(h, needed, bin) : i <= j
  IN h.bins[bin][first]

SplitsTight(h, a, needed) == h.mem[a].capacity >= needed + 1

Splits(h, a, needed) == h.mem[a].capacity >= needed + 1 + SmallestCapacity

TakeFree(h, needed) ==
  LET a == FirstFit(h, needed)
      taken == RemoveFree(h, a)
      rest == a + 1 + needed
  IN IF ~Splits(h, a, needed) THEN taken
     ELSE InsertFree([taken EXCEPT
            !.mem[rest] = [size |-> 0, magic |-> "free", word |-> 0,
                           capacity |-> h.mem[a].capacity - needed - 1],
            !.mem[a].capacity = needed], rest)

-----------------------------------------------------------------------------
(* guest_allocate_at and guest_deallocate, under the lock *)

Bumped(h, needed) ==
  [h EXCEPT !.cursor = @ + 1 + needed, !.mem[h.cursor].capacity = needed]

Reusable(h, size) == flags.reuse /\ HasFit(h, CapacityFor(size))

CanAllocate(h, size) ==
  Reusable(h, size) \/ h.cursor + 1 + CapacityFor(size) <= HeapEnd

AddressFor(h, size) ==
  IF Reusable(h, size) THEN FirstFit(h, CapacityFor(size)) ELSE h.cursor

Allocated(h, size, site) ==
  LET a == AddressFor(h, size)
      got == IF Reusable(h, size) THEN TakeFree(h, CapacityFor(size))
             ELSE Bumped(h, CapacityFor(size))
  IN Records([got EXCEPT !.mem[a].size = size, !.mem[a].magic = "live",
                         !.mem[a].word = site], site, size)

\* guest_heap_validate_header_locked
Valid(h, a) ==
  /\ a \in Base .. h.cursor - 1
  /\ h.mem[a].magic = "live"
  /\ IsCapacity(h.mem[a].capacity)
  /\ a + 1 + h.mem[a].capacity <= h.cursor
  /\ h.mem[a].size <= h.mem[a].capacity

Poisoned(h, a) ==
  IF flags.poison
  THEN [h EXCEPT !.mem = [u \in Units |->
         IF u \in a + 1 .. a + h.mem[a].capacity THEN Zero ELSE h.mem[u]]]
  ELSE h

Deallocated(h, a) ==
  LET freed == Accounts([h EXCEPT !.mem[a] = [size |-> 0, magic |-> "free", word |-> 0,
                                               capacity |-> h.mem[a].capacity]],
                        h.mem[a].word, -h.mem[a].size)
  IN IF flags.reuse THEN Coalesce(Poisoned(freed, a), a) ELSE Poisoned(freed, a)

-----------------------------------------------------------------------------
(* The guest's calls *)

Idle(o) == call[o].at = "none"
Proceeds(o, at, size, site, old) ==
  call' = [call EXCEPT ![o] = [at |-> at, size |-> size, site |-> site, old |-> old]]

\* malloc and calloc: a calloc has its memory cleared after the lock is dropped.
Malloc(o) ==
  /\ Idle(o) /\ block[o] = NoBlock
  /\ given < MaxAllocations /\ given' = given + 1
  /\ \E request \in Requests[o], clear \in BOOLEAN :
       /\ CanAllocate(heap, request.size)
       /\ heap' = Allocated(heap, request.size, request.site)
       /\ block' = [block EXCEPT ![o] = AddressFor(heap, request.size)]
       /\ IF clear THEN Proceeds(o, "clear", 0, 0, NoBlock) ELSE UNCHANGED call
  /\ UNCHANGED <<flags, kept>>

Clear(o) ==
  /\ call[o].at = "clear"
  /\ heap' = [heap EXCEPT !.mem = [u \in Units |->
       IF u \in block[o] + 1 .. block[o] + heap.mem[block[o]].capacity THEN Zero
       ELSE heap.mem[u]]]
  /\ call' = [call EXCEPT ![o] = NoCall]
  /\ UNCHANGED <<flags, block, kept, given>>

\* The guest fills the block it owns.
Write(o) ==
  /\ Idle(o) /\ block[o] # NoBlock /\ kept[o] = 0
  /\ kept' = [kept EXCEPT ![o] = heap.mem[block[o]].size]
  /\ heap' = [heap EXCEPT !.mem = [u \in Units |->
       IF u \in block[o] + 1 .. block[o] + heap.mem[block[o]].size THEN Written(o)
       ELSE heap.mem[u]]]
  /\ UNCHANGED <<flags, block, call, given>>

\* What o wrote to a block is nothing to the heap once the block is free: it is
\* taken out of the state.  Headers and footers stay.
Forget(h, o, a) ==
  [h EXCEPT !.mem = [u \in Units |->
    IF u \in a + 1 .. a + h.mem[a].capacity /\ h.mem[u] = Written(o) THEN Zero ELSE h.mem[u]]]

Free(o) ==
  /\ Idle(o) /\ block[o] # NoBlock
  /\ heap' = IF Valid(heap, block[o]) THEN Deallocated(Forget(heap, o, block[o]), block[o]) ELSE heap
  /\ block' = [block EXCEPT ![o] = NoBlock]
  /\ kept' = [kept EXCEPT ![o] = 0]
  /\ UNCHANGED <<flags, call, given>>

\* A pointer that is no block of anyone's: freed before, or into a block.
FreeStray ==
  /\ \E a \in Units \ ({block[o] : o \in Owners} \cup {call[o].old : o \in Owners}) :
       heap' = IF Valid(heap, a) THEN Deallocated(heap, a) ELSE heap
  /\ UNCHANGED <<flags, block, call, kept, given>>

Lesser(a, b) == IF a < b THEN a ELSE b

\* guest_reallocate with its first look: in place, by extending the last block,
\* or by moving, for which the lock is dropped.
ReallocInPlace(o) ==
  /\ Idle(o) /\ block[o] # NoBlock
  /\ \E size \in {r.size : r \in Requests[o]} :
       /\ CapacityFor(size) <= heap.mem[block[o]].capacity
       /\ heap' = Accounts([heap EXCEPT !.mem[block[o]].size = size],
                           heap.mem[block[o]].word, size - heap.mem[block[o]].size)
       /\ kept' = [kept EXCEPT ![o] = Lesser(@, size)]
  /\ UNCHANGED <<flags, block, call, given>>

EndOf(o) == EndIn(heap, block[o])

CanExtendAnywhere(o, size) == block[o] + 1 + CapacityFor(size) <= HeapEnd

CanExtend(o, size) ==
  /\ EndOf(o) = heap.cursor
  /\ block[o] + 1 + CapacityFor(size) <= HeapEnd

ReallocExtends(o) ==
  /\ Idle(o) /\ block[o] # NoBlock
  /\ \E size \in {r.size : r \in Requests[o]} :
       /\ CapacityFor(size) > heap.mem[block[o]].capacity
       /\ CanExtend(o, size)
       /\ heap' = [Accounts([heap EXCEPT !.mem[block[o]].size = size],
                            heap.mem[block[o]].word, size - heap.mem[block[o]].size)
                     EXCEPT !.mem[block[o]].capacity = CapacityFor(size),
                            !.cursor = block[o] + 1 + CapacityFor(size)]
  /\ UNCHANGED <<flags, block, call, kept, given>>

ReallocMoves(o) ==
  /\ Idle(o) /\ block[o] # NoBlock /\ given < MaxAllocations
  /\ \E request \in Requests[o] :
       /\ CapacityFor(request.size) > heap.mem[block[o]].capacity
       /\ ~CanExtend(o, request.size)
       /\ Proceeds(o, "move", request.size, request.site, heap.mem[block[o]].size)
  /\ UNCHANGED <<heap, flags, block, kept, given>>

\* Its own allocation; where that fails the old block stays the guest's.
MoveAllocates(o) ==
  /\ call[o].at = "move"
  /\ given' = given + 1
  /\ IF CanAllocate(heap, call[o].size)
     THEN /\ heap' = Allocated(heap, call[o].size, call[o].site)
          /\ block' = [block EXCEPT ![o] = AddressFor(heap, call[o].size)]
          /\ Proceeds(o, "copy", Lesser(call[o].old, call[o].size), 0, block[o])
     ELSE /\ call' = [call EXCEPT ![o] = NoCall]
          /\ UNCHANGED <<heap, block>>
  /\ UNCHANGED <<flags, kept>>

\* memcpy, with what lies in the old block's memory, and the old block's free.
MoveCopies(o) ==
  /\ call[o].at = "copy"
  /\ heap' = [heap EXCEPT !.mem = [u \in Units |->
       IF u \in block[o] + 1 .. block[o] + call[o].size
       THEN heap.mem[call[o].old + u - block[o]] ELSE heap.mem[u]]]
  /\ Proceeds(o, "drop", 0, 0, call[o].old)
  /\ UNCHANGED <<flags, block, kept, given>>

MoveDrops(o) ==
  /\ call[o].at = "drop"
  /\ heap' = IF Valid(heap, call[o].old)
             THEN Deallocated(Forget(heap, o, call[o].old), call[o].old) ELSE heap
  /\ call' = [call EXCEPT ![o] = NoCall]
  /\ UNCHANGED <<flags, block, kept, given>>

HeapStep(o) ==
  \/ Malloc(o) \/ Clear(o) \/ Write(o) \/ Free(o)
  \/ ReallocInPlace(o) \/ ReallocExtends(o) \/ ReallocMoves(o)
  \/ MoveAllocates(o) \/ MoveCopies(o) \/ MoveDrops(o)

HeapNext == FreeStray \/ \E o \in Owners : HeapStep(o)

HeapSpec == HeapInit /\ [][HeapNext]_heapVars

-----------------------------------------------------------------------------
Owned ==
  ({block[o] : o \in Owners} \ {NoBlock})
    \cup {call[o].old : o \in {p \in Owners : call[p].at \in {"copy", "drop"}}}

\* The headers met one after the other from the base up, and where that ends.
NextHeader(a) ==
  IF a < heap.cursor /\ IsCapacity(heap.mem[a].capacity) THEN EndIn(heap, a) ELSE a

Walk ==
  LET w[n \in 0 .. HeapEnd] == IF n = 0 THEN Base ELSE NextHeader(w[n - 1])
  IN w

Headers == {Walk[n] : n \in 0 .. HeapEnd} \ {heap.cursor}

IsFree(a) == heap.mem[a].magic = "free"

\* Each element is there once.
Distinct(s) == \A i, j \in DOMAIN s : s[i] = s[j] => i = j

\* The blocks lie end to end up to the cursor; the live ones are those the guest
\* owns, and every free one is in the bin of its capacity, once, has no free
\* neighbour and is not the last: the footers and headers that merged, split and
\* moved blocks left in memory mislead no call.
HeapTiles ==
  /\ Walk[HeapEnd] = heap.cursor
  /\ {a \in Headers : ~IsFree(a)} = Owned
  /\ \A a \in Owned : heap.mem[a].magic = "live"
  /\ flags.reuse =>
       /\ \A a \in Headers : IsFree(a) =>
            /\ EndIn(heap, a) \in Headers /\ ~IsFree(EndIn(heap, a))
            /\ a \in Elements(heap.bins[Bin(heap.mem[a].capacity)])
       /\ \A b \in Bins :
            /\ Distinct(heap.bins[b])
            /\ \A a \in Elements(heap.bins[b]) :
                 a \in Headers /\ IsFree(a) /\ Bin(heap.mem[a].capacity) = b

\* The sum of f over those units below n that are in S, for every n.
Sums(S, f) ==
  LET s[n \in 0 .. HeapEnd] ==
        IF n = 0 THEN 0 ELSE s[n - 1] + (IF n - 1 \in S THEN f[n - 1] ELSE 0)
  IN s
SumOver(S, f) == Sums(S, f)[HeapEnd]

\* The statistics are the heap's: what can be reused is what the free blocks
\* hold, and a site's account is what its live blocks were asked for.
BooksBalance ==
  /\ flags.reuse =>
       heap.reusable = SumOver(UNION {Elements(heap.bins[b]) : b \in Bins},
                               [a \in Units |-> heap.mem[a].capacity])
  /\ \A i \in DOMAIN heap.live :
       heap.live[i].bytes =
         SumOver({a \in Owned : heap.mem[a].word = heap.live[i].site},
                 [a \in Units |-> heap.mem[a].size])

\* Both, of which a call that reads one stale word too many breaks one.
HeapSound == HeapTiles /\ BooksBalance

\* What the guest wrote to its block stays there while the block is its own,
\* moved or not, and whatever the other owners do while a realloc is moving it.
ContentKept ==
  \A o \in Owners : \A i \in 1 .. kept[o] :
    heap.mem[(IF call[o].at = "copy" THEN call[o].old ELSE block[o]) + i] = Written(o)

\* The type invariant of the heap.
HeapTypeOK ==
  /\ heap.mem \in [Units -> [size : 0 .. HeapEnd, magic : {"none", "live", "free"},
                             capacity : 0 .. HeapEnd \cup {Mark},
                             word : 0 .. HeapEnd \cup Sites \cup Owners]]
  /\ heap.cursor \in Base .. HeapEnd
  /\ block \in [Owners -> Units \cup {NoBlock}]
  /\ kept \in [Owners -> 0 .. HeapEnd]

=============================================================================
