------------------------------ MODULE GuestStrings ------------------------------
(***************************************************************************)
(* The guest's C++ strings in compat_runtime.c.  A string object is one    *)
(* word, the address of its characters; the representation before them has *)
(* a reference count, one less than the number of objects that share it.   *)
(*                                                                         *)
(* The bridge gives every string a representation of its own and honours   *)
(* the count when it disposes of one, under guest_heap_lock.  Guest code   *)
(* that has the string operations inlined shares representations by        *)
(* locked additions to the same word, which take no lock of the bridge's;  *)
(* and an import runs outside the guest's execution lock                   *)
(* (import_gateway.S:14).  So an addition may fall between the bridge's    *)
(* read of a count and its write, and is then overwritten.                 *)
(*                                                                         *)
(* A thread changes its own objects only, and copies from any.             *)
(***************************************************************************)
EXTENDS Integers, FiniteSets

CONSTANTS
  StringThreads,
  OwnerOf,   \* object -> the thread whose it is
  Reps,      \* blocks for representations
  Null,
  MaxCount   \* BOUND: the count up to which guest code copies a representation

StringsAssumption ==
  /\ OwnerOf \in [DOMAIN OwnerOf -> StringThreads]
  /\ IsFiniteSet(StringThreads) /\ IsFiniteSet(DOMAIN OwnerOf)
  /\ Null \notin Reps /\ MaxCount \in Nat

Objects == DOMAIN OwnerOf

VARIABLES
  rep,       \* per object: its representation, Null before it is built
  refs,      \* per representation: the reference count
  live,      \* representations whose block is allocated
  disposal,  \* per thread: the guest_string_dispose_rep in progress
  copyErased,  \* history: the bridge has overwritten an inline copy,
  dropErased   \* and the representations of which it has overwritten a drop

stringVars == <<rep, refs, live, disposal, copyErased, dropErased>>
history == <<copyErased, dropErased>>

NoDisposal == [at |-> "none", of |-> Null, seen |-> 0]

StringsInit ==
  /\ rep = [o \in Objects |-> Null]
  /\ refs = [r \in Reps |-> 0]
  /\ live = {}
  /\ disposal = [t \in StringThreads |-> NoDisposal]
  /\ copyErased = FALSE /\ dropErased = {}

Calm(t) == disposal[t].at = "none"
Goes(t, at, r, seen) ==
  disposal' = [disposal EXCEPT ![t] = [at |-> at, of |-> r, seen |-> seen]]

\* guest_heap_lock is held from the read of a count that is positive to its write.
Locked == \E t \in StringThreads : disposal[t].at = "write"

\* guest_string_make: the first free block, with a count of zero.
Fresh == CHOOSE r \in Reps : r \notin live

Made(o) ==
  /\ live # Reps /\ ~Locked
  /\ live' = live \cup {Fresh}
  /\ refs' = [refs EXCEPT ![Fresh] = 0]
  /\ rep' = [rep EXCEPT ![o] = Fresh]

\* The constructors of std::string.
Construct(t, o) ==
  /\ Calm(t) /\ OwnerOf[o] = t /\ rep[o] = Null
  /\ Made(o)
  /\ UNCHANGED <<disposal, history>>

\* assign, and push_back: a new representation, then the old one is disposed of.
\* One that cannot be had leaves the object alone.
Assign(t, o) ==
  /\ Calm(t) /\ OwnerOf[o] = t /\ rep[o] # Null
  /\ Made(o)
  /\ Goes(t, "read", rep[o], 0)
  /\ UNCHANGED history

\* guest_string_dispose_object clears the object first.
Destruct(t, o) ==
  /\ Calm(t) /\ OwnerOf[o] = t /\ rep[o] # Null
  /\ rep' = [rep EXCEPT ![o] = Null]
  /\ Goes(t, "read", rep[o], 0)
  /\ UNCHANGED <<refs, live, history>>

\* A mutant frees a representation that two objects share.
SharedByTwo(count) == count > 1
Shared(count) == count > 0

\* guest_string_dispose_rep: what is no live block is left alone; a count that is
\* positive is lowered, under the lock; otherwise the block is freed, after it.
DisposeReads(t) ==
  /\ disposal[t].at = "read" /\ ~Locked
  /\ LET r == disposal[t].of
     IN IF r \notin live THEN Goes(t, "none", Null, 0)
        ELSE IF Shared(refs[r]) THEN Goes(t, "write", r, refs[r])
        ELSE Goes(t, "free", r, 0)
  /\ UNCHANGED <<rep, refs, live, history>>

\* What guest code has added since the read, or taken off, is written over.
DisposeWrites(t) ==
  LET r == disposal[t].of
      seen == disposal[t].seen
  IN /\ disposal[t].at = "write"
     /\ refs' = [refs EXCEPT ![r] = seen - 1]
     /\ copyErased' = (copyErased \/ refs[r] > seen)
     /\ dropErased' = dropErased \cup (IF refs[r] < seen THEN {r} ELSE {})
     /\ Goes(t, "none", Null, 0)
     /\ UNCHANGED <<rep, live>>

DisposeFrees(t) ==
  /\ disposal[t].at = "free" /\ ~Locked
  /\ live' = live \ {disposal[t].of}
  /\ refs' = [refs EXCEPT ![disposal[t].of] = 0]
  /\ Goes(t, "none", Null, 0)
  /\ UNCHANGED <<rep, history>>

\* Guest code copies a string inline: a locked addition, and no call.
GuestCopies(t, o, p) ==
  /\ Calm(t) /\ OwnerOf[o] = t /\ rep[o] = Null
  /\ rep[p] # Null /\ refs[rep[p]] < MaxCount
  /\ refs' = [refs EXCEPT ![rep[p]] = @ + 1]
  /\ rep' = [rep EXCEPT ![o] = rep[p]]
  /\ UNCHANGED <<live, disposal, history>>

\* Guest code drops a string inline; the last to do so calls _M_destroy.
GuestDrops(t, o) ==
  /\ Calm(t) /\ OwnerOf[o] = t /\ rep[o] # Null
  /\ refs' = [refs EXCEPT ![rep[o]] = @ - 1]
  /\ rep' = [rep EXCEPT ![o] = Null]
  /\ IF refs[rep[o]] > 0 THEN UNCHANGED disposal ELSE Goes(t, "read", rep[o], 0)
  /\ UNCHANGED <<live, history>>

\* A string's characters are there as long as the string is: "honoring a positive
\* reference count also makes disposal safe if guest inline code happens to share
\* one" (compat_runtime.c:2578).
StringsStayAlive == \A o \in Objects : rep[o] # Null => rep[o] \in live

\* What the game does once the characters of a string are gone is not followed.
StringsNext ==
  /\ StringsStayAlive
  /\ \E t \in StringThreads :
       \/ DisposeReads(t) \/ DisposeWrites(t) \/ DisposeFrees(t)
       \/ \E o \in Objects :
            \/ Construct(t, o) \/ Assign(t, o) \/ Destruct(t, o) \/ GuestDrops(t, o)
            \/ \E p \in Objects \ {o} : GuestCopies(t, o, p)

StringsSpec == StringsInit /\ [][StringsNext]_stringVars

-----------------------------------------------------------------------------
StringsTypeOK ==
  /\ rep \in [Objects -> Reps \cup {Null}]
  /\ refs \in [Reps -> (-Cardinality(StringThreads)) .. MaxCount]
  /\ live \subseteq Reps
  /\ disposal \in [StringThreads ->
       [at : {"none", "read", "write", "free"}, of : Reps \cup {Null}, seen : Nat]]
  /\ copyErased \in BOOLEAN /\ dropErased \subseteq Reps

\* The one window between the two ways to count is all that can go wrong, and what
\* falls into it decides how.  Unless the bridge has overwritten an inline copy no
\* representation is freed while a string has it, however many disposals, copies and
\* drops meet; and one that stays behind with nobody to free it is one of which a
\* drop was overwritten: it costs its own block, and no other string anything.
StringsSound ==
  ~ copyErased =>
    /\ StringsStayAlive
    /\ \A r \in live \ dropErased :
         (\E o \in Objects : rep[o] = r) \/ (\E t \in StringThreads : disposal[t].of = r)

-----------------------------------------------------------------------------
(* Why it holds.  The count is one less than the objects that have the     *)
(* representation and the threads that are about to take theirs off; but   *)
(* the last to drop it inline has taken it off before it disposes of it.   *)
(* Once a drop was overwritten it is at least as high as all of them, so   *)
(* that nobody takes itself for the last.                                  *)
Having(r) == {o \in Objects : rep[o] = r}
Disposing(r) == {t \in StringThreads : disposal[t].of = r}
Shares(r) == Cardinality(Having(r)) + Cardinality(Disposing(r))

LastDropped(r) ==
  /\ refs[r] = -1 /\ Having(r) = {}
  /\ \E t \in StringThreads : Disposing(r) = {t} /\ disposal[t].at \in {"read", "free"}

CountsMatch ==
  \A r \in live : IF r \in dropErased THEN refs[r] >= Shares(r)
                  ELSE LastDropped(r) \/ (refs[r] = Shares(r) - 1 /\ Shares(r) >= 1)

DisposalsMatch ==
  \A t \in StringThreads :
    /\ disposal[t].at = "write" => \A u \in StringThreads : disposal[u].at = "write" => u = t
    /\ disposal[t].at = "none" => disposal[t] = NoDisposal
    /\ disposal[t].at # "none" => disposal[t].of \in live
    /\ disposal[t].at = "write" => disposal[t].seen > 0
    /\ disposal[t].at = "free" =>
         /\ Having(disposal[t].of) = {} /\ Disposing(disposal[t].of) = {t}
         /\ disposal[t].of \notin dropErased

StringsTyped ==
  /\ rep \in [Objects -> Reps \cup {Null}] /\ refs \in [Reps -> Int] /\ live \subseteq Reps
  /\ disposal \in [StringThreads ->
       [at : {"none", "read", "write", "free"}, of : Reps \cup {Null}, seen : Int]]

StringsInv ==
  /\ StringsTyped
  /\ ~ copyErased =>
       CountsMatch /\ DisposalsMatch /\ dropErased \subseteq live /\ StringsStayAlive

=============================================================================
