------------------------------ MODULE GuestMutexes ------------------------------
(***************************************************************************)
(* The registry of guest mutexes in compat_runtime.c: a host mutex per     *)
(* guest address, kept in a table that a destroy compacts by moving its    *)
(* last entry into the gap, and a direct-mapped cache of table positions   *)
(* that nothing ever invalidates.  Host mutexes are recycled, last in      *)
(* first out.                                                              *)
(*                                                                         *)
(* A lookup is under guest_sync_table_lock and gives out the host mutex;   *)
(* locking it is another step.  The guest does not destroy or initialise a *)
(* mutex another thread is about to lock, "undefined for the guest as      *)
(* well"; it may do so while the mutex is held, which the code handles.    *)
(***************************************************************************)
EXTENDS Integers, Sequences, FiniteSets

CONSTANTS
  MutexThreads, Nobody,
  Addresses,    \* guest addresses, in units of eight bytes
  CacheSize,    \* kGuestMutexIndexCacheSize
  HostMutexes   \* 1 .. n, in the order malloc gives them out

MutexesAssumption ==
  /\ Nobody \notin MutexThreads
  /\ Addresses \subseteq Nat /\ CacheSize \in Nat \ {0}
  /\ HostMutexes \subseteq Nat /\ 0 \notin HostMutexes

VARIABLES
  mutexes,    \* guest_mutexes: [address, mutex] in table order
  indexCache, \* guest_mutex_index_cache, positions counted from 1, 0 at first
  recycled,   \* free_host_mutexes
  mallocs,    \* host mutexes malloc has given out
  holder,     \* per host mutex: who has it locked
  locking     \* per thread: [address, mutex] it looked up and is about to lock

mutexVars == <<mutexes, indexCache, recycled, mallocs, holder, locking>>

Idle == [address |-> 0, mutex |-> 0]

MutexesInit ==
  /\ mutexes = <<>>
  /\ indexCache = [c \in 0 .. CacheSize - 1 |-> 1]
  /\ recycled = <<>>
  /\ mallocs = {}
  /\ holder = [h \in HostMutexes |-> Nobody]
  /\ locking = [t \in MutexThreads |-> Idle]

Cached(a) == indexCache[a % CacheSize]

Positions(a) == {i \in DOMAIN mutexes : mutexes[i].address = a}
Registered(a) == Positions(a) # {}
First(a) == CHOOSE i \in Positions(a) : \A j \in Positions(a) : i <= j

\* The cache is a guess: the entry it points at has to be the address's.
HitUnchecked(a) == Cached(a) \in DOMAIN mutexes

Hit(a) == Cached(a) \in DOMAIN mutexes /\ mutexes[Cached(a)].address = a

\* create_host_mutex: the last one recycled, else a new one.
CanCreate == recycled # <<>> \/ mallocs # HostMutexes
Created ==
  IF recycled # <<>> THEN Head(recycled)
  ELSE CHOOSE h \in HostMutexes \ mallocs : \A g \in HostMutexes \ mallocs : h <= g

Registers(a) ==
  /\ mutexes' = Append(mutexes, [address |-> a, mutex |-> Created])
  /\ indexCache' = [indexCache EXCEPT ![a % CacheSize] = Len(mutexes) + 1]
  /\ mallocs' = mallocs \cup {Created}
  /\ recycled' = IF recycled # <<>> THEN Tail(recycled) ELSE recycled

\* host_mutex_for_guest, for pthread_mutex_lock and trylock.
Lookup(t, a) ==
  /\ locking[t] = Idle
  /\ \/ /\ Hit(a)
        /\ locking' = [locking EXCEPT ![t] = [address |-> a, mutex |-> mutexes[Cached(a)].mutex]]
        /\ UNCHANGED <<mutexes, indexCache, recycled, mallocs>>
     \/ /\ ~Hit(a) /\ Registered(a)
        /\ locking' = [locking EXCEPT ![t] = [address |-> a, mutex |-> mutexes[First(a)].mutex]]
        /\ indexCache' = [indexCache EXCEPT ![a % CacheSize] = First(a)]
        /\ UNCHANGED <<mutexes, recycled, mallocs>>
     \/ /\ ~Hit(a) /\ ~Registered(a) /\ CanCreate
        /\ Registers(a)
        /\ locking' = [locking EXCEPT ![t] = [address |-> a, mutex |-> Created]]
  /\ UNCHANGED holder

\* The host's recursive mutex; one level of it is kept.
Locks(t) ==
  /\ locking[t] # Idle
  /\ holder[locking[t].mutex] \in {t, Nobody}
  /\ holder' = [holder EXCEPT ![locking[t].mutex] = t]
  /\ locking' = [locking EXCEPT ![t] = Idle]
  /\ UNCHANGED <<mutexes, indexCache, recycled, mallocs>>

\* trylock does not wait: EBUSY.
TryLockFails(t) ==
  /\ locking[t] # Idle
  /\ holder[locking[t].mutex] \notin {t, Nobody}
  /\ locking' = [locking EXCEPT ![t] = Idle]
  /\ UNCHANGED <<mutexes, indexCache, recycled, mallocs, holder>>

MutexFor(a) == mutexes[IF Hit(a) THEN Cached(a) ELSE First(a)].mutex

\* pthread_mutex_unlock finds the mutex again; host_mutex_for_guest may refresh
\* its guess.
Unlocks(t, a) ==
  /\ locking[t] = Idle /\ Registered(a)
  /\ holder[MutexFor(a)] = t
  /\ holder' = [holder EXCEPT ![MutexFor(a)] = Nobody]
  /\ indexCache' = IF Hit(a) THEN indexCache
                   ELSE [indexCache EXCEPT ![a % CacheSize] = First(a)]
  /\ UNCHANGED <<mutexes, recycled, mallocs, locking>>

Undisturbed(a) == \A t \in MutexThreads : locking[t].address # a \/ locking[t] = Idle

\* guest_mutex_initialize: a host mutex the address already has is made anew, or
\* kept when it is held; the scan does not look at the cache.
Initialize(t, a) ==
  /\ locking[t] = Idle /\ Undisturbed(a)
  /\ IF Registered(a) THEN UNCHANGED <<mutexes, indexCache, recycled, mallocs>>
     ELSE CanCreate /\ Registers(a)
  /\ UNCHANGED <<holder, locking>>

LastMovedAway(i) == SubSeq(mutexes, 1, Len(mutexes) - 1)

LastMovedTo(i) ==
  SubSeq([mutexes EXCEPT ![i] = mutexes[Len(mutexes)]], 1, Len(mutexes) - 1)

\* guest_mutex_destroy: one that is held stays registered.
Destroy(t, a) ==
  /\ locking[t] = Idle /\ Undisturbed(a) /\ Registered(a)
  /\ holder[mutexes[First(a)].mutex] = Nobody
  /\ recycled' = <<mutexes[First(a)].mutex>> \o recycled
  /\ mutexes' = LastMovedTo(First(a))
  /\ UNCHANGED <<indexCache, mallocs, holder, locking>>

MutexesNext ==
  \E t \in MutexThreads :
    \/ Locks(t) \/ TryLockFails(t)
    \/ \E a \in Addresses : Lookup(t, a) \/ Unlocks(t, a) \/ Initialize(t, a) \/ Destroy(t, a)

MutexesSpec == MutexesInit /\ [][MutexesNext]_mutexVars

-----------------------------------------------------------------------------
InTable == {mutexes[i].mutex : i \in DOMAIN mutexes}
Free == {recycled[i] : i \in DOMAIN recycled}

\* An address has one host mutex and keeps it while anybody has it locked or is
\* about to: no destroy that moves an entry, and no guess left from before it,
\* gives a thread the mutex of another address.
MutexesSound ==
  /\ \A i, j \in DOMAIN mutexes : i # j =>
       mutexes[i].address # mutexes[j].address /\ mutexes[i].mutex # mutexes[j].mutex
  /\ InTable \cap Free = {} /\ InTable \cup Free = mallocs
  /\ Cardinality(Free) = Len(recycled)
  /\ \A h \in HostMutexes : holder[h] # Nobody => h \in InTable
  /\ \A t \in MutexThreads : locking[t] # Idle =>
       \E i \in DOMAIN mutexes : mutexes[i] = locking[t]

-----------------------------------------------------------------------------
(* Why it holds.  Recycled host mutexes are different ones that nobody     *)
(* holds, and what is looked up for an address is in the table.            *)
MutexesTyped ==
  /\ mutexes \in Seq([address : Addresses, mutex : HostMutexes])
  /\ indexCache \in [0 .. CacheSize - 1 -> Nat]
  /\ recycled \in Seq(HostMutexes)
  /\ mallocs \subseteq HostMutexes
  /\ holder \in [HostMutexes -> MutexThreads \cup {Nobody}]
  /\ locking \in [MutexThreads -> [address : Addresses, mutex : HostMutexes] \cup {Idle}]

RecycledApart == \A i, j \in DOMAIN recycled : recycled[i] = recycled[j] => i = j

MutexesInv == MutexesTyped /\ RecycledApart /\ MutexesSound

=============================================================================
