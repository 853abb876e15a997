------------------------------- MODULE GuestOnce -------------------------------
(***************************************************************************)
(* One-time initialisation in compat_runtime.c: guest_pthread_once, with   *)
(* one recursive lock for all controls, held while the guest's initializer *)
(* runs, and a table of completed controls in which a control is entered   *)
(* before its initializer is called; and the __cxa_guard calls, which are  *)
(* the guard's two bytes and do not block.                                 *)
(*                                                                         *)
(* An initializer may call pthread_once itself, and may trap, which ends   *)
(* the call of it like a return.                                           *)
(***************************************************************************)
EXTENDS Integers, Sequences, FiniteSets

CONSTANTS
  OnceThreads, NoOne,
  Controls,
  OnceCapacity,  \* entries of completed
  MaxNested,     \* BOUND: pthread_once calls within one another
  GuardThreads   \* threads that reach a function-local static

OnceAssumption ==
  NoOne \notin OnceThreads /\ OnceCapacity \in Nat /\ MaxNested \in Nat
    /\ GuardThreads \subseteq OnceThreads

VARIABLES
  onceLock,   \* holder of once_lock
  completed,  \* the table
  running,    \* per thread: the initializers it is in, outermost first
  ran,        \* history: per control, how often its initializer was started
  finished,   \* history: controls whose initializer has ended
  early,      \* history: [thread, control] of calls that returned before that
  guard,      \* the guard's bytes: done, and in progress
  building    \* threads that were told to construct the static

onceVars == <<onceLock, completed, running, ran, finished, early, guard, building>>

OnceInit ==
  /\ onceLock = NoOne
  /\ completed = {}
  /\ running = [t \in OnceThreads |-> <<>>]
  /\ ran = [c \in Controls |-> 0]
  /\ finished = {}
  /\ early = {}
  /\ guard = [done |-> FALSE, busy |-> FALSE]
  /\ building = {}

Takes(t) == onceLock \in {t, NoOne}

\* The control is in the table: nothing is run.
Skips(t, c) ==
  /\ Takes(t) /\ c \in completed
  /\ early' = IF c \in finished THEN early ELSE early \cup {[thread |-> t, control |-> c]}
  /\ UNCHANGED <<onceLock, completed, running, ran, finished, guard, building>>

MarksNothing(c) == completed

Marks(c) == IF Cardinality(completed) < OnceCapacity THEN completed \cup {c} ELSE completed

StartsUnlocked(t, c) ==
  /\ Takes(t) /\ c \notin completed
  /\ Len(running[t]) < MaxNested
  /\ completed' = Marks(c)
  /\ running' = [running EXCEPT ![t] = Append(@, c)]
  /\ ran' = [ran EXCEPT ![c] = IF @ < 2 THEN @ + 1 ELSE @]
  /\ UNCHANGED <<onceLock, finished, early, guard, building>>

\* The lock is kept while the initializer runs.
Starts(t, c) ==
  /\ Takes(t) /\ c \notin completed
  /\ Len(running[t]) < MaxNested
  /\ onceLock' = t
  /\ completed' = Marks(c)
  /\ running' = [running EXCEPT ![t] = Append(@, c)]
  /\ ran' = [ran EXCEPT ![c] = IF @ < 2 THEN @ + 1 ELSE @]
  /\ UNCHANGED <<finished, early, guard, building>>

\* The initializer returns, or traps.
Ends(t) ==
  /\ running[t] # <<>>
  /\ running' = [running EXCEPT ![t] = SubSeq(@, 1, Len(@) - 1)]
  /\ finished' = finished \cup {running[t][Len(running[t])]}
  /\ onceLock' = IF Len(running[t]) = 1 THEN NoOne ELSE onceLock
  /\ UNCHANGED <<completed, ran, early, guard, building>>

GuardAcquire(t) ==
  /\ t \in GuardThreads /\ t \notin building /\ ~guard.done
  /\ guard' = [guard EXCEPT !.busy = TRUE]
  /\ building' = building \cup {t}
  /\ UNCHANGED <<onceLock, completed, running, ran, finished, early>>

GuardRelease(t) ==
  /\ t \in building
  /\ guard' = [done |-> TRUE, busy |-> FALSE]
  /\ building' = building \ {t}
  /\ UNCHANGED <<onceLock, completed, running, ran, finished, early>>

GuardAbort(t) ==
  /\ t \in building
  /\ guard' = [guard EXCEPT !.busy = FALSE]
  /\ building' = building \ {t}
  /\ UNCHANGED <<onceLock, completed, running, ran, finished, early>>

OnceNext ==
  \E t \in OnceThreads :
    \/ Ends(t) \/ GuardAcquire(t) \/ GuardRelease(t) \/ GuardAbort(t)
    \/ \E c \in Controls : Skips(t, c) \/ Starts(t, c)

OnceSpec == OnceInit /\ [][OnceNext]_onceVars

-----------------------------------------------------------------------------
\* While the table has room an initializer is started once, whatever it calls and
\* however it ends, and pthread_once returns before it has ended only to a thread
\* that is in it: "holding the (recursive) lock across the initializer serialises
\* concurrent first callers".  A static is not constructed again once it is done.
OnceSound ==
  /\ Cardinality(completed) < OnceCapacity => \A c \in Controls : ran[c] <= 1
  /\ \A e \in early :
       e.control \in finished \/ \E i \in DOMAIN running[e.thread] : running[e.thread][i] = e.control
  /\ onceLock # NoOne <=> \E t \in OnceThreads : running[t] # <<>>
  /\ guard.busy => building # {}

-----------------------------------------------------------------------------
(* Why it holds.  The lock's holder is the one thread with initializers on *)
(* its stack, and what is in the table has ended or is on that stack.      *)
Within(t, c) == \E i \in DOMAIN running[t] : running[t][i] = c

OnceInv ==
  /\ completed \subseteq Controls /\ IsFiniteSet(completed)
  /\ running \in [OnceThreads -> Seq(Controls)]
  /\ ran \in [Controls -> 0 .. 2]
  /\ guard \in [done : BOOLEAN, busy : BOOLEAN]
  /\ \A e \in early : e.thread \in OnceThreads
  /\ onceLock \in OnceThreads \cup {NoOne}
  /\ \A t \in OnceThreads : running[t] # <<>> <=> onceLock = t
  /\ Cardinality(completed) < OnceCapacity => \A c \in Controls \ completed : ran[c] = 0
  /\ \A c \in completed \ finished : \E t \in OnceThreads : Within(t, c)
  /\ OnceSound

=============================================================================
