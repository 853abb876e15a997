------------------------------ MODULE GuestCond ------------------------------
(***************************************************************************)
(* The guest's condition variables in compat_runtime.c: a registry from    *)
(* guest address to host condition and gate, and the block, wake,          *)
(* initialize and destroy calls on it.                                     *)
(*                                                                         *)
(* The registry is only touched under guest_sync_table_lock, but a call    *)
(* keeps the host condition and the gate it looked up after dropping that  *)
(* lock: a lookup is one action and each later use of the pointers is one  *)
(* of its own.  What runs under a gate's lock is split where another       *)
(* thread can see the middle of it: a waiter drops the guest's mutex       *)
(* before it sleeps, and destroy and initialize broadcast with no gate     *)
(* lock held.                                                              *)
(*                                                                         *)
(* A host condition is waited on in one of its lives (`life'): destroying  *)
(* it and initializing it again starts the next one.  A wait or a signal   *)
(* on a destroyed condition fails with EINVAL, as it does on macOS; a      *)
(* thread left asleep in an ended life is only woken by its timeout.       *)
(* Allocation failures are left out.                                       *)
(***************************************************************************)
EXTENDS Integers, FiniteSets, Sequences

CONSTANTS
  Threads, None,
  Conds,        \* guest condition addresses
  Mutexes,      \* guest mutex addresses
  Hosts,        \* BOUND: host conditions and gates, 1 .. Hosts
  Titles,       \* subset of BOOLEAN: may the title that runs have gates
  Deadlines,    \* subset of BOOLEAN: is the wait given a timeout
  MaxRenewals   \* BOUND: initialize and destroy calls

ASSUME CondAssumption ==
  /\ IsFiniteSet(Threads)
  /\ None \notin Threads
  /\ Hosts \in Nat
  /\ Titles \subseteq BOOLEAN
  /\ Deadlines \subseteq BOOLEAN
  /\ MaxRenewals \in Nat

Objects == 1 .. Hosts
NoEntry == [condition |-> 0, gate |-> 0]

VARIABLES
  gated,       \* guest_cond_gates_enabled(), for the title that runs
  entry,       \* guest_conditions: address -> host condition and gate
  cond,        \* host condition -> [live, life]
  freeConds,   \* free_host_conditions, a stack
  born,        \* host conditions ever allocated
  gate,        \* gate -> [lock, waiters, pending]
  gates,       \* gates ever allocated
  tableLock,   \* holder of guest_sync_table_lock across steps
  owner,       \* guest mutex -> holder
  pc, call,    \* per thread: where it is, and its call's arguments and locals
  owed,        \* history: gate -> a successful wake has had no return since
  renewals,    \* initialize and destroy calls so far
  overtaken    \* history: a condition was renewed while another thread waited on it

history == <<renewals, overtaken>>
registry == <<gated, entry, freeConds, born, gates>>
vars == <<registry, cond, gate, tableLock, owner, pc, call, owed, history>>

Idle == [op |-> "none", cond |-> None, mutex |-> None, timed |-> FALSE,
         host |-> 0, gate |-> 0, life |-> 0]

InWindow(g) ==
  {t \in Threads : call[t].gate = g /\ pc[t] \in {"park", "sleep", "woken", "leave"}}
Sleepers(h) ==
  {t \in Threads : pc[t] = "sleep" /\ call[t].host = h /\ call[t].life = cond[h].life}

Goes(t, place) == pc' = [pc EXCEPT ![t] = place]
Returns(t) == Goes(t, "run") /\ call' = [call EXCEPT ![t] = Idle]

\* pthread_cond_signal and pthread_cond_broadcast, with whatever else the step
\* does to its own thread's pc.
WakeAll(t, h, place) ==
  pc' = [u \in Threads |-> IF u = t THEN place
                           ELSE IF u \in Sleepers(h) THEN "woken" ELSE pc[u]]

WakeOne(t, h, place) ==
  \/ Sleepers(h) = {} /\ Goes(t, place)
  \/ \E u \in Sleepers(h) : pc' = [pc EXCEPT ![t] = place, ![u] = "woken"]

-----------------------------------------------------------------------------
Init ==
  /\ gated \in Titles
  /\ entry = [c \in Conds |-> NoEntry]
  /\ cond = [h \in Objects |-> [live |-> FALSE, life |-> 0]]
  /\ freeConds = <<>>
  /\ born = 0
  /\ gate = [g \in Objects |-> [lock |-> None, waiters |-> 0, pending |-> FALSE]]
  /\ gates = 0
  /\ tableLock = None
  /\ owner = [m \in Mutexes |-> None]
  /\ pc = [t \in Threads |-> "run"]
  /\ call = [t \in Threads |-> Idle]
  /\ owed = [g \in Objects |-> FALSE]
  /\ renewals = 0
  /\ overtaken = FALSE

-----------------------------------------------------------------------------
(* The guest's calls *)

Lock(t, m) ==
  /\ pc[t] = "run"
  /\ owner[m] = None
  /\ owner' = [owner EXCEPT ![m] = t]
  /\ UNCHANGED <<registry, cond, gate, tableLock, pc, call, owed, history>>

Unlock(t, m) ==
  /\ pc[t] = "run"
  /\ owner[m] = t
  /\ owner' = [owner EXCEPT ![m] = None]
  /\ UNCHANGED <<registry, cond, gate, tableLock, pc, call, owed, history>>

Calls(t, op, c, m, timed, place) ==
  /\ pc[t] = "run"
  /\ Goes(t, place)
  /\ call' = [call EXCEPT ![t] = [Idle EXCEPT !.op = op, !.cond = c, !.mutex = m,
                                              !.timed = timed]]
  /\ UNCHANGED <<registry, cond, gate, tableLock, owner, owed>>

\* pthread_cond_wait, _timedwait and _timedwait_relative_np, with the mutex held.
WaitCall(t, c, m, timed) ==
  /\ owner[m] = t
  /\ overtaken' = (overtaken \/
       \E u \in Threads : call[u].cond = c /\ call[u].op \in {"initialize", "destroy"})
  /\ Calls(t, "wait", c, m, timed, "lookup")
  /\ UNCHANGED renewals

WakeCall(t, c, op) ==
  op \in {"signal", "broadcast"} /\ Calls(t, op, c, None, FALSE, "lookup") /\ UNCHANGED history

RenewCall(t, c, op) ==
  /\ op \in {"initialize", "destroy"}
  /\ renewals < MaxRenewals
  /\ overtaken' = (overtaken \/ \E u \in Threads : call[u].cond = c /\ call[u].op = "wait")
  /\ renewals' = renewals + 1
  /\ Calls(t, op, c, None, FALSE, "renew")

-----------------------------------------------------------------------------
(* host_cond_for_guest(address, true, &gate), as every block and wake starts *)

AfterLookup(op) ==
  CASE op = "wait" -> IF gated THEN "gateWait" ELSE "hostWait"
    [] op \in {"signal", "broadcast"} -> IF gated THEN "gateWake" ELSE "hostWake"
    [] OTHER -> "run"

Found(t, e) ==
  /\ Goes(t, AfterLookup(call[t].op))
  /\ call' = [call EXCEPT ![t] =
                IF @.op = "initialize" THEN Idle
                ELSE [@ EXCEPT !.host = e.condition, !.gate = e.gate]]
  /\ UNCHANGED <<tableLock, owner, owed, history>>

Lookup(t) ==
  LET c == call[t].cond IN
  /\ pc[t] = "lookup"
  /\ tableLock = None
  /\ entry[c] # NoEntry
  /\ Found(t, entry[c])
  /\ UNCHANGED <<registry, cond, gate>>

\* create_host_condition takes the last one recycled, else allocates; a gate is
\* always a new one.
LookupCreate(t) ==
  LET c == call[t].cond
      h == IF freeConds # <<>> THEN Head(freeConds) ELSE born + 1
      g == IF gated THEN gates + 1 ELSE 0 IN
  /\ pc[t] = "lookup"
  /\ tableLock = None
  /\ entry[c] = NoEntry
  /\ h <= Hosts /\ g <= Hosts
  /\ freeConds' = IF freeConds # <<>> THEN Tail(freeConds) ELSE freeConds
  /\ born' = IF freeConds # <<>> THEN born ELSE born + 1
  /\ cond' = [cond EXCEPT ![h] = [live |-> TRUE, life |-> @.life + 1]]
  /\ gates' = IF gated THEN g ELSE gates
  /\ entry' = [entry EXCEPT ![c] = [condition |-> h, gate |-> g]]
  /\ Found(t, entry'[c])
  /\ UNCHANGED <<gated, gate>>

-----------------------------------------------------------------------------
(* guest_cond_block *)

\* Without a gate: the host condition, waited on with the guest's own mutex.
HostWait(t) ==
  LET k == call[t] IN
  /\ pc[t] = "hostWait"
  /\ \/ /\ cond[k.host].live
        /\ owner' = [owner EXCEPT ![k.mutex] = None]
        /\ call' = [call EXCEPT ![t].life = cond[k.host].life]
        /\ Goes(t, "sleep")
     \/ /\ ~ cond[k.host].live  \* EINVAL
        /\ Returns(t)
        /\ UNCHANGED owner
  /\ UNCHANGED <<registry, cond, gate, tableLock, owed, history>>

\* A token left by a wake that found no waiter is consumed without dropping the
\* guest's mutex.
GateToken(t) ==
  LET g == call[t].gate IN
  /\ pc[t] = "gateWait"
  /\ gate[g].lock = None
  /\ gate[g].pending
  /\ gate' = [gate EXCEPT ![g].pending = FALSE]
  /\ owed' = [owed EXCEPT ![g] = FALSE]
  /\ Returns(t)
  /\ UNCHANGED <<registry, cond, tableLock, owner, history>>

GateEnterUncounted(t) ==
  LET g == call[t].gate IN
  /\ pc[t] = "gateWait"
  /\ gate[g].lock = None
  /\ ~ gate[g].pending
  /\ gate' = [gate EXCEPT ![g].lock = t]
  /\ owner' = [owner EXCEPT ![call[t].mutex] = None]
  /\ Goes(t, "park")
  /\ UNCHANGED <<registry, cond, tableLock, call, owed, history>>

GateEnter(t) ==
  LET g == call[t].gate IN
  /\ pc[t] = "gateWait"
  /\ gate[g].lock = None
  /\ ~ gate[g].pending
  /\ gate' = [gate EXCEPT ![g].lock = t, ![g].waiters = @ + 1]
  /\ owner' = [owner EXCEPT ![call[t].mutex] = None]
  /\ Goes(t, "park")
  /\ UNCHANGED <<registry, cond, tableLock, call, owed, history>>

\* pthread_cond_wait(condition, &gate->lock)
Park(t) ==
  LET k == call[t] IN
  /\ pc[t] = "park"
  /\ \/ /\ cond[k.host].live
        /\ gate' = [gate EXCEPT ![k.gate].lock = None]
        /\ call' = [call EXCEPT ![t].life = cond[k.host].life]
        /\ Goes(t, "sleep")
     \/ /\ ~ cond[k.host].live  \* EINVAL, the gate's lock kept
        /\ Goes(t, "leave")
        /\ UNCHANGED <<gate, call>>
  /\ UNCHANGED <<registry, cond, tableLock, owner, owed, history>>

\* The deadline passes, or the slice of a wait that has none.
Expire(t) ==
  /\ pc[t] = "sleep"
  /\ Goes(t, "woken")
  /\ UNCHANGED <<registry, cond, gate, tableLock, owner, call, owed, history>>

\* The host's wait retakes the gate's lock before it returns.
GateRetake(t) ==
  LET g == call[t].gate IN
  /\ pc[t] = "woken"
  /\ gated
  /\ gate[g].lock = None
  /\ gate' = [gate EXCEPT ![g].lock = t]
  /\ Goes(t, "leave")
  /\ UNCHANGED <<registry, cond, tableLock, owner, call, owed, history>>

GateLeaveForgets(t) ==
  LET g == call[t].gate IN
  /\ pc[t] = "leave"
  /\ gate' = [gate EXCEPT ![g].lock = None]
  /\ owed' = [owed EXCEPT ![g] = FALSE]
  /\ Goes(t, "relock")
  /\ UNCHANGED <<registry, cond, tableLock, owner, call, history>>

GateLeaveHolding(t) ==
  LET g == call[t].gate
      m == call[t].mutex IN
  /\ pc[t] = "leave"
  /\ owner[m] = None
  /\ owner' = [owner EXCEPT ![m] = t]
  /\ gate' = [gate EXCEPT ![g].lock = None, ![g].waiters = @ - 1]
  /\ owed' = [owed EXCEPT ![g] = FALSE]
  /\ Returns(t)
  /\ UNCHANGED <<registry, cond, tableLock, history>>

GateLeave(t) ==
  LET g == call[t].gate IN
  /\ pc[t] = "leave"
  /\ gate' = [gate EXCEPT ![g].lock = None, ![g].waiters = @ - 1]
  /\ owed' = [owed EXCEPT ![g] = FALSE]
  /\ Goes(t, "relock")
  /\ UNCHANGED <<registry, cond, tableLock, owner, call, history>>

\* The guest's mutex is retaken last; without a gate the host's wait does it.
Relock(t) ==
  LET m == call[t].mutex IN
  /\ pc[t] = "relock" \/ (pc[t] = "woken" /\ ~ gated)
  /\ owner[m] = None
  /\ owner' = [owner EXCEPT ![m] = t]
  /\ Returns(t)
  /\ UNCHANGED <<registry, cond, gate, tableLock, owed, history>>

-----------------------------------------------------------------------------
(* guest_cond_wake *)

Wakes(t, place) ==
  LET k == call[t] IN
  IF cond[k.host].live
  THEN IF k.op = "broadcast" THEN WakeAll(t, k.host, place) ELSE WakeOne(t, k.host, place)
  ELSE Goes(t, place)

HostWake(t) ==
  /\ pc[t] = "hostWake"
  /\ Wakes(t, "run")
  /\ call' = [call EXCEPT ![t] = Idle]
  /\ UNCHANGED <<registry, cond, gate, tableLock, owner, owed, history>>

GateWakeDrops(t) ==
  LET g == call[t].gate IN
  /\ pc[t] = "gateWake"
  /\ gate[g].lock = None
  /\ owed' = [owed EXCEPT ![g] =
                @ \/ gate[g].waiters = 0 \/ cond[call[t].host].live]
  /\ Wakes(t, "run")
  /\ call' = [call EXCEPT ![t] = Idle]
  /\ UNCHANGED <<registry, cond, gate, tableLock, owner, history>>

\* With no waiter the wake leaves a token; the check and the wake are under the
\* gate's lock.
GateWake(t) ==
  LET g == call[t].gate IN
  /\ pc[t] = "gateWake"
  /\ gate[g].lock = None
  /\ owed' = [owed EXCEPT ![g] =
                @ \/ gate[g].waiters = 0 \/ cond[call[t].host].live]
  /\ \/ /\ gate[g].waiters = 0
        /\ gate' = [gate EXCEPT ![g].pending = TRUE]
        /\ Goes(t, "run")
     \/ /\ gate[g].waiters > 0
        /\ Wakes(t, "run")
        /\ UNCHANGED gate
  /\ call' = [call EXCEPT ![t] = Idle]
  /\ UNCHANGED <<registry, cond, tableLock, owner, history>>

-----------------------------------------------------------------------------
(* guest_cond_initialize and guest_cond_destroy *)

\* An address not in the registry: destroy has nothing to do, initialize
\* registers it through host_cond_for_guest.
RenewUnknown(t) ==
  /\ pc[t] = "renew"
  /\ tableLock = None
  /\ entry[call[t].cond] = NoEntry
  /\ \/ call[t].op = "destroy" /\ Returns(t)
     \/ call[t].op = "initialize" /\ Goes(t, "lookup") /\ UNCHANGED call
  /\ UNCHANGED <<registry, cond, gate, tableLock, owner, owed, history>>

\* The broadcast that lets no waiter be left on the object, table lock held.
RenewBroadcast(t) ==
  LET h == entry[call[t].cond].condition IN
  /\ pc[t] = "renew"
  /\ tableLock = None
  /\ h # 0
  /\ tableLock' = t
  /\ WakeAll(t, h, "retire")
  /\ UNCHANGED <<registry, cond, gate, owner, call, owed, history>>

DestroyKeepsEntry(t) ==
  LET c == call[t].cond
      h == entry[c].condition IN
  /\ pc[t] = "retire"
  /\ call[t].op = "destroy"
  /\ cond' = [cond EXCEPT ![h].live = FALSE]
  /\ freeConds' = <<h>> \o freeConds
  /\ tableLock' = None
  /\ Returns(t)
  /\ UNCHANGED <<gated, entry, born, gates, gate, owner, owed, history>>

\* pthread_cond_destroy succeeds whoever waits; the entry goes, the gate stays.
Destroy(t) ==
  LET c == call[t].cond
      h == entry[c].condition IN
  /\ pc[t] = "retire"
  /\ call[t].op = "destroy"
  /\ cond' = [cond EXCEPT ![h].live = FALSE]
  /\ freeConds' = <<h>> \o freeConds
  /\ entry' = [entry EXCEPT ![c] = NoEntry]
  /\ tableLock' = None
  /\ Returns(t)
  /\ UNCHANGED <<gated, born, gates, gate, owner, owed, history>>

InitializeDestroys(t) ==
  LET h == entry[call[t].cond].condition IN
  /\ pc[t] = "retire"
  /\ call[t].op = "initialize"
  /\ cond' = [cond EXCEPT ![h].live = FALSE]
  /\ Goes(t, "revive")
  /\ UNCHANGED <<registry, gate, tableLock, owner, call, owed, history>>

InitializeRevives(t) ==
  LET h == entry[call[t].cond].condition IN
  /\ pc[t] = "revive"
  /\ cond' = [cond EXCEPT ![h] = [live |-> TRUE, life |-> @.life + 1]]
  /\ \/ gated /\ Goes(t, "clear") /\ UNCHANGED <<tableLock, call>>
     \/ ~ gated /\ Returns(t) /\ tableLock' = None
  /\ UNCHANGED <<registry, gate, owner, owed, history>>

\* Under the table's lock and the gate's.
InitializeClears(t) ==
  LET g == entry[call[t].cond].gate IN
  /\ pc[t] = "clear"
  /\ gate[g].lock = None
  /\ gate' = [gate EXCEPT ![g].pending = FALSE]
  /\ owed' = [owed EXCEPT ![g] = FALSE]
  /\ tableLock' = None
  /\ Returns(t)
  /\ UNCHANGED <<registry, cond, owner, history>>

-----------------------------------------------------------------------------
\* The steps of a call after the guest has made it.
Wait(t) ==
  \/ HostWait(t) \/ GateToken(t) \/ GateEnter(t) \/ Park(t)
  \/ GateRetake(t) \/ GateLeave(t) \/ Relock(t)
Renew(t) ==
  \/ RenewUnknown(t) \/ RenewBroadcast(t) \/ Destroy(t)
  \/ InitializeDestroys(t) \/ InitializeRevives(t) \/ InitializeClears(t)
Runs(t) ==
  Lookup(t) \/ LookupCreate(t) \/ Wait(t) \/ HostWake(t) \/ GateWake(t) \/ Renew(t)
Step(t) == Runs(t) \/ Expire(t)

Guest(t) ==
  \/ \E m \in Mutexes : Lock(t, m) \/ Unlock(t, m)
  \/ \E c \in Conds :
       \/ \E m \in Mutexes, timed \in Deadlines : WaitCall(t, c, m, timed)
       \/ \E op \in {"signal", "broadcast"} : WakeCall(t, c, op)
       \/ \E op \in {"initialize", "destroy"} : RenewCall(t, c, op)

Next == \E t \in Threads : Guest(t) \/ Step(t)

Spec == Init /\ [][Next]_vars


-----------------------------------------------------------------------------
Places == {"run", "lookup", "hostWait", "gateWait", "park", "sleep", "woken", "leave",
           "relock", "hostWake", "gateWake", "renew", "retire", "revive", "clear"}

\* The type invariant: registry, host conditions, gates and calls in progress.
TypeOK ==
  /\ gated \in BOOLEAN
  /\ entry \in [Conds -> [condition : 0 .. Hosts, gate : 0 .. Hosts]]
  /\ cond \in [Objects -> [live : BOOLEAN, life : Nat]]
  /\ freeConds \in Seq(Objects)
  /\ born \in 0 .. Hosts
  /\ gates \in 0 .. Hosts
  /\ gate \in [Objects -> [lock : Threads \cup {None}, waiters : Nat, pending : BOOLEAN]]
  /\ tableLock \in Threads \cup {None}
  /\ owner \in [Mutexes -> Threads \cup {None}]
  /\ pc \in [Threads -> Places]
  /\ call \in [Threads -> [op : {"none", "wait", "signal", "broadcast", "initialize", "destroy"},
                           cond : Conds \cup {None}, mutex : Mutexes \cup {None},
                           timed : BOOLEAN, host : 0 .. Hosts, gate : 0 .. Hosts, life : Nat]]
  /\ owed \in [Objects -> BOOLEAN]
  /\ renewals \in Nat
  /\ overtaken \in BOOLEAN

\* gate->waiters is the number of threads between their entry and their exit of
\* the wait, though they enter and leave across other threads' wakes, timeouts
\* and destroys; a count too high would turn every later wake into one that
\* leaves no token.
WaitersExact ==
  \A g \in Objects : gate[g].waiters = Cardinality(InWindow(g))

AwakeInWindow(g) == {t \in InWindow(g) : pc[t] # "sleep"}

\* A wake the gate accepted is never lost: until some wait on the condition
\* returns, there is a token for the next one or a waiter on its way out.  A
\* renewal that overtakes a wake may discard the token, never the waiters.
\* (As long as the guest renews no condition another thread waits on: a wait
\* overtaken by a destroy can end up asleep on the recycled host condition of a
\* later one and take that one's wake.)
WakeNotLost ==
  overtaken \/ \A g \in Objects : owed[g] => gate[g].pending \/ AwakeInWindow(g) # {}

Registered == {c \in Conds : entry[c] # NoEntry}

\* No two addresses share a host condition or a gate, none is registered while
\* on the free list, and the free list holds nothing twice: destroy, initialize
\* and the creation inside a wait or a wake cannot hand one object to two
\* conditions.  And a registered condition is a live one, except while the
\* initialize that is renewing it holds the table's lock, so no lookup ever
\* returns a dead one (the failure of the earlier destroy that
\* guest_cond_destroy's comment tells).
RegistrySound ==
  /\ \A c, d \in Registered : c # d =>
       /\ entry[c].condition # entry[d].condition
       /\ gated => entry[c].gate # entry[d].gate
  /\ \A i \in DOMAIN freeConds :
       /\ \A c \in Registered : entry[c].condition # freeConds[i]
       /\ \A j \in DOMAIN freeConds : i # j => freeConds[i] # freeConds[j]
  /\ \A c \in Registered :
       \/ cond[entry[c].condition].live
       \/ \E t \in Threads : tableLock = t /\ pc[t] = "revive" /\ call[t].cond = c

\* What makes the above inductive.  Where a call is tells what it is and which
\* objects it may use; the table's lock and a gate's lock are held where the
\* code holds them; what the registry names has been allocated; and a gate
\* belongs to one host condition for good, because no gate is used again.
WaitPlaces == {"hostWait", "gateWait", "park", "sleep", "woken", "leave", "relock"}
WakePlaces == {"hostWake", "gateWake"}
TablePlaces == {"retire", "revive", "clear"}

CallMatches(t) ==
  /\ pc[t] = "run" => call[t] = Idle
  /\ pc[t] # "run" => call[t].cond \in Conds
  /\ pc[t] = "lookup" =>
       call[t].op \in {"wait", "signal", "broadcast", "initialize"} /\ call[t].gate = 0
  /\ pc[t] \in WaitPlaces => call[t].op = "wait"
  /\ pc[t] \in WakePlaces => call[t].op \in {"signal", "broadcast"}
  /\ pc[t] \in TablePlaces \cup {"renew"} =>
       call[t].op \in {"initialize", "destroy"} /\ call[t].gate = 0
  /\ pc[t] \in WaitPlaces \cup WakePlaces =>
       /\ call[t].host \in Objects
       /\ IF gated THEN call[t].gate \in 1 .. gates ELSE call[t].gate = 0
  /\ pc[t] \in {"gateWait", "park", "leave", "gateWake", "clear"} => gated
  /\ pc[t] \in {"hostWait", "hostWake"} => ~ gated

CallsMatch == \A t \in Threads : CallMatches(t)

TableHeld ==
  \A t \in Threads : pc[t] \in TablePlaces =>
    tableLock = t /\ entry[call[t].cond] # NoEntry

GateHeld ==
  \A t \in Threads : pc[t] \in {"park", "leave"} => gate[call[t].gate].lock = t

Allocated ==
  /\ \A c \in Registered :
       /\ entry[c].condition \in 1 .. born
       /\ IF gated THEN entry[c].gate \in 1 .. gates ELSE entry[c].gate = 0
  /\ \A i \in DOMAIN freeConds : freeConds[i] \in 1 .. born

PairsKept ==
  \A t \in Threads : call[t].gate # 0 =>
    /\ \A c \in Registered :
         entry[c].gate = call[t].gate => entry[c].condition = call[t].host
    /\ \A u \in Threads : call[u].gate = call[t].gate => call[u].host = call[t].host

\* While nothing has been overtaken: no call renews what another waits on, a
\* wait is on what the registry names and asleep in its present life, and what
\* an accepted wake leaves behind is a token or a waiter that will return.
WaitsFresh ==
  /\ \A t, u \in Threads :
       call[t].op = "wait" /\ call[u].op \in {"initialize", "destroy"} =>
         call[t].cond # call[u].cond
  /\ \A t \in Threads : pc[t] \in WaitPlaces =>
       /\ entry[call[t].cond] = [condition |-> call[t].host, gate |-> call[t].gate]
       /\ pc[t] = "sleep" => call[t].life = cond[call[t].host].life

Returning(g) == {t \in InWindow(g) : pc[t] \in {"woken", "leave"}}

OwedMet == \A g \in Objects : owed[g] => gate[g].pending \/ Returning(g) # {}

CondInv ==
  /\ TypeOK /\ WaitersExact /\ RegistrySound
  /\ CallsMatch /\ TableHeld /\ GateHeld /\ Allocated /\ PairsKept
  /\ ~ overtaken => WaitsFresh /\ OwedMet

\* No order of the table's lock, a gate's lock and the guest's mutexes deadlocks:
\* a thread that holds the table's lock or a gate's can take its next step at
\* once, or waits for a gate whose holder can.  No guest mutex, which its holder
\* may keep for as long as it likes, is awaited under them.
LockHolderRuns ==
  /\ \A g \in Objects : gate[g].lock # None => ENABLED Runs(gate[g].lock)
  /\ tableLock # None =>
       ENABLED Runs(tableLock) \/ gate[entry[call[tableLock].cond].gate].lock # None

=============================================================================
