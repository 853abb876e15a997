---------------------------- MODULE GuestCondProofs ----------------------------
(***************************************************************************)
(* Proofs about GuestCond, for any number of threads, conditions, mutexes, *)
(* host objects and renewals: the registry never hands one host object to  *)
(* two conditions nor a dead one to anybody, the gates count their waiters *)
(* exactly, and no wake a gate accepted is lost while the guest renews no  *)
(* condition that another of its threads waits on.                         *)
(***************************************************************************)
EXTENDS GuestCond, FiniteSetTheorems, TLAPS

-----------------------------------------------------------------------------
(* What a step does to the threads *)

\* A step of t leaves every other thread where it was, or wakes it.
Others(t) ==
  \A u \in Threads \ {t} :
    call'[u] = call[u] /\ (pc'[u] = pc[u] \/ (pc[u] = "sleep" /\ pc'[u] = "woken"))

LEMMA GoesMoves ==
  ASSUME TypeOK, NEW t \in Threads, NEW place \in Places, Goes(t, place)
  PROVE  /\ pc' \in [Threads -> Places] /\ pc'[t] = place
         /\ \A u \in Threads \ {t} : pc'[u] = pc[u]
BY DEF TypeOK, Goes

LEMMA ReturnsMoves ==
  ASSUME TypeOK, NEW t \in Threads, Returns(t)
  PROVE  /\ pc' \in [Threads -> Places] /\ pc'[t] = "run" /\ call'[t] = Idle
         /\ \A u \in Threads \ {t} : pc'[u] = pc[u] /\ call'[u] = call[u]
BY DEF TypeOK, Goes, Returns, Places

\* A broadcast wakes every sleeper of the host condition, a signal at least one.
LEMMA WakesMoves ==
  ASSUME TypeOK, NEW t \in Threads, NEW place \in Places, NEW h, pc[t] # "sleep",
         WakeAll(t, h, place) \/ WakeOne(t, h, place)
  PROVE  /\ pc' \in [Threads -> Places] /\ pc'[t] = place
         /\ \A u \in Threads \ {t} :
              pc'[u] = pc[u] \/ (u \in Sleepers(h) /\ pc[u] = "sleep" /\ pc'[u] = "woken")
         /\ Sleepers(h) # {} => \E u \in Sleepers(h) : u # t /\ pc'[u] = "woken"
<1>1. t \notin Sleepers(h) /\ Sleepers(h) \subseteq Threads
      /\ \A u \in Sleepers(h) : pc[u] = "sleep"
  BY DEF Sleepers
<1>2. pc \in [Threads -> Places] /\ "woken" \in Places
  BY DEF TypeOK, Places
<1>3. CASE WakeAll(t, h, place)
  BY <1>1, <1>2, <1>3 DEF WakeAll
<1>4. CASE Sleepers(h) = {} /\ Goes(t, place)
  BY <1>1, <1>2, <1>4 DEF Goes
<1>5. CASE \E u \in Sleepers(h) : pc' = [pc EXCEPT ![t] = place, ![u] = "woken"]
  <2>1. PICK v \in Sleepers(h) : pc' = [pc EXCEPT ![t] = place, ![v] = "woken"]
    BY <1>5
  <2>2. v \in Threads /\ v # t /\ pc[v] = "sleep"
    BY <1>1
  <2>3. pc'[v] = "woken" /\ pc'[t] = place /\ pc' \in [Threads -> Places]
    BY <1>2, <2>1, <2>2
  <2>4. \A u \in Threads \ {t} : u # v => pc'[u] = pc[u]
    BY <1>2, <2>1, <2>2
  <2>5. QED
    BY <2>2, <2>3, <2>4
<1>6. QED
  BY <1>3, <1>4, <1>5 DEF WakeOne

\* What guest_cond_wake does to the threads, whichever kind of wake it is.
LEMMA WakeMoves ==
  ASSUME TypeOK, NEW t \in Threads, pc[t] # "sleep", Wakes(t, "run")
  PROVE  /\ pc' \in [Threads -> Places] /\ pc'[t] = "run"
         /\ \A u \in Threads \ {t} :
              pc'[u] = pc[u] \/ (pc[u] = "sleep" /\ pc'[u] = "woken")
         /\ cond[call[t].host].live /\ Sleepers(call[t].host) # {} =>
              \E u \in Sleepers(call[t].host) : u # t /\ pc'[u] = "woken"
<1>1. "run" \in Places
  BY DEF Places
<1>2. CASE cond[call[t].host].live
  <2>1. WakeAll(t, call[t].host, "run") \/ WakeOne(t, call[t].host, "run")
    BY <1>2 DEF Wakes
  <2>2. QED
    BY <1>1, <2>1, WakesMoves
<1>3. CASE ~ cond[call[t].host].live
  BY <1>1, <1>3, GoesMoves DEF Wakes
<1>4. QED
  BY <1>2, <1>3

LEMMA OthersStay ==
  ASSUME TypeOK, NEW t \in Threads, Guest(t) \/ Step(t)
  PROVE  Others(t)
<1>0. pc \in [Threads -> Places] /\ call = [u \in Threads |-> call[u]]
  BY DEF TypeOK
<1>1. ASSUME Guest(t) PROVE Others(t)
  BY <1>0, <1>1 DEF Guest, Lock, Unlock, WaitCall, WakeCall, RenewCall, Calls, Goes, Others
<1>2. ASSUME Lookup(t) \/ LookupCreate(t) PROVE Others(t)
  BY <1>0, <1>2 DEF Lookup, LookupCreate, Found, Goes, Others
<1>3. ASSUME Wait(t) PROVE Others(t)
  BY <1>0, <1>3 DEF Wait, HostWait, GateToken, GateEnter, Park, GateRetake, GateLeave, Relock,
     Returns, Goes, Others
<1>4. ASSUME HostWake(t) \/ GateWake(t) PROVE Others(t)
  <2>1. pc[t] # "sleep" /\ call' = [call EXCEPT ![t] = Idle]
    BY <1>4 DEF HostWake, GateWake
  <2>2. Wakes(t, "run") \/ Goes(t, "run")
    BY <1>4 DEF HostWake, GateWake
  <2>3. QED
    BY <1>0, <2>1, <2>2, WakeMoves DEF Goes, Others
<1>5. ASSUME RenewBroadcast(t) PROVE Others(t)
  <2>1. /\ pc[t] # "sleep" /\ call' = call /\ "retire" \in Places
        /\ WakeAll(t, entry[call[t].cond].condition, "retire")
    BY <1>5 DEF RenewBroadcast, Places
  <2>2. QED
    BY <2>1, WakesMoves DEF Others
<1>6. ASSUME \/ RenewUnknown(t) \/ Destroy(t) \/ InitializeDestroys(t)
             \/ InitializeRevives(t) \/ InitializeClears(t)
      PROVE  Others(t)
  BY <1>0, <1>6 DEF RenewUnknown, Destroy, InitializeDestroys, InitializeRevives,
     InitializeClears, Returns, Goes, Others
<1>7. ASSUME Expire(t) PROVE Others(t)
  BY <1>0, <1>7 DEF Expire, Goes, Others
<1>8. QED
  BY <1>1, <1>2, <1>3, <1>4, <1>5, <1>6, <1>7 DEF Step, Runs, Renew

-----------------------------------------------------------------------------
(* Types *)

CallRecords ==
  [op : {"none", "wait", "signal", "broadcast", "initialize", "destroy"},
   cond : Conds \cup {None}, mutex : Mutexes \cup {None},
   timed : BOOLEAN, host : 0 .. Hosts, gate : 0 .. Hosts, life : Nat]

GateRecords == [lock : Threads \cup {None}, waiters : Nat, pending : BOOLEAN]

LEMMA IdleIsACall == Idle \in CallRecords
BY CondAssumption DEF Idle, CallRecords

\* A wait in progress is counted.
LEMMA WindowFinite ==
  ASSUME TypeOK, WaitersExact, NEW g \in Objects
  PROVE  /\ IsFiniteSet(InWindow(g)) /\ gate[g].waiters = Cardinality(InWindow(g))
         /\ Cardinality(InWindow(g)) \in Nat
         /\ InWindow(g) # {} <=> gate[g].waiters > 0
<1>1. IsFiniteSet(InWindow(g))
  BY CondAssumption, FS_Subset DEF InWindow
<1>2. gate[g].waiters = Cardinality(InWindow(g))
  BY DEF WaitersExact
<1>3. Cardinality(InWindow(g)) \in Nat
  BY <1>1, FS_CardinalityType
<1>4. InWindow(g) = {} <=> Cardinality(InWindow(g)) = 0
  BY <1>1, FS_EmptySet
<1>5. QED
  BY <1>1, <1>2, <1>3, <1>4

\* The object a lookup that creates takes, and what it leaves to recycle.
LEMMA CreatedObject ==
  ASSUME TypeOK, NEW h, h = (IF freeConds # <<>> THEN Head(freeConds) ELSE born + 1),
         h <= Hosts
  PROVE  /\ h \in Objects
         /\ freeConds # <<>> => Tail(freeConds) \in Seq(Objects)
         /\ freeConds = <<>> => born + 1 \in 0 .. Hosts
<1>1. freeConds \in Seq(Objects) /\ born \in 0 .. Hosts /\ Hosts \in Nat
  BY CondAssumption DEF TypeOK
<1>2. CASE freeConds # <<>>
  BY <1>1, <1>2
<1>3. CASE freeConds = <<>>
  BY <1>1, <1>3 DEF Objects
<1>4. QED
  BY <1>2, <1>3

LEMMA TypeKept ==
  ASSUME TypeOK, WaitersExact, CallsMatch, TableHeld, Allocated, NEW t \in Threads, Guest(t) \/ Step(t)
  PROVE  TypeOK'
<1>0. /\ call \in [Threads -> CallRecords] /\ call[t] \in CallRecords
      /\ pc \in [Threads -> Places]
      /\ owner \in [Mutexes -> Threads \cup {None}]
      /\ cond \in [Objects -> [live : BOOLEAN, life : Nat]]
      /\ gate \in [Objects -> GateRecords]
      /\ owed \in [Objects -> BOOLEAN]
  BY DEF TypeOK, CallRecords, GateRecords
<1>1. ASSUME NEW m \in Mutexes, Lock(t, m) \/ Unlock(t, m) PROVE TypeOK'
  BY <1>0, <1>1 DEF Lock, Unlock, registry, history, TypeOK
<1>2. ASSUME NEW c \in Conds, NEW m \in Mutexes \cup {None}, NEW timed \in BOOLEAN,
             NEW op \in {"wait", "signal", "broadcast", "initialize", "destroy"},
             NEW place \in Places, Calls(t, op, c, m, timed, place)
      PROVE  /\ pc' \in [Threads -> Places] /\ call' \in [Threads -> CallRecords]
             /\ UNCHANGED <<registry, cond, gate, tableLock, owner, owed>>
  <2>1. [Idle EXCEPT !.op = op, !.cond = c, !.mutex = m, !.timed = timed] \in CallRecords
    <3>1. [Idle EXCEPT !.op = op, !.cond = c] \in CallRecords
      BY <1>2, IdleIsACall DEF CallRecords
    <3>2. \A r \in CallRecords : [r EXCEPT !.mutex = m, !.timed = timed] \in CallRecords
      BY <1>2 DEF CallRecords
    <3>3. QED
      BY <3>1, <3>2
  <2>2. call' \in [Threads -> CallRecords]
    BY <1>0, <1>2, <2>1 DEF Calls
  <2>3. QED
    BY <1>2, <2>2, GoesMoves DEF Calls
<1>3. ASSUME NEW c \in Conds, NEW m \in Mutexes, NEW timed \in Deadlines,
             WaitCall(t, c, m, timed)
      PROVE  TypeOK'
  <2>1. /\ overtaken' \in BOOLEAN /\ renewals' = renewals
        /\ Calls(t, "wait", c, m, timed, "lookup") /\ timed \in BOOLEAN /\ "lookup" \in Places
    BY <1>3, CondAssumption DEF WaitCall, TypeOK, Places
  <2>2. /\ pc' \in [Threads -> Places] /\ call' \in [Threads -> CallRecords]
        /\ UNCHANGED <<registry, cond, gate, tableLock, owner, owed>>
    BY <1>2, <2>1
  <2>3. QED
    BY <2>1, <2>2 DEF registry, TypeOK, CallRecords
<1>4. ASSUME NEW c \in Conds, NEW op \in {"signal", "broadcast"}, WakeCall(t, c, op)
      PROVE  TypeOK'
  <2>1. /\ UNCHANGED history /\ Calls(t, op, c, None, FALSE, "lookup") /\ "lookup" \in Places
    BY <1>4 DEF WakeCall, Places
  <2>2. /\ pc' \in [Threads -> Places] /\ call' \in [Threads -> CallRecords]
        /\ UNCHANGED <<registry, cond, gate, tableLock, owner, owed>>
    BY <1>2, <2>1
  <2>3. QED
    BY <2>1, <2>2 DEF registry, history, TypeOK, CallRecords
<1>5. ASSUME NEW c \in Conds, NEW op \in {"initialize", "destroy"}, RenewCall(t, c, op)
      PROVE  TypeOK'
  <2>1. /\ overtaken' \in BOOLEAN /\ renewals' \in Nat
        /\ Calls(t, op, c, None, FALSE, "renew") /\ "renew" \in Places
    <3>1. renewals' \in Nat
      BY <1>5 DEF RenewCall, TypeOK
    <3>2. overtaken' \in BOOLEAN /\ Calls(t, op, c, None, FALSE, "renew")
      BY <1>5 DEF RenewCall
    <3>3. "renew" \in Places
      BY DEF Places
    <3>4. QED
      BY <3>1, <3>2, <3>3
  <2>2. /\ pc' \in [Threads -> Places] /\ call' \in [Threads -> CallRecords]
        /\ UNCHANGED <<registry, cond, gate, tableLock, owner, owed>>
    BY <1>2, <2>1
  <2>3. QED
    BY <2>1, <2>2 DEF registry, TypeOK, CallRecords
<1>6. ASSUME NEW e \in [condition : 0 .. Hosts, gate : 0 .. Hosts], Found(t, e)
      PROVE  /\ pc' \in [Threads -> Places] /\ call' \in [Threads -> CallRecords]
             /\ UNCHANGED <<tableLock, owner, owed, history>>
  <2>1. AfterLookup(call[t].op) \in Places
    BY DEF AfterLookup, Places
  <2>2. [call[t] EXCEPT !.host = e.condition, !.gate = e.gate] \in CallRecords
    BY <1>0 DEF CallRecords
  <2>3. call' \in [Threads -> CallRecords]
    BY <1>0, <1>6, <2>2, IdleIsACall DEF Found
  <2>4. QED
    BY <1>6, <2>1, <2>3, GoesMoves DEF Found
<1>7. ASSUME Lookup(t) PROVE TypeOK'
  <2>1. entry[call[t].cond] \in [condition : 0 .. Hosts, gate : 0 .. Hosts]
    BY <1>7 DEF Lookup, CallsMatch, CallMatches, TypeOK
  <2>2. QED
    BY <1>6, <1>7, <2>1 DEF Lookup, registry, history, TypeOK, CallRecords
<1>8. ASSUME LookupCreate(t) PROVE TypeOK'
  <2> DEFINE c == call[t].cond
             h == IF freeConds # <<>> THEN Head(freeConds) ELSE born + 1
             g == IF gated THEN gates + 1 ELSE 0
  <2>1. c \in Conds /\ h <= Hosts /\ g <= Hosts /\ g \in 0 .. Hosts
    BY <1>8, CondAssumption DEF LookupCreate, CallsMatch, CallMatches, TypeOK
  <2>2. /\ h \in Objects
        /\ freeConds # <<>> => Tail(freeConds) \in Seq(Objects)
        /\ freeConds = <<>> => born + 1 \in 0 .. Hosts
    BY <2>1, CreatedObject
  <2>3. /\ freeConds' = (IF freeConds # <<>> THEN Tail(freeConds) ELSE freeConds)
        /\ born' = (IF freeConds # <<>> THEN born ELSE born + 1)
        /\ cond' = [cond EXCEPT ![h] = [live |-> TRUE, life |-> @.life + 1]]
        /\ gates' = (IF gated THEN g ELSE gates)
        /\ entry' = [entry EXCEPT ![c] = [condition |-> h, gate |-> g]]
        /\ Found(t, entry'[c])
        /\ UNCHANGED <<gated, gate>>
    BY <1>8 DEF LookupCreate
  <2> HIDE DEF h, g, c
  <2>4. entry' \in [Conds -> [condition : 0 .. Hosts, gate : 0 .. Hosts]]
    BY <2>1, <2>2, <2>3 DEF TypeOK, Objects
  <2>5. entry'[c] \in [condition : 0 .. Hosts, gate : 0 .. Hosts]
    BY <2>1, <2>4
  <2>6. cond' \in [Objects -> [live : BOOLEAN, life : Nat]]
    <3>1. [live |-> TRUE, life |-> cond[h].life + 1] \in [live : BOOLEAN, life : Nat]
      BY <1>0, <2>2
    <3>2. QED
      BY <1>0, <2>2, <2>3, <3>1
  <2>7. freeConds' \in Seq(Objects) /\ born' \in 0 .. Hosts /\ gates' \in 0 .. Hosts
    BY <2>1, <2>2, <2>3 DEF TypeOK
  <2>8. QED
    BY <1>6, <2>3, <2>4, <2>5, <2>6, <2>7 DEF history, TypeOK, CallRecords
<1>9. ASSUME NEW g \in Objects, NEW k \in Threads \cup {None}
      PROVE  /\ gate[g].waiters \in Nat
             /\ [gate[g] EXCEPT !.lock = k] \in GateRecords
             /\ [gate[g] EXCEPT !.pending = TRUE] \in GateRecords
             /\ [gate[g] EXCEPT !.pending = FALSE] \in GateRecords
             /\ [gate[g] EXCEPT !.lock = k, !.waiters = @ + 1] \in GateRecords
             /\ gate[g].waiters > 0 =>
                  [gate[g] EXCEPT !.lock = k, !.waiters = @ - 1] \in GateRecords
  <2>1. gate[g] \in GateRecords
    BY <1>0
  <2>2. gate[g].waiters \in Nat
    BY <2>1 DEF GateRecords
  <2>3. [gate[g] EXCEPT !.lock = k] \in GateRecords
    BY <2>1 DEF GateRecords
  <2>4. /\ [gate[g] EXCEPT !.pending = TRUE] \in GateRecords
        /\ [gate[g] EXCEPT !.pending = FALSE] \in GateRecords
    BY <2>1 DEF GateRecords
  <2>5. \A n \in Nat : [gate[g] EXCEPT !.lock = k, !.waiters = n] \in GateRecords
    BY <2>1 DEF GateRecords
  <2>6. gate[g].waiters + 1 \in Nat /\ (gate[g].waiters > 0 => gate[g].waiters - 1 \in Nat)
    BY <2>2
  <2>7. QED
    BY <2>2, <2>3, <2>4, <2>5, <2>6, Zenon
<1>10. ASSUME HostWait(t) PROVE TypeOK'
  <2>1. call[t].host \in Objects /\ call[t].op = "wait"
    BY <1>10 DEF HostWait, CallsMatch, CallMatches, WaitPlaces
  <2>2. cond[call[t].host].life \in Nat
    BY <1>0, <2>1
  <2>3. pc' \in [Threads -> Places]
    BY <1>10, GoesMoves, ReturnsMoves DEF HostWait, Places
  <2>4. call' \in [Threads -> CallRecords]
    <3>1. [call[t] EXCEPT !.life = cond[call[t].host].life] \in CallRecords
      BY <1>0, <2>2 DEF CallRecords
    <3>2. QED
      BY <1>0, <1>10, <3>1, IdleIsACall DEF HostWait, Returns
  <2>5. owner' \in [Mutexes -> Threads \cup {None}]
    BY <1>0, <1>10 DEF HostWait
  <2>6. QED
    BY <1>10, <2>3, <2>4, <2>5 DEF HostWait, registry, history, TypeOK, CallRecords
<1>11. ASSUME pc[t] \in {"gateWait", "park", "leave", "gateWake"} \/ (pc[t] = "woken" /\ gated)
       PROVE  call[t].gate \in Objects /\ call[t].host \in Objects
  BY <1>11 DEF CallsMatch, CallMatches, WaitPlaces, WakePlaces, TypeOK, Objects
<1>12. ASSUME GateToken(t) PROVE TypeOK'
  <2>1. pc' \in [Threads -> Places] /\ call' \in [Threads -> CallRecords]
    BY <1>0, <1>12, ReturnsMoves, IdleIsACall DEF GateToken, Returns
  <2>2. call[t].gate \in Objects
    BY <1>11, <1>12 DEF GateToken
  <2>3. gate' \in [Objects -> GateRecords] /\ owed' \in [Objects -> BOOLEAN]
    BY <1>0, <1>9, <1>12, <2>2 DEF GateToken
  <2>4. QED
    BY <1>12, <2>1, <2>3 DEF GateToken, registry, history, TypeOK, CallRecords, GateRecords
<1>13. ASSUME GateEnter(t) PROVE TypeOK'
  <2>1. pc' \in [Threads -> Places]
    BY <1>13, GoesMoves DEF GateEnter, Places
  <2>2. call[t].gate \in Objects
    BY <1>11, <1>13 DEF GateEnter
  <2>3. gate' \in [Objects -> GateRecords]
    BY <1>0, <1>9, <1>13, <2>2 DEF GateEnter
  <2>4. owner' \in [Mutexes -> Threads \cup {None}]
    BY <1>0, <1>13 DEF GateEnter
  <2>5. QED
    BY <1>13, <2>1, <2>3, <2>4 DEF GateEnter, registry, history, TypeOK, GateRecords
<1>14. ASSUME Park(t) PROVE TypeOK'
  <2>1. call[t].host \in Objects /\ call[t].gate \in Objects
    BY <1>11, <1>14 DEF Park
  <2>2. pc' \in [Threads -> Places]
    BY <1>14, GoesMoves DEF Park, Places
  <2>3. gate' \in [Objects -> GateRecords]
    <3>1. [gate[call[t].gate] EXCEPT !.lock = None] \in GateRecords
      BY <1>9, <2>1
    <3>2. QED
      BY <1>0, <1>14, <2>1, <3>1 DEF Park
  <2>4. call' \in [Threads -> CallRecords]
    <3>1. [call[t] EXCEPT !.life = cond[call[t].host].life] \in CallRecords
      BY <1>0, <2>1 DEF CallRecords
    <3>2. QED
      BY <1>0, <1>14, <3>1 DEF Park
  <2>5. QED
    BY <1>14, <2>2, <2>3, <2>4 DEF Park, registry, history, TypeOK, CallRecords, GateRecords
<1>15. ASSUME Expire(t) PROVE TypeOK'
  BY <1>15, GoesMoves DEF Expire, Places, registry, history, TypeOK
<1>16. ASSUME GateRetake(t) PROVE TypeOK'
  <2>1. pc' \in [Threads -> Places]
    BY <1>16, GoesMoves DEF GateRetake, Places
  <2>2. call[t].gate \in Objects
    BY <1>11, <1>16 DEF GateRetake
  <2>3. gate' \in [Objects -> GateRecords]
    BY <1>0, <1>9, <1>16, <2>2 DEF GateRetake
  <2>4. QED
    BY <1>16, <2>1, <2>3 DEF GateRetake, registry, history, TypeOK, GateRecords
<1>17. ASSUME GateLeave(t) PROVE TypeOK'
  <2>1. pc' \in [Threads -> Places]
    BY <1>17, GoesMoves DEF GateLeave, Places
  <2>2. call[t].gate \in Objects
    BY <1>11, <1>17 DEF GateLeave
  <2>3. gate[call[t].gate].waiters > 0
    <3>1. t \in InWindow(call[t].gate)
      BY <1>17 DEF GateLeave, InWindow
    <3>2. QED
      BY <2>2, <3>1, WindowFinite
  <2>4. gate' \in [Objects -> GateRecords]
    BY <1>0, <1>9, <1>17, <2>2, <2>3 DEF GateLeave
  <2>5. owed' \in [Objects -> BOOLEAN]
    BY <1>0, <1>17 DEF GateLeave
  <2>6. QED
    BY <1>17, <2>1, <2>4, <2>5 DEF GateLeave, registry, history, TypeOK, GateRecords
<1>18. ASSUME Relock(t) PROVE TypeOK'
  <2>1. pc' \in [Threads -> Places] /\ call' \in [Threads -> CallRecords]
    BY <1>0, <1>18, ReturnsMoves, IdleIsACall DEF Relock, Returns
  <2>2. owner' \in [Mutexes -> Threads \cup {None}]
    BY <1>0, <1>18 DEF Relock
  <2>3. QED
    BY <1>18, <2>1, <2>2 DEF Relock, registry, history, TypeOK, CallRecords
<1>19. ASSUME HostWake(t) PROVE TypeOK'
  <2>1. pc' \in [Threads -> Places] /\ call' \in [Threads -> CallRecords]
    BY <1>0, <1>19, WakeMoves, IdleIsACall DEF HostWake
  <2>2. QED
    BY <1>19, <2>1 DEF HostWake, registry, history, TypeOK, CallRecords
<1>20. ASSUME GateWake(t) PROVE TypeOK'
  <2>1. pc' \in [Threads -> Places] /\ call' \in [Threads -> CallRecords]
    BY <1>0, <1>20, WakeMoves, GoesMoves, IdleIsACall DEF GateWake, Places
  <2>2. call[t].host \in Objects /\ call[t].gate \in Objects
    BY <1>11, <1>20 DEF GateWake
  <2>3. gate' \in [Objects -> GateRecords]
    BY <1>0, <1>9, <1>20, <2>2 DEF GateWake
  <2>4. owed' \in [Objects -> BOOLEAN]
    <3>1. cond[call[t].host].live \in BOOLEAN /\ owed[call[t].gate] \in BOOLEAN
      BY <1>0, <2>2
    <3>2. QED
      BY <1>0, <1>20, <2>2, <3>1 DEF GateWake
  <2>5. QED
    BY <1>20, <2>1, <2>3, <2>4 DEF GateWake, registry, history, TypeOK, CallRecords, GateRecords
<1>21. ASSUME RenewUnknown(t) PROVE TypeOK'
  <2>1. pc' \in [Threads -> Places] /\ call' \in [Threads -> CallRecords]
    BY <1>0, <1>21, GoesMoves, ReturnsMoves, IdleIsACall DEF RenewUnknown, Returns, Places
  <2>2. QED
    BY <1>21, <2>1 DEF RenewUnknown, registry, history, TypeOK, CallRecords
<1>22. ASSUME RenewBroadcast(t) PROVE TypeOK'
  <2>1. pc' \in [Threads -> Places]
    BY <1>22, WakesMoves DEF RenewBroadcast, Places
  <2>2. QED
    BY <1>22, <2>1 DEF RenewBroadcast, registry, history, TypeOK
<1>23. ASSUME pc[t] \in TablePlaces
       PROVE  /\ call[t].cond \in Conds /\ entry[call[t].cond].condition \in Objects
              /\ gated => entry[call[t].cond].gate \in Objects
  <2>1. call[t].cond \in Conds
    BY <1>23 DEF TablePlaces, CallsMatch, CallMatches
  <2>2. call[t].cond \in Registered
    BY <1>23, <2>1 DEF TableHeld, Registered
  <2>3. QED
    BY <2>1, <2>2, CondAssumption DEF Allocated, TypeOK, Objects
<1>24. ASSUME NEW h \in Objects, NEW b \in BOOLEAN, NEW l \in Nat, NEW new,
              new \in {[live |-> b, life |-> l], [cond[h] EXCEPT !.live = b]},
              cond' = [cond EXCEPT ![h] = new]
       PROVE  cond' \in [Objects -> [live : BOOLEAN, life : Nat]]
  <2>1. new \in [live : BOOLEAN, life : Nat]
    BY <1>0, <1>24
  <2>2. QED
    BY <1>0, <1>24, <2>1
<1>25. ASSUME Destroy(t) PROVE TypeOK'
  <2>1. pc' \in [Threads -> Places] /\ call' \in [Threads -> CallRecords]
    BY <1>0, <1>25, ReturnsMoves, IdleIsACall DEF Destroy, Returns
  <2>2. call[t].cond \in Conds /\ entry[call[t].cond].condition \in Objects
    BY <1>23, <1>25 DEF Destroy, TablePlaces
  <2>3. cond' \in [Objects -> [live : BOOLEAN, life : Nat]]
    BY <1>24, <1>25, <2>2 DEF Destroy
  <2>4. freeConds' \in Seq(Objects)
    BY <1>25, <2>2 DEF Destroy, TypeOK
  <2>5. entry' \in [Conds -> [condition : 0 .. Hosts, gate : 0 .. Hosts]]
    <3>1. NoEntry \in [condition : 0 .. Hosts, gate : 0 .. Hosts]
      BY CondAssumption DEF NoEntry
    <3>2. QED
      BY <1>25, <3>1 DEF Destroy, TypeOK
  <2>6. QED
    BY <1>25, <2>1, <2>3, <2>4, <2>5 DEF Destroy, history, TypeOK, CallRecords
<1>26. ASSUME InitializeDestroys(t) PROVE TypeOK'
  <2>1. pc' \in [Threads -> Places]
    BY <1>26, GoesMoves DEF InitializeDestroys, Places
  <2>2. cond' \in [Objects -> [live : BOOLEAN, life : Nat]]
    BY <1>23, <1>24, <1>26 DEF InitializeDestroys, TablePlaces
  <2>3. QED
    BY <1>26, <2>1, <2>2 DEF InitializeDestroys, registry, history, TypeOK
<1>27. ASSUME InitializeRevives(t) PROVE TypeOK'
  <2>1. pc' \in [Threads -> Places] /\ call' \in [Threads -> CallRecords]
    BY <1>0, <1>27, GoesMoves, ReturnsMoves, IdleIsACall, SMTT(30) DEF InitializeRevives, Returns, Places
  <2>2. cond' \in [Objects -> [live : BOOLEAN, life : Nat]]
    <3>1. entry[call[t].cond].condition \in Objects
      BY <1>23, <1>27 DEF InitializeRevives, TablePlaces
    <3>2. cond[entry[call[t].cond].condition].life + 1 \in Nat
      BY <1>0, <3>1
    <3>3. QED
      BY <1>24, <1>27, <3>1, <3>2 DEF InitializeRevives
  <2>3. tableLock' \in Threads \cup {None}
    BY <1>27 DEF InitializeRevives, TypeOK
  <2>4. QED
    BY <1>27, <2>1, <2>2, <2>3 DEF InitializeRevives, registry, history, TypeOK, CallRecords
<1>28. ASSUME InitializeClears(t), gated PROVE TypeOK'
  <2>1. pc' \in [Threads -> Places] /\ call' \in [Threads -> CallRecords]
    BY <1>0, <1>28, ReturnsMoves, IdleIsACall DEF InitializeClears, Returns
  <2>2. entry[call[t].cond].gate \in Objects
    BY <1>23, <1>28 DEF InitializeClears, TablePlaces
  <2>3. gate' \in [Objects -> GateRecords] /\ owed' \in [Objects -> BOOLEAN]
    BY <1>0, <1>9, <1>28, <2>2 DEF InitializeClears
  <2>4. QED
    BY <1>28, <2>1, <2>3 DEF InitializeClears, registry, history, TypeOK, CallRecords, GateRecords
<1>29. InitializeClears(t) => gated
  BY DEF InitializeClears, CallsMatch, CallMatches
<1>30. QED
  <2>1. CASE Guest(t)
    BY <1>1, <1>3, <1>4, <1>5, <2>1 DEF Guest
  <2>2. CASE Step(t)
    BY <1>7, <1>8, <1>10, <1>12, <1>13, <1>14, <1>15, <1>16, <1>17, <1>18, <1>19, <1>20, <1>21,
       <1>22, <1>25, <1>26, <1>27, <1>28, <1>29, <2>2 DEF Step, Runs, Wait, Renew
  <2>3. QED
    BY <2>1, <2>2

-----------------------------------------------------------------------------
(* The calls and the locks *)

\* Only a lookup that creates and a destroy touch the registry.
LEMMA RegistryMoves ==
  ASSUME NEW t \in Threads, Guest(t) \/ Step(t)
  PROVE  /\ gated' = gated
         /\ UNCHANGED <<entry, freeConds, born, gates>> \/ LookupCreate(t) \/ Destroy(t)
<1>1. ASSUME Guest(t) PROVE UNCHANGED registry
  BY <1>1 DEF Guest, Lock, Unlock, WaitCall, WakeCall, RenewCall, Calls
<1>2. CASE Step(t)
  BY <1>2 DEF Step, Runs, Lookup, LookupCreate, Wait, HostWait, GateToken, GateEnter, Park,
     GateRetake, GateLeave, Relock, HostWake, GateWake, Renew, RenewUnknown, RenewBroadcast,
     Destroy, InitializeDestroys, InitializeRevives, InitializeClears, Expire, registry
<1>3. QED
  BY <1>1, <1>2 DEF registry

LEMMA GatesGrow ==
  ASSUME TypeOK, NEW t \in Threads, Guest(t) \/ Step(t)
  PROVE  gates' \in Nat /\ gates \in Nat /\ gates <= gates' /\ gated' = gated
<1>1. gates \in Nat
  BY CondAssumption DEF TypeOK
<1>2. CASE UNCHANGED <<entry, freeConds, born, gates>>
  BY <1>1, <1>2, RegistryMoves
<1>3. CASE LookupCreate(t)
  <2>1. gated' = gated /\ gates' = IF gated THEN IF gated THEN gates + 1 ELSE 0 ELSE gates
    BY <1>3 DEF LookupCreate
  <2>2. QED
    BY <1>1, <2>1
<1>4. CASE Destroy(t)
  BY <1>1, <1>4 DEF Destroy
<1>5. QED
  BY <1>2, <1>3, <1>4, RegistryMoves

\* What a lookup returns matches the call that made it.
LEMMA FoundMatches ==
  ASSUME TypeOK, CallsMatch, NEW t \in Threads, pc[t] = "lookup", NEW e, Found(t, e),
         gated' = gated, e.condition \in Objects,
         IF gated THEN e.gate \in 1 .. gates' ELSE e.gate = 0
  PROVE  CallMatches(t)'
<1>1. /\ pc'[t] = AfterLookup(call[t].op)
      /\ call'[t] = (IF call[t].op = "initialize" THEN Idle
                     ELSE [call[t] EXCEPT !.host = e.condition, !.gate = e.gate])
  BY DEF Found, Goes, TypeOK
<1>2. call[t].op \in {"wait", "signal", "broadcast", "initialize"} /\ call[t].cond \in Conds
  BY DEF CallsMatch, CallMatches
<1>3. CASE call[t].op = "initialize"
  BY <1>1, <1>3 DEF AfterLookup, CallMatches, WaitPlaces, WakePlaces, TablePlaces
<1>4. CASE call[t].op # "initialize"
  <2>1. /\ call'[t].op = call[t].op /\ call'[t].cond = call[t].cond
        /\ call'[t].host = e.condition /\ call'[t].gate = e.gate
    BY <1>1, <1>4 DEF TypeOK
  <2>2. CASE call[t].op = "wait"
    BY <1>1, <1>2, <2>1, <2>2 DEF AfterLookup, CallMatches, WaitPlaces, WakePlaces, TablePlaces
  <2>3. CASE call[t].op \in {"signal", "broadcast"}
    BY <1>1, <1>2, <2>1, <2>3 DEF AfterLookup, CallMatches, WaitPlaces, WakePlaces, TablePlaces
  <2>4. QED
    BY <1>2, <1>4, <2>2, <2>3
<1>5. QED
  BY <1>3, <1>4

LEMMA CallsKept ==
  ASSUME TypeOK, CallsMatch, Allocated, NEW t \in Threads, Guest(t) \/ Step(t)
  PROVE  CallsMatch'
<1>0. /\ call = [u \in Threads |-> call[u]] /\ pc \in [Threads -> Places]
      /\ gates' \in Nat /\ gates \in Nat /\ gates <= gates' /\ gated' = gated
      /\ CallMatches(t)
  BY GatesGrow DEF TypeOK, CallsMatch
<1>1. ASSUME NEW u \in Threads \ {t}
      PROVE  CallMatches(u)'
  <2>1. /\ call'[u] = call[u] /\ CallMatches(u)
        /\ pc'[u] = pc[u] \/ (pc[u] = "sleep" /\ pc'[u] = "woken")
    BY OthersStay DEF Others, CallsMatch
  <2>2. CASE pc'[u] = pc[u]
    BY <1>0, <2>1, <2>2 DEF CallMatches
  <2>3. CASE pc[u] = "sleep" /\ pc'[u] = "woken"
    BY <1>0, <2>1, <2>3 DEF CallMatches, WaitPlaces, WakePlaces, TablePlaces
  <2>4. QED
    BY <2>1, <2>2, <2>3
<1>2. ASSUME pc'[t] = "run", call'[t] = Idle
      PROVE  CallMatches(t)'
  BY <1>2 DEF CallMatches, WaitPlaces, WakePlaces, TablePlaces
<1>3. ASSUME Returns(t)
      PROVE  CallMatches(t)'
  BY <1>2, <1>3, ReturnsMoves
<1>4. ASSUME Guest(t)
      PROVE  CallMatches(t)'
  <2>1. ASSUME NEW m \in Mutexes, Lock(t, m) \/ Unlock(t, m)
        PROVE  CallMatches(t)'
    BY <1>0, <2>1 DEF Lock, Unlock, CallMatches
  <2>2. ASSUME NEW c \in Conds, NEW op, NEW m, NEW timed, NEW place, Calls(t, op, c, m, timed, place),
               \/ place = "lookup" /\ op \in {"wait", "signal", "broadcast"}
               \/ place = "renew" /\ op \in {"initialize", "destroy"}
        PROVE  CallMatches(t)'
    <3>1. pc'[t] = place /\ call'[t].op = op /\ call'[t].cond = c /\ call'[t].gate = 0
      BY <1>0, <2>2 DEF Calls, Goes, Idle
    <3>2. QED
      BY <2>2, <3>1 DEF CallMatches, WaitPlaces, WakePlaces, TablePlaces
  <2>3. QED
    BY <1>4, <2>1, <2>2 DEF Guest, WaitCall, WakeCall, RenewCall
<1>5. ASSUME Lookup(t)
      PROVE  CallMatches(t)'
  <2>1. call[t].cond \in Registered
    BY <1>0, <1>5 DEF Lookup, CallMatches, Registered
  <2>2. /\ entry[call[t].cond].condition \in Objects
        /\ IF gated THEN entry[call[t].cond].gate \in 1 .. gates'
           ELSE entry[call[t].cond].gate = 0
    BY <1>0, <2>1, CondAssumption, SMTT(30) DEF Allocated, TypeOK, Objects
  <2>3. QED
    BY <1>0, <1>5, <2>2, FoundMatches DEF Lookup
<1>6. ASSUME LookupCreate(t)
      PROVE  CallMatches(t)'
  <2> DEFINE c == call[t].cond
             h == IF freeConds # <<>> THEN Head(freeConds) ELSE born + 1
             g == IF gated THEN gates + 1 ELSE 0
  <2>1. /\ pc[t] = "lookup" /\ h <= Hosts
        /\ gates' = (IF gated THEN g ELSE gates)
        /\ entry' = [entry EXCEPT ![c] = [condition |-> h, gate |-> g]]
        /\ Found(t, entry'[c])
    BY <1>6 DEF LookupCreate
  <2>2. c \in Conds /\ h \in Objects
    BY <1>0, <2>1, CreatedObject DEF CallMatches
  <2>3. IF gated THEN g \in 1 .. gates' ELSE g = 0
    BY <1>0, <2>1
  <2> HIDE DEF c, h, g
  <2>4. entry'[c].condition = h /\ entry'[c].gate = g
    BY <2>1, <2>2 DEF TypeOK
  <2>5. QED
    BY <1>0, <2>1, <2>2, <2>3, <2>4, FoundMatches
<1>7. ASSUME HostWait(t)
      PROVE  CallMatches(t)'
  <2>1. CASE Returns(t)
    BY <1>3, <2>1
  <2>2. CASE call' = [call EXCEPT ![t].life = cond[call[t].host].life] /\ Goes(t, "sleep")
    <3>1. /\ pc[t] = "hostWait" /\ pc'[t] = "sleep"
          /\ call'[t].op = call[t].op /\ call'[t].cond = call[t].cond
          /\ call'[t].host = call[t].host /\ call'[t].gate = call[t].gate
      BY <1>0, <1>7, <2>2, ZenonT(60) DEF HostWait, Goes, TypeOK
    <3>2. QED
      BY <1>0, <3>1 DEF CallMatches, WaitPlaces, WakePlaces, TablePlaces
  <2>3. QED
    BY <1>7, <2>1, <2>2 DEF HostWait
<1>8. ASSUME Park(t)
      PROVE  CallMatches(t)'
  <2>1. /\ pc[t] = "park" /\ pc'[t] \in {"sleep", "leave"}
        /\ call'[t].op = call[t].op /\ call'[t].cond = call[t].cond
        /\ call'[t].host = call[t].host /\ call'[t].gate = call[t].gate
    BY <1>0, <1>8, SMTT(30) DEF Park, Goes, TypeOK
  <2>2. QED
    BY <1>0, <2>1 DEF CallMatches, WaitPlaces, WakePlaces, TablePlaces
<1>9. ASSUME NEW place, Goes(t, place), call' = call,
             \/ pc[t] \in WaitPlaces /\ place \in {"sleep", "woken", "relock"}
             \/ pc[t] \in WaitPlaces /\ gated /\ place \in {"park", "leave"}
             \/ pc[t] = "retire" /\ place = "revive"
             \/ pc[t] = "revive" /\ gated /\ place = "clear"
             \/ pc[t] = "renew" /\ call[t].op = "initialize" /\ place = "lookup"
      PROVE  CallMatches(t)'
  <2>1. pc'[t] = place /\ call'[t] = call[t]
    BY <1>0, <1>9 DEF Goes
  <2>2. QED
    BY <1>0, <1>9, <2>1 DEF CallMatches, WaitPlaces, WakePlaces, TablePlaces
<1>10. ASSUME GateEnter(t) \/ GateRetake(t) \/ GateLeave(t) \/ Expire(t)
       PROVE  CallMatches(t)'
  BY <1>0, <1>9, <1>10 DEF GateEnter, GateRetake, GateLeave, Expire, WaitPlaces, CallMatches
<1>11. ASSUME \/ GateToken(t) \/ Relock(t) \/ Destroy(t) \/ InitializeClears(t)
       PROVE  CallMatches(t)'
  BY <1>3, <1>11 DEF GateToken, Relock, Destroy, InitializeClears
<1>12. ASSUME HostWake(t) \/ GateWake(t)
       PROVE  CallMatches(t)'
  <2>1. pc[t] # "sleep" /\ call'[t] = Idle /\ (Wakes(t, "run") \/ Goes(t, "run"))
    BY <1>0, <1>12 DEF HostWake, GateWake
  <2>2. pc'[t] = "run"
    BY <1>0, <2>1, WakeMoves DEF Goes
  <2>3. QED
    BY <1>2, <2>1, <2>2
<1>13. ASSUME RenewUnknown(t) \/ InitializeDestroys(t) \/ InitializeRevives(t)
       PROVE  CallMatches(t)'
  BY <1>3, <1>9, <1>13 DEF RenewUnknown, InitializeDestroys, InitializeRevives
<1>14. ASSUME RenewBroadcast(t)
       PROVE  CallMatches(t)'
  <2>1. /\ pc[t] = "renew" /\ call' = call /\ "retire" \in Places
        /\ WakeAll(t, entry[call[t].cond].condition, "retire")
    BY <1>14 DEF RenewBroadcast, Places
  <2>2. pc'[t] = "retire" /\ call'[t] = call[t]
    BY <2>1, WakesMoves
  <2>3. QED
    BY <1>0, <2>1, <2>2 DEF CallMatches, WaitPlaces, WakePlaces, TablePlaces
<1>15. CallMatches(t)'
  BY <1>4, <1>5, <1>6, <1>7, <1>8, <1>10, <1>11, <1>12, <1>13, <1>14
     DEF Step, Runs, Wait, Renew
<1>16. QED
  BY <1>1, <1>15 DEF CallsMatch

\* The table's lock is taken by the broadcast and given up by the thread that
\* took it.
LEMMA TableMoves ==
  ASSUME TypeOK, NEW t \in Threads, Guest(t) \/ Step(t)
  PROVE  \/ tableLock' = tableLock /\ (pc'[t] \in TablePlaces => pc[t] \in TablePlaces /\ call' = call)
         \/ tableLock = None /\ RenewBroadcast(t)
         \/ pc[t] \in TablePlaces /\ pc'[t] = "run"
<1>0. pc \in [Threads -> Places] /\ call \in [Threads -> CallRecords]
  BY DEF TypeOK, CallRecords
<1>1. ASSUME Guest(t)
      PROVE  tableLock' = tableLock /\ pc'[t] \notin TablePlaces
  BY <1>0, <1>1 DEF Guest, Lock, Unlock, WaitCall, WakeCall, RenewCall, Calls, Goes, TablePlaces
<1>2. ASSUME Lookup(t) \/ LookupCreate(t)
      PROVE  tableLock' = tableLock /\ pc'[t] \notin TablePlaces
  BY <1>0, <1>2 DEF Lookup, LookupCreate, Found, Goes, AfterLookup, TablePlaces
<1>3. ASSUME Wait(t)
      PROVE  tableLock' = tableLock /\ pc'[t] \notin TablePlaces
  BY <1>0, <1>3 DEF Wait, HostWait, GateToken, GateEnter, Park, GateRetake, GateLeave, Relock,
     Returns, Goes, TablePlaces
<1>4. ASSUME HostWake(t) \/ GateWake(t)
      PROVE  tableLock' = tableLock /\ pc'[t] \notin TablePlaces
  <2>1. pc[t] # "sleep" /\ tableLock' = tableLock /\ (Wakes(t, "run") \/ Goes(t, "run"))
    BY <1>4 DEF HostWake, GateWake
  <2>2. pc'[t] = "run"
    BY <1>0, <2>1, WakeMoves DEF Goes
  <2>3. QED
    BY <2>1, <2>2 DEF TablePlaces
<1>5. ASSUME RenewUnknown(t) \/ Expire(t)
      PROVE  tableLock' = tableLock /\ pc'[t] \notin TablePlaces
  BY <1>0, <1>5 DEF RenewUnknown, Expire, Returns, Goes, TablePlaces
<1>6. ASSUME Destroy(t) \/ InitializeClears(t)
      PROVE  pc[t] \in TablePlaces /\ pc'[t] = "run"
  BY <1>0, <1>6 DEF Destroy, InitializeClears, Returns, Goes, TablePlaces
<1>7. ASSUME InitializeDestroys(t)
      PROVE  tableLock' = tableLock /\ pc[t] \in TablePlaces /\ call' = call
  BY <1>7 DEF InitializeDestroys, TablePlaces
<1>8. ASSUME InitializeRevives(t)
      PROVE  \/ tableLock' = tableLock /\ pc[t] \in TablePlaces /\ call' = call
             \/ pc[t] \in TablePlaces /\ pc'[t] = "run"
  BY <1>0, <1>8 DEF InitializeRevives, Returns, Goes, TablePlaces
<1>9. RenewBroadcast(t) => tableLock = None
  BY DEF RenewBroadcast
<1>10. QED
  BY <1>1, <1>2, <1>3, <1>4, <1>5, <1>6, <1>7, <1>8, <1>9 DEF Step, Runs, Renew

LEMMA TableKept ==
  ASSUME TypeOK, CallsMatch, TableHeld, NEW t \in Threads, Guest(t) \/ Step(t)
  PROVE  TableHeld'
<1>0. None \notin Threads
  BY CondAssumption
<1>1. ASSUME NEW u \in Threads \ {t}, pc'[u] \in TablePlaces
      PROVE  tableLock' = u /\ entry'[call'[u].cond] # NoEntry
  <2>1. pc[u] \in TablePlaces /\ call'[u] = call[u]
    BY <1>1, OthersStay DEF Others, TablePlaces
  <2>2. tableLock = u /\ entry[call[u].cond] # NoEntry
    BY <2>1 DEF TableHeld
  <2>3. pc[t] \notin TablePlaces
    BY <2>2 DEF TableHeld
  <2>4. tableLock' = tableLock
    BY <1>0, <2>2, <2>3, TableMoves
  <2>5. entry' = entry
    <3>1. ~ LookupCreate(t) /\ ~ Destroy(t)
      BY <1>0, <2>2, <2>3 DEF LookupCreate, Destroy, TablePlaces
    <3>2. QED
      BY <3>1, RegistryMoves
  <2>6. QED
    BY <2>1, <2>2, <2>4, <2>5
<1>2. ASSUME pc'[t] \in TablePlaces
      PROVE  tableLock' = t /\ entry'[call'[t].cond] # NoEntry
  <2>1. CASE tableLock' = tableLock /\ pc[t] \in TablePlaces /\ call' = call
    <3>1. tableLock = t /\ entry[call[t].cond] # NoEntry
      BY <2>1 DEF TableHeld
    <3>2. ~ LookupCreate(t)
      BY <2>1 DEF LookupCreate, TablePlaces
    <3>3. ~ Destroy(t)
      BY <1>2, ReturnsMoves DEF Destroy, TablePlaces
    <3>4. entry' = entry
      BY <3>2, <3>3, RegistryMoves
    <3>5. QED
      BY <2>1, <3>1, <3>4
  <2>2. CASE RenewBroadcast(t)
    <3>1. tableLock' = t /\ entry' = entry /\ call' = call /\ entry[call[t].cond].condition # 0
      BY <2>2 DEF RenewBroadcast, registry
    <3>2. QED
      BY <3>1 DEF NoEntry
  <2>3. pc'[t] # "run"
    BY <1>2 DEF TablePlaces
  <2>4. QED
    BY <1>2, <2>1, <2>2, <2>3, TableMoves
<1>3. QED
  BY <1>1, <1>2 DEF TableHeld

\* Each gate belongs to the wait that t is in, but for the one initialize clears.
LEMMA GateMoves ==
  ASSUME TypeOK, NEW t \in Threads, Guest(t) \/ Step(t), NEW g \in Objects
  PROVE  \/ gate'[g] = gate[g]
         \/ /\ GateToken(t) /\ call[t].gate = g
            /\ gate'[g].lock = gate[g].lock /\ gate'[g].waiters = gate[g].waiters
         \/ GateEnter(t) /\ call[t].gate = g
         \/ /\ Park(t) /\ call[t].gate = g /\ gate'[g].lock = None
            /\ gate'[g].waiters = gate[g].waiters /\ gate'[g].pending = gate[g].pending
         \/ /\ GateRetake(t) /\ call[t].gate = g
            /\ gate'[g].waiters = gate[g].waiters /\ gate'[g].pending = gate[g].pending
         \/ GateLeave(t) /\ call[t].gate = g
         \/ /\ GateWake(t) /\ call[t].gate = g /\ gate'[g].pending
            /\ gate'[g].lock = gate[g].lock /\ gate'[g].waiters = gate[g].waiters
         \/ /\ InitializeClears(t)
            /\ gate'[g].lock = gate[g].lock /\ gate'[g].waiters = gate[g].waiters
<1>0. gate \in [Objects -> GateRecords] /\ gate[g] \in GateRecords
  BY DEF TypeOK, GateRecords
<1>1. ASSUME Guest(t) PROVE gate' = gate
  BY <1>1 DEF Guest, Lock, Unlock, WaitCall, WakeCall, RenewCall, Calls
<1>2. ASSUME \/ Lookup(t) \/ LookupCreate(t) \/ HostWait(t) \/ Relock(t) \/ HostWake(t)
             \/ RenewUnknown(t) \/ RenewBroadcast(t) \/ Destroy(t) \/ InitializeDestroys(t)
             \/ InitializeRevives(t) \/ Expire(t)
      PROVE  gate' = gate
  BY <1>2 DEF Lookup, LookupCreate, HostWait, Relock, HostWake, RenewUnknown, RenewBroadcast,
     Destroy, InitializeDestroys, InitializeRevives, Expire
<1>3. ASSUME NEW h, h # g, NEW r, gate' = [gate EXCEPT ![h] = r] PROVE gate'[g] = gate[g]
  BY <1>0, <1>3
<1>4. CASE call[t].gate # g /\ (GateToken(t) \/ GateEnter(t) \/ Park(t) \/ GateRetake(t)
                                  \/ GateLeave(t) \/ GateWake(t))
  BY <1>0, <1>4 DEF GateToken, GateEnter, Park, GateRetake, GateLeave, GateWake
<1>5. CASE call[t].gate = g /\ GateToken(t)
  BY <1>0, <1>5 DEF GateToken, GateRecords
<1>6. CASE call[t].gate = g /\ Park(t)
  BY <1>0, <1>6 DEF Park, GateRecords
<1>7. CASE call[t].gate = g /\ GateRetake(t)
  BY <1>0, <1>7 DEF GateRetake, GateRecords
<1>8. CASE call[t].gate = g /\ GateWake(t)
  BY <1>0, <1>8 DEF GateWake, GateRecords
<1>9. CASE InitializeClears(t)
  BY <1>0, <1>9 DEF InitializeClears, GateRecords
<1>10. QED
  BY <1>1, <1>2, <1>4, <1>5, <1>6, <1>7, <1>8, <1>9 DEF Step, Runs, Wait, Renew

LEMMA GateHeldKept ==
  ASSUME TypeOK, CallsMatch, GateHeld, NEW t \in Threads, Guest(t) \/ Step(t)
  PROVE  GateHeld'
<1>0. /\ None \notin Threads /\ gate \in [Objects -> GateRecords]
      /\ pc \in [Threads -> Places] /\ call \in [Threads -> CallRecords]
  BY CondAssumption DEF TypeOK, GateRecords, CallRecords
<1>1. ASSUME NEW u \in Threads, pc[u] \in {"gateWait", "park", "leave"} \/ (pc[u] = "woken" /\ gated)
      PROVE  call[u].gate \in Objects
  BY <1>1, CondAssumption DEF CallsMatch, CallMatches, WaitPlaces, TypeOK, Objects
<1>2. ASSUME NEW u \in Threads \ {t}, pc'[u] \in {"park", "leave"}
      PROVE  gate'[call'[u].gate].lock = u
  <2>1. pc[u] \in {"park", "leave"} /\ call'[u] = call[u]
    BY <1>2, OthersStay DEF Others
  <2>2. gate[call[u].gate].lock = u /\ call[u].gate \in Objects
    BY <1>1, <2>1 DEF GateHeld
  <2>3. ~ (call[t].gate = call[u].gate /\ (GateEnter(t) \/ GateRetake(t) \/ Park(t) \/ GateLeave(t)))
    BY <1>0, <2>2 DEF GateEnter, GateRetake, Park, GateLeave, GateHeld
  <2>4. gate'[call[u].gate].lock = gate[call[u].gate].lock
    BY <2>2, <2>3, GateMoves
  <2>5. QED
    BY <2>1, <2>2, <2>4
<1>3. ASSUME GateEnter(t) \/ GateRetake(t)
      PROVE  gate'[call'[t].gate].lock = t
  <2>1. call[t].gate \in Objects /\ call' = call
    BY <1>1, <1>3 DEF GateEnter, GateRetake
  <2>2. QED
    BY <1>0, <1>3, <2>1 DEF GateEnter, GateRetake, GateRecords
<1>4. ASSUME Park(t), pc'[t] \in {"park", "leave"}
      PROVE  gate'[call'[t].gate].lock = t
  <2>1. pc[t] = "park" /\ gate' = gate /\ call' = call
    BY <1>0, <1>4 DEF Park, Goes
  <2>2. QED
    BY <2>1 DEF GateHeld
<1>5. ASSUME pc'[t] \in {"park", "leave"}
      PROVE  GateEnter(t) \/ GateRetake(t) \/ Park(t) \/ (pc'[t] = pc[t] /\ UNCHANGED <<gate, call>>)
  <2>1. CASE Guest(t)
    BY <1>0, <1>5, <2>1
       DEF Guest, Lock, Unlock, WaitCall, WakeCall, RenewCall, Calls, Goes
  <2>2. CASE Lookup(t) \/ LookupCreate(t)
    BY <1>0, <1>5, <2>2 DEF Lookup, LookupCreate, Found, AfterLookup, Goes
  <2>3. CASE HostWait(t) \/ GateToken(t) \/ GateLeave(t) \/ Relock(t) \/ Expire(t)
    BY <1>0, <1>5, <2>3 DEF HostWait, GateToken, GateLeave, Relock, Expire, Returns, Goes
  <2>4. CASE HostWake(t) \/ GateWake(t)
    <3>1. pc[t] # "sleep" /\ (Wakes(t, "run") \/ Goes(t, "run"))
      BY <2>4 DEF HostWake, GateWake
    <3>2. pc'[t] = "run"
      BY <1>0, <3>1, WakeMoves DEF Goes
    <3>3. QED
      BY <1>5, <3>2
  <2>5. CASE \/ RenewUnknown(t) \/ Destroy(t) \/ InitializeDestroys(t)
             \/ InitializeRevives(t) \/ InitializeClears(t)
    BY <1>0, <1>5, <2>5 DEF RenewUnknown, Destroy, InitializeDestroys, InitializeRevives,
       InitializeClears, Returns, Goes
  <2>6. CASE RenewBroadcast(t)
    <3>1. pc'[t] = "retire"
      BY <2>6, WakesMoves DEF RenewBroadcast, Places
    <3>2. QED
      BY <1>5, <3>1
  <2>7. QED
    BY <2>1, <2>2, <2>3, <2>4, <2>5, <2>6 DEF Step, Runs, Wait, Renew
<1>6. ASSUME pc'[t] \in {"park", "leave"}
      PROVE  gate'[call'[t].gate].lock = t
  BY <1>3, <1>4, <1>5, <1>6 DEF GateHeld
<1>7. QED
  BY <1>2, <1>6 DEF GateHeld

-----------------------------------------------------------------------------
(* The waiters' count *)

\* Only the entry into a wait and the exit from it change who is counted.
LEMMA WindowMoves ==
  ASSUME TypeOK, CallsMatch, NEW t \in Threads, Guest(t) \/ Step(t), NEW g \in Objects,
         NEW u \in Threads,
         ~ (u = t /\ call[t].gate = g /\ (GateEnter(t) \/ GateLeave(t)))
  PROVE  (u \in InWindow(g))' <=> u \in InWindow(g)
<1>0. /\ pc \in [Threads -> Places] /\ call \in [Threads -> CallRecords]
      /\ CallMatches(t) /\ 0 \notin Objects
  BY DEF TypeOK, CallRecords, CallsMatch, Objects
<1>1. CASE u # t
  BY <1>1, OthersStay DEF Others, InWindow
<1>2. CASE u = t
  <2>1. ASSUME pc[t] \notin {"park", "sleep", "woken", "leave"},
               pc'[t] \notin {"park", "sleep", "woken", "leave"}
        PROVE  (t \in InWindow(g))' <=> t \in InWindow(g)
    BY <2>1 DEF InWindow
  <2>2. CASE Guest(t)
    <3>1. pc[t] = "run" /\ pc'[t] \in {"run", "lookup", "renew"}
      BY <1>0, <2>2 DEF Guest, Lock, Unlock, WaitCall, WakeCall, RenewCall, Calls, Goes
    <3>2. QED
      BY <1>2, <2>1, <3>1
  <2>3. CASE Lookup(t) \/ LookupCreate(t)
    <3>1. pc[t] = "lookup" /\ pc'[t] \in {"gateWait", "hostWait", "gateWake", "hostWake", "run"}
      BY <1>0, <2>3 DEF Lookup, LookupCreate, Found, AfterLookup, Goes
    <3>2. QED
      BY <1>2, <2>1, <3>1
  <2>4. CASE HostWait(t)
    <3>1. pc[t] = "hostWait" /\ call[t].gate = 0
      BY <1>0, <2>4 DEF HostWait, CallMatches, WaitPlaces
    <3>2. call'[t].gate = 0
      BY <1>0, <2>4, <3>1 DEF HostWait, Returns, Idle, CallRecords
    <3>3. QED
      BY <1>0, <1>2, <3>1, <3>2 DEF InWindow
  <2>5. CASE Park(t)
    <3>1. /\ pc[t] = "park" /\ pc'[t] \in {"sleep", "leave"}
          /\ call'[t].gate = call[t].gate
      BY <1>0, <2>5 DEF Park, Goes, CallRecords
    <3>2. QED
      BY <1>2, <3>1 DEF InWindow
  <2>6. CASE GateRetake(t) \/ Expire(t)
    <3>1. pc[t] \in {"sleep", "woken"} /\ pc'[t] \in {"woken", "leave"} /\ call' = call
      BY <1>0, <2>6 DEF GateRetake, Expire, Goes
    <3>2. QED
      BY <1>2, <3>1 DEF InWindow
  <2>7. CASE GateToken(t)
    BY <1>0, <1>2, <2>1, <2>7 DEF GateToken, Returns, Goes
  <2>8. CASE GateEnter(t) \/ GateLeave(t)
    <3>1. call' = call /\ call[t].gate # g
      BY <1>2, <2>8 DEF GateEnter, GateLeave
    <3>2. QED
      BY <1>2, <3>1 DEF InWindow
  <2>9. CASE Relock(t)
    <3>1. t \notin InWindow(g)
      BY <1>0, <2>9 DEF Relock, InWindow, CallMatches, WaitPlaces
    <3>2. pc'[t] = "run"
      BY <2>9, ReturnsMoves DEF Relock
    <3>3. QED
      BY <1>2, <3>1, <3>2 DEF InWindow
  <2>10. CASE HostWake(t) \/ GateWake(t)
    <3>1. pc[t] \in {"hostWake", "gateWake"} /\ (Wakes(t, "run") \/ Goes(t, "run"))
      BY <2>10 DEF HostWake, GateWake
    <3>2. pc'[t] = "run"
      BY <1>0, <3>1, WakeMoves DEF Goes
    <3>3. QED
      BY <1>2, <2>1, <3>1, <3>2
  <2>11. CASE Renew(t)
    <3>1. pc[t] \in {"renew", "retire", "revive", "clear"}
      BY <2>11 DEF Renew, RenewUnknown, RenewBroadcast, Destroy, InitializeDestroys,
         InitializeRevives, InitializeClears
    <3>2. pc'[t] \in {"run", "lookup", "retire", "revive", "clear"}
      <4>1. CASE RenewBroadcast(t)
        BY <4>1, WakesMoves DEF RenewBroadcast, Places
      <4>2. CASE ~ RenewBroadcast(t)
        BY <1>0, <2>11, <4>2 DEF Renew, RenewUnknown, Destroy, InitializeDestroys,
           InitializeRevives, InitializeClears, Returns, Goes
      <4>3. QED
        BY <4>1, <4>2
    <3>3. QED
      BY <1>2, <2>1, <3>1, <3>2
  <2>12. QED
    BY <2>2, <2>3, <2>4, <2>5, <2>6, <2>7, <2>8, <2>9, <2>10, <2>11 DEF Step, Runs, Wait
<1>3. QED
  BY <1>1, <1>2

LEMMA WaitersKept ==
  ASSUME TypeOK, CallsMatch, WaitersExact, NEW t \in Threads, Guest(t) \/ Step(t)
  PROVE  WaitersExact'
<1> SUFFICES ASSUME NEW g \in Objects
             PROVE  gate'[g].waiters = Cardinality(InWindow(g)')
  BY DEF WaitersExact
<1>0. /\ gate[g] \in GateRecords /\ gate \in [Objects -> GateRecords]
      /\ pc \in [Threads -> Places]
      /\ InWindow(g) \subseteq Threads /\ InWindow(g)' \subseteq Threads
  BY DEF TypeOK, GateRecords, InWindow
<1>1. /\ IsFiniteSet(InWindow(g)) /\ gate[g].waiters = Cardinality(InWindow(g))
      /\ gate[g].waiters \in Nat
  BY WindowFinite
<1>2. CASE GateEnter(t) /\ call[t].gate = g
  <2>1. t \notin InWindow(g)
    BY <1>2 DEF GateEnter, InWindow
  <2>2. (t \in InWindow(g))'
    BY <1>0, <1>2 DEF GateEnter, Goes, InWindow
  <2>3. \A u \in Threads : u # t => ((u \in InWindow(g))' <=> u \in InWindow(g))
    BY WindowMoves
  <2>4. InWindow(g)' = InWindow(g) \cup {t}
    BY <1>0, <2>1, <2>2, <2>3
  <2>5. gate'[g].waiters = gate[g].waiters + 1
    BY <1>0, <1>2 DEF GateEnter, GateRecords
  <2>6. QED
    BY <1>1, <2>1, <2>4, <2>5, FS_AddElement
<1>3. CASE GateLeave(t) /\ call[t].gate = g
  <2>1. t \in InWindow(g)
    BY <1>3 DEF GateLeave, InWindow
  <2>2. ~ (t \in InWindow(g))'
    BY <1>0, <1>3 DEF GateLeave, Goes, InWindow
  <2>3. \A u \in Threads : u # t => ((u \in InWindow(g))' <=> u \in InWindow(g))
    BY WindowMoves
  <2>4. InWindow(g)' = InWindow(g) \ {t}
    BY <1>0, <2>1, <2>2, <2>3
  <2>5. gate'[g].waiters = gate[g].waiters - 1
    BY <1>0, <1>3 DEF GateLeave, GateRecords
  <2>6. QED
    BY <1>1, <2>1, <2>4, <2>5, FS_RemoveElement, ZenonT(40)
<1>4. CASE ~ (call[t].gate = g /\ (GateEnter(t) \/ GateLeave(t)))
  <2>1. \A u \in Threads : (u \in InWindow(g))' <=> u \in InWindow(g)
    BY <1>4, WindowMoves
  <2>2. InWindow(g)' = InWindow(g)
    BY <1>0, <2>1
  <2>3. gate'[g].waiters = gate[g].waiters
    BY <1>4, GateMoves
  <2>4. QED
    BY <1>1, <2>2, <2>3
<1>5. QED
  BY <1>2, <1>3, <1>4

-----------------------------------------------------------------------------
(* The registry *)

RegistryInv == RegistrySound /\ Allocated /\ TableHeld /\ CallsMatch

LEMMA HeadAndTail ==
  ASSUME NEW S, NEW s \in Seq(S), s # <<>>
  PROVE  /\ 1 \in DOMAIN s /\ Head(s) = s[1]
         /\ Tail(s) \in Seq(S)
         /\ \A i \in DOMAIN Tail(s) : i + 1 \in DOMAIN s /\ i + 1 # 1 /\ Tail(s)[i] = s[i + 1]
         /\ \A i, j \in DOMAIN Tail(s) : i # j => i + 1 # j + 1
<1>1. Len(s) \in Nat /\ Len(s) > 0 /\ DOMAIN s = 1 .. Len(s)
  OBVIOUS
<1>2. Tail(s) \in Seq(S) /\ Len(Tail(s)) = Len(s) - 1 /\ DOMAIN Tail(s) = 1 .. Len(s) - 1
  BY <1>1
<1>3. \A i \in 1 .. Len(s) - 1 : Tail(s)[i] = s[i + 1]
  BY <1>1
<1>4. QED
  BY <1>1, <1>2, <1>3

LEMMA Pushed ==
  ASSUME NEW S, NEW s \in Seq(S), NEW x \in S
  PROVE  /\ <<x>> \o s \in Seq(S)
         /\ \A i \in DOMAIN (<<x>> \o s) :
              \/ i = 1 /\ (<<x>> \o s)[i] = x
              \/ i # 1 /\ i - 1 \in DOMAIN s /\ (<<x>> \o s)[i] = s[i - 1]
         /\ \A i, j \in DOMAIN (<<x>> \o s) : i # j => i - 1 # j - 1
<1>1. /\ <<x>> \o s \in Seq(S) /\ Len(<<x>> \o s) = 1 + Len(s) /\ Len(s) \in Nat
      /\ DOMAIN (<<x>> \o s) = 1 .. 1 + Len(s) /\ DOMAIN s = 1 .. Len(s)
  OBVIOUS
<1>2. \A i \in 1 .. 1 + Len(s) :
        (<<x>> \o s)[i] = IF i = 1 THEN x ELSE s[i - 1]
  OBVIOUS
<1>3. QED
  BY <1>1, <1>2

\* What a lookup that creates does: an address gets a host condition that no
\* other has and that leaves the free list, and a gate that was never used.
LEMMA CreateMoves ==
  ASSUME TypeOK, RegistryInv, NEW t \in Threads, LookupCreate(t)
  PROVE  \E h \in Objects, g \in 0 .. Hosts :
           /\ call[t].cond \in Conds /\ call[t].cond \notin Registered /\ tableLock = None
           /\ h \in 1 .. born' /\ born \in Nat /\ born' \in Nat /\ born <= born'
           /\ IF gated THEN g = gates + 1 /\ gates' = gates + 1 ELSE g = 0 /\ gates' = gates
           /\ gated' = gated /\ gates \in Nat
           /\ entry' = [entry EXCEPT ![call[t].cond] = [condition |-> h, gate |-> g]]
           /\ cond' = [cond EXCEPT ![h] = [live |-> TRUE, life |-> @.life + 1]]
           /\ \A c \in Registered : entry[c].condition # h
           /\ \A i \in DOMAIN freeConds' : freeConds'[i] # h
           /\ \A i \in DOMAIN freeConds' : \E j \in DOMAIN freeConds : freeConds'[i] = freeConds[j]
           /\ \A i, j \in DOMAIN freeConds' : i # j => freeConds'[i] # freeConds'[j]
           /\ Found(t, [condition |-> h, gate |-> g])
<1> DEFINE c == call[t].cond
           h == IF freeConds # <<>> THEN Head(freeConds) ELSE born + 1
           g == IF gated THEN gates + 1 ELSE 0
<1>0. /\ RegistrySound /\ Allocated /\ CallsMatch
      /\ freeConds \in Seq(Objects) /\ born \in Nat /\ gates \in Nat /\ Hosts \in Nat
      /\ entry \in [Conds -> [condition : 0 .. Hosts, gate : 0 .. Hosts]]
  BY CondAssumption DEF RegistryInv, TypeOK
<1>1. /\ pc[t] = "lookup" /\ tableLock = None /\ entry[c] = NoEntry
      /\ h <= Hosts /\ g <= Hosts
      /\ freeConds' = (IF freeConds # <<>> THEN Tail(freeConds) ELSE freeConds)
      /\ born' = (IF freeConds # <<>> THEN born ELSE born + 1)
      /\ cond' = [cond EXCEPT ![h] = [live |-> TRUE, life |-> @.life + 1]]
      /\ gates' = (IF gated THEN g ELSE gates)
      /\ entry' = [entry EXCEPT ![c] = [condition |-> h, gate |-> g]]
      /\ Found(t, entry'[c])
      /\ gated' = gated
  BY DEF LookupCreate
<1>2. c \in Conds /\ c \notin Registered
  BY <1>0, <1>1 DEF CallsMatch, CallMatches, Registered
<1>3. h \in Objects /\ g \in 0 .. Hosts
  BY <1>0, <1>1, CreatedObject
<1>4. /\ h \in 1 .. born' /\ born' \in Nat /\ born <= born'
      /\ \A d \in Registered : entry[d].condition # h
      /\ \A i \in DOMAIN freeConds' : freeConds'[i] # h
      /\ \A i \in DOMAIN freeConds' : \E j \in DOMAIN freeConds : freeConds'[i] = freeConds[j]
      /\ \A i, j \in DOMAIN freeConds' : i # j => freeConds'[i] # freeConds'[j]
  <2>1. CASE freeConds # <<>>
    <3>1. /\ h = freeConds[1] /\ 1 \in DOMAIN freeConds /\ freeConds' = Tail(freeConds)
          /\ born' = born
          /\ \A i \in DOMAIN freeConds' :
               i + 1 \in DOMAIN freeConds /\ i + 1 # 1 /\ freeConds'[i] = freeConds[i + 1]
          /\ \A i, j \in DOMAIN freeConds' : i # j => i + 1 # j + 1
      BY <1>0, <1>1, <2>1, HeadAndTail
    <3>2. h \in 1 .. born
      BY <1>0, <3>1 DEF Allocated
    <3>3. \A d \in Registered : entry[d].condition # h
      BY <1>0, <3>1 DEF RegistrySound
    <3>4. \A i \in DOMAIN freeConds' : freeConds'[i] # h
      BY <1>0, <3>1 DEF RegistrySound
    <3>5. \A i, j \in DOMAIN freeConds' : i # j => freeConds'[i] # freeConds'[j]
      BY <1>0, <3>1 DEF RegistrySound
    <3> HIDE DEF h
    <3>6. QED
      BY <1>0, <3>1, <3>2, <3>3, <3>4, <3>5
  <2>2. CASE freeConds = <<>>
    <3>1. h = born + 1 /\ born' = born + 1 /\ freeConds' = freeConds /\ DOMAIN freeConds = {}
      BY <1>1, <2>2
    <3>2. \A d \in Registered : entry[d].condition # h
      BY <1>0, <3>1 DEF Allocated
    <3> HIDE DEF h
    <3>3. QED
      BY <1>0, <3>1, <3>2
  <2>3. QED
    BY <2>1, <2>2
<1>5. IF gated THEN g = gates + 1 /\ gates' = gates + 1 ELSE g = 0 /\ gates' = gates
  BY <1>1
<1> HIDE DEF c, h, g
<1>6. entry'[c] = [condition |-> h, gate |-> g]
  BY <1>0, <1>1, <1>2
<1>7. QED
  BY <1>0, <1>1, <1>2, <1>3, <1>4, <1>5, <1>6 DEF c

\* What a renewal in its last steps does it to: its entry is there, and is its own.
LEMMA RenewsIts ==
  ASSUME TypeOK, RegistryInv, NEW t \in Threads, pc[t] \in TablePlaces
  PROVE  /\ call[t].cond \in Registered /\ tableLock = t
         /\ entry[call[t].cond].condition \in Objects
         /\ entry[call[t].cond].condition \in 1 .. born
         /\ call[t].op \in {"initialize", "destroy"}
         /\ \A u \in Threads : pc[u] \in TablePlaces => u = t
<1>1. call[t].cond \in Registered /\ tableLock = t /\ call[t].op \in {"initialize", "destroy"}
  BY DEF RegistryInv, TableHeld, CallsMatch, CallMatches, Registered, TablePlaces
<1>2. entry[call[t].cond].condition \in 1 .. born /\ born \in 0 .. Hosts /\ Hosts \in Nat
  BY <1>1, CondAssumption DEF RegistryInv, Allocated, TypeOK
<1>3. \A u \in Threads : pc[u] \in TablePlaces => u = t
  BY <1>1 DEF RegistryInv, TableHeld
<1>4. QED
  BY <1>1, <1>2, <1>3 DEF Objects

LEMMA DestroyMoves ==
  ASSUME TypeOK, RegistryInv, NEW t \in Threads, Destroy(t)
  PROVE  LET c == call[t].cond
             h == entry[c].condition IN
         /\ Registered' = Registered \ {c} /\ \A d \in Registered' : entry'[d] = entry[d]
         /\ \A d \in Registered' : entry[d].condition # h
         /\ cond' = [cond EXCEPT ![h].live = FALSE] /\ h \in Objects
         /\ freeConds' = <<h>> \o freeConds /\ freeConds \in Seq(Objects)
         /\ UNCHANGED <<born, gates, gated>>
<1> DEFINE c == call[t].cond
           h == entry[c].condition
<1>1. /\ pc[t] \in TablePlaces
      /\ cond' = [cond EXCEPT ![h].live = FALSE] /\ freeConds' = <<h>> \o freeConds
      /\ entry' = [entry EXCEPT ![c] = NoEntry] /\ UNCHANGED <<born, gates, gated>>
  BY DEF Destroy, TablePlaces
<1>2. c \in Registered /\ h \in Objects
  BY <1>1, RenewsIts
<1>3. entry'[c] = NoEntry /\ \A d \in Conds : d # c => entry'[d] = entry[d]
  BY <1>1, <1>2 DEF TypeOK, Registered
<1>4. Registered' = Registered \ {c} /\ \A d \in Registered' : entry'[d] = entry[d]
  BY <1>3 DEF Registered
<1>5. \A d \in Registered' : entry[d].condition # h
  BY <1>2, <1>4 DEF RegistryInv, RegistrySound
<1>6. QED
  BY <1>1, <1>2, <1>4, <1>5 DEF TypeOK

LEMMA CondMoves ==
  ASSUME NEW t \in Threads, Guest(t) \/ Step(t)
  PROVE  \/ cond' = cond \/ LookupCreate(t) \/ Destroy(t)
         \/ InitializeDestroys(t) \/ InitializeRevives(t)
<1>1. ASSUME Guest(t) PROVE cond' = cond
  BY <1>1 DEF Guest, Lock, Unlock, WaitCall, WakeCall, RenewCall, Calls
<1>2. CASE Step(t)
  BY <1>2 DEF Step, Runs, Lookup, Wait, HostWait, GateToken, GateEnter, Park,
     GateRetake, GateLeave, Relock, HostWake, GateWake, Renew, RenewUnknown, RenewBroadcast,
     InitializeClears, Expire
<1>3. QED
  BY <1>1, <1>2

\* From revive there is only one way.
LEMMA ReviveMoves ==
  ASSUME NEW t \in Threads, Guest(t) \/ Step(t), pc[t] = "revive"
  PROVE  InitializeRevives(t)
<1>1. ~ Guest(t)
  BY DEF Guest, Lock, Unlock, WaitCall, WakeCall, RenewCall, Calls
<1>2. ~ (Lookup(t) \/ LookupCreate(t) \/ Wait(t) \/ HostWake(t) \/ GateWake(t) \/ Expire(t))
  BY DEF Lookup, LookupCreate, Wait, HostWait, GateToken, GateEnter, Park,
     GateRetake, GateLeave, Relock, HostWake, GateWake, Expire
<1>3. ~ (\/ RenewUnknown(t) \/ RenewBroadcast(t) \/ Destroy(t) \/ InitializeDestroys(t)
         \/ InitializeClears(t))
  BY DEF RenewUnknown, RenewBroadcast, Destroy, InitializeDestroys, InitializeClears
<1>4. QED
  BY <1>1, <1>2, <1>3 DEF Step, Runs, Renew

LEMMA AllocatedKept ==
  ASSUME TypeOK, RegistryInv, NEW t \in Threads, Guest(t) \/ Step(t)
  PROVE  Allocated'
<1>0. Allocated /\ born \in Nat /\ gates \in Nat
  BY CondAssumption DEF RegistryInv, TypeOK
<1>1. CASE UNCHANGED <<entry, freeConds, born, gates>>
  <2>1. gated' = gated
    BY RegistryMoves
  <2>2. QED
    BY <1>0, <1>1, <2>1 DEF Allocated, Registered
<1>2. CASE LookupCreate(t)
  <2>1. PICK h \in Objects, g \in 0 .. Hosts :
           /\ call[t].cond \in Conds
           /\ h \in 1 .. born' /\ born \in Nat /\ born' \in Nat /\ born <= born'
           /\ IF gated THEN g = gates + 1 /\ gates' = gates + 1 ELSE g = 0 /\ gates' = gates
           /\ gated' = gated /\ gates \in Nat
           /\ entry' = [entry EXCEPT ![call[t].cond] = [condition |-> h, gate |-> g]]
           /\ \A i \in DOMAIN freeConds' : \E j \in DOMAIN freeConds : freeConds'[i] = freeConds[j]
    BY <1>2, CreateMoves
  <2>2. \A c \in Registered' : c = call[t].cond \/ (c \in Registered /\ entry'[c] = entry[c])
    BY <2>1 DEF Registered, TypeOK
  <2>3. entry'[call[t].cond] = [condition |-> h, gate |-> g]
    BY <2>1 DEF TypeOK
  <2>4. \A c \in Registered' :
          /\ entry'[c].condition \in 1 .. born'
          /\ IF gated' THEN entry'[c].gate \in 1 .. gates' ELSE entry'[c].gate = 0
    <3> SUFFICES ASSUME NEW c \in Registered'
                 PROVE  /\ entry'[c].condition \in 1 .. born'
                        /\ IF gated' THEN entry'[c].gate \in 1 .. gates' ELSE entry'[c].gate = 0
      OBVIOUS
    <3>1. CASE c = call[t].cond
      BY <2>1, <2>3, <3>1
    <3>2. CASE c \in Registered /\ entry'[c] = entry[c]
      BY <1>0, <2>1, <3>2 DEF Allocated
    <3>3. QED
      BY <2>2, <3>1, <3>2
  <2>5. \A i \in DOMAIN freeConds' : freeConds'[i] \in 1 .. born'
    BY <1>0, <2>1 DEF Allocated
  <2>6. QED
    BY <2>4, <2>5 DEF Allocated
<1>3. CASE Destroy(t)
  <2> DEFINE h == entry[call[t].cond].condition
  <2>1. /\ h \in 1 .. born
        /\ Registered' \subseteq Registered /\ \A d \in Registered' : entry'[d] = entry[d]
        /\ freeConds' = <<h>> \o freeConds /\ freeConds \in Seq(Objects) /\ h \in Objects
        /\ UNCHANGED <<born, gates, gated>>
    BY <1>3, DestroyMoves, RenewsIts DEF Destroy, TablePlaces
  <2> HIDE DEF h
  <2>2. \A i \in DOMAIN freeConds' :
          \/ freeConds'[i] = h
          \/ i - 1 \in DOMAIN freeConds /\ freeConds'[i] = freeConds[i - 1]
    BY <2>1, Pushed
  <2>3. \A i \in DOMAIN freeConds' : freeConds'[i] \in 1 .. born'
    BY <1>0, <2>1, <2>2 DEF Allocated
  <2>4. QED
    BY <1>0, <2>1, <2>3 DEF Allocated
<1>4. QED
  BY <1>1, <1>2, <1>3, RegistryMoves

\* The three parts of RegistrySound.
Apart ==
  \A c, d \in Registered : c # d =>
    /\ entry[c].condition # entry[d].condition
    /\ gated => entry[c].gate # entry[d].gate
FreeApart ==
  \A i \in DOMAIN freeConds :
    /\ \A c \in Registered : entry[c].condition # freeConds[i]
    /\ \A j \in DOMAIN freeConds : i # j => freeConds[i] # freeConds[j]
Alive(c) == cond[entry[c].condition].live
Reviving(c) == \E t \in Threads : tableLock = t /\ pc[t] = "revive" /\ call[t].cond = c

LEMMA RegistryParts == RegistrySound <=> Apart /\ FreeApart /\ \A c \in Registered : Alive(c) \/ Reviving(c)
BY DEF RegistrySound, Apart, FreeApart, Alive, Reviving

LEMMA ApartKept ==
  ASSUME TypeOK, RegistryInv, NEW t \in Threads, Guest(t) \/ Step(t)
  PROVE  Apart' /\ FreeApart'
<1>0. Apart /\ FreeApart /\ Allocated
  BY RegistryParts DEF RegistryInv
<1>1. CASE UNCHANGED <<entry, freeConds, born, gates>>
  <2>1. gated' = gated
    BY RegistryMoves
  <2>2. QED
    BY <1>0, <1>1, <2>1 DEF Apart, FreeApart, Registered
<1>2. CASE LookupCreate(t)
  <2>1. PICK h \in Objects, g \in 0 .. Hosts :
           /\ call[t].cond \in Conds /\ call[t].cond \notin Registered
           /\ IF gated THEN g = gates + 1 /\ gates' = gates + 1 ELSE g = 0 /\ gates' = gates
           /\ gated' = gated /\ gates \in Nat
           /\ entry' = [entry EXCEPT ![call[t].cond] = [condition |-> h, gate |-> g]]
           /\ \A c \in Registered : entry[c].condition # h
           /\ \A i \in DOMAIN freeConds' : freeConds'[i] # h
           /\ \A i \in DOMAIN freeConds' : \E j \in DOMAIN freeConds : freeConds'[i] = freeConds[j]
           /\ \A i, j \in DOMAIN freeConds' : i # j => freeConds'[i] # freeConds'[j]
    BY <1>2, CreateMoves
  <2>2. \A c \in Registered' : c # call[t].cond => c \in Registered /\ entry'[c] = entry[c]
    BY <2>1 DEF Registered, TypeOK
  <2>3. entry'[call[t].cond] = [condition |-> h, gate |-> g]
    BY <2>1 DEF TypeOK
  <2>4. gated => \A c \in Registered : entry[c].gate # g
    BY <1>0, <2>1 DEF Allocated
  <2>5. Apart'
    BY <1>0, <2>1, <2>2, <2>3, <2>4 DEF Apart
  <2>6. FreeApart'
    BY <1>0, <2>1, <2>2, <2>3 DEF FreeApart
  <2>7. QED
    BY <2>5, <2>6
<1>3. CASE Destroy(t)
  <2> DEFINE h == entry[call[t].cond].condition
  <2>1. /\ call[t].cond \in Registered
        /\ Registered' \subseteq Registered /\ \A d \in Registered' : entry'[d] = entry[d]
        /\ \A d \in Registered' : entry[d].condition # h
        /\ freeConds' = <<h>> \o freeConds /\ freeConds \in Seq(Objects) /\ h \in Objects
        /\ gated' = gated
    BY <1>3, DestroyMoves, RenewsIts DEF Destroy, TablePlaces
  <2>2. \A i \in DOMAIN freeConds : freeConds[i] # h
    BY <1>0, <2>1 DEF FreeApart
  <2> HIDE DEF h
  <2>3. /\ \A i \in DOMAIN freeConds' :
             \/ i = 1 /\ freeConds'[i] = h
             \/ i # 1 /\ i - 1 \in DOMAIN freeConds /\ freeConds'[i] = freeConds[i - 1]
        /\ \A i, j \in DOMAIN freeConds' : i # j => i - 1 # j - 1
    BY <2>1, Pushed
  <2>4. Apart'
    BY <1>0, <2>1 DEF Apart
  <2>5. \A i \in DOMAIN freeConds' : \A c \in Registered' : entry'[c].condition # freeConds'[i]
    BY <1>0, <2>1, <2>3 DEF FreeApart
  <2>6. \A i, j \in DOMAIN freeConds' : i # j => freeConds'[i] # freeConds'[j]
    BY <1>0, <2>2, <2>3 DEF FreeApart
  <2>7. QED
    BY <2>4, <2>5, <2>6 DEF FreeApart
<1>4. QED
  BY <1>1, <1>2, <1>3, RegistryMoves

LEMMA AliveKept ==
  ASSUME TypeOK, RegistryInv, NEW t \in Threads, Guest(t) \/ Step(t)
  PROVE  (\A c \in Registered : Alive(c) \/ Reviving(c))'
<1>0. /\ Apart /\ Allocated /\ TableHeld
      /\ \A c \in Registered : Alive(c) \/ Reviving(c)
      /\ cond \in [Objects -> [live : BOOLEAN, life : Nat]]
      /\ pc \in [Threads -> Places] /\ call \in [Threads -> CallRecords]
      /\ None \notin Threads
      /\ \A c \in Registered : entry[c].condition \in Objects
  <2>1. /\ Apart /\ Allocated /\ TableHeld
        /\ \A c \in Registered : Alive(c) \/ Reviving(c)
    BY RegistryParts DEF RegistryInv
  <2>2. /\ cond \in [Objects -> [live : BOOLEAN, life : Nat]]
        /\ pc \in [Threads -> Places] /\ call \in [Threads -> CallRecords]
    BY DEF TypeOK, CallRecords
  <2>3. None \notin Threads
    BY CondAssumption
  <2>4. born \in 0 .. Hosts
    BY DEF TypeOK
  <2>5. \A c \in Registered : entry[c].condition \in 1 .. born
    BY <2>1 DEF Allocated
  <2>6. \A c \in Registered : entry[c].condition \in Objects
    BY <2>4, <2>5, CondAssumption DEF Objects
  <2>7. QED
    BY <2>1, <2>2, <2>3, <2>6
<1>1. CASE LookupCreate(t)
  <2>1. PICK h \in Objects, g \in 0 .. Hosts :
           /\ call[t].cond \in Conds /\ tableLock = None
           /\ entry' = [entry EXCEPT ![call[t].cond] = [condition |-> h, gate |-> g]]
           /\ cond' = [cond EXCEPT ![h] = [live |-> TRUE, life |-> @.life + 1]]
           /\ \A c \in Registered : entry[c].condition # h
    BY <1>1, CreateMoves
  <2>2. \A c \in Registered : Alive(c)
    BY <1>0, <2>1 DEF Reviving
  <2>3. \A c \in Registered' : c # call[t].cond => c \in Registered /\ entry'[c] = entry[c]
    BY <2>1 DEF Registered, TypeOK
  <2>4. entry'[call[t].cond].condition = h /\ cond'[h].live
    BY <1>0, <2>1 DEF TypeOK
  <2>5. \A x \in Objects : x # h => cond'[x] = cond[x]
    BY <1>0, <2>1
  <2>6. QED
    BY <1>0, <2>1, <2>2, <2>3, <2>4, <2>5 DEF Alive
<1>2. ASSUME pc[t] \in TablePlaces, NEW d \in Registered, d # call[t].cond
      PROVE  Alive(d) /\ entry[d].condition # entry[call[t].cond].condition
  <2>1. call[t].cond \in Registered /\ \A u \in Threads : pc[u] \in TablePlaces => u = t
    BY <1>2, RenewsIts
  <2>2. ~ Reviving(d)
    BY <1>2, <2>1 DEF Reviving, TablePlaces
  <2>3. QED
    BY <1>0, <1>2, <2>1, <2>2 DEF Apart
<1>3. CASE Destroy(t)
  <2>1. /\ pc[t] \in TablePlaces
        /\ Registered' = Registered \ {call[t].cond} /\ \A d \in Registered' : entry'[d] = entry[d]
        /\ cond' = [cond EXCEPT ![entry[call[t].cond].condition].live = FALSE]
    BY <1>3, DestroyMoves DEF Destroy, TablePlaces
  <2>2. \A d \in Registered' : Alive(d) /\ entry[d].condition # entry[call[t].cond].condition
    BY <1>2, <2>1
  <2>3. \A d \in Registered' : cond'[entry[d].condition] = cond[entry[d].condition]
    BY <1>0, <2>1, <2>2
  <2>4. QED
    BY <2>1, <2>2, <2>3 DEF Alive
<1>4. CASE InitializeDestroys(t)
  <2>1. /\ pc[t] \in TablePlaces /\ tableLock' = tableLock /\ entry' = entry
        /\ cond' = [cond EXCEPT ![entry[call[t].cond].condition].live = FALSE]
        /\ pc'[t] = "revive" /\ call' = call
    BY <1>0, <1>4 DEF InitializeDestroys, Goes, TablePlaces, registry
  <2>2. tableLock = t
    BY <2>1, RenewsIts
  <2>3. Registered' = Registered
    BY <2>1 DEF Registered
  <2>4. \A d \in Registered : d # call[t].cond =>
          Alive(d) /\ cond'[entry[d].condition] = cond[entry[d].condition]
    BY <1>0, <1>2, <2>1
  <2>5. Reviving(call[t].cond)'
    BY <2>1, <2>2 DEF Reviving
  <2>6. QED
    BY <2>1, <2>3, <2>4, <2>5 DEF Alive
<1>5. CASE InitializeRevives(t)
  <2>1. /\ pc[t] \in TablePlaces /\ entry' = entry
        /\ cond' = [cond EXCEPT ![entry[call[t].cond].condition] =
                                   [live |-> TRUE, life |-> @.life + 1]]
    BY <1>5 DEF InitializeRevives, TablePlaces, registry
  <2>2. entry[call[t].cond].condition \in Objects /\ Registered' = Registered
    BY <2>1, RenewsIts DEF Registered
  <2>3. \A d \in Registered : d # call[t].cond =>
          Alive(d) /\ cond'[entry[d].condition] = cond[entry[d].condition]
    BY <1>0, <1>2, <2>1
  <2>4. cond'[entry[call[t].cond].condition].live
    BY <1>0, <2>1, <2>2
  <2>5. QED
    BY <2>1, <2>2, <2>3, <2>4 DEF Alive
<1>6. CASE /\ cond' = cond
           /\ ~ LookupCreate(t) /\ ~ Destroy(t) /\ ~ InitializeRevives(t)
  <2>1. entry' = entry
    BY <1>6, RegistryMoves
  <2>2. \A c : Alive(c)' <=> Alive(c)
    BY <1>6, <2>1 DEF Alive
  <2>3. Registered' = Registered
    BY <2>1 DEF Registered
  <2>4. ASSUME NEW c \in Registered, Reviving(c)
        PROVE  Reviving(c)'
    <3>1. PICK u \in Threads : tableLock = u /\ pc[u] = "revive" /\ call[u].cond = c
      BY <2>4 DEF Reviving
    <3>2. u # t
      BY <1>6, <3>1, ReviveMoves
    <3>3. pc[t] \notin TablePlaces
      BY <3>1, <3>2, RenewsIts DEF TablePlaces
    <3>4. tableLock' = u
      BY <1>0, <3>1, <3>3, TableMoves
    <3>5. pc'[u] = "revive" /\ call'[u] = call[u]
      BY <3>1, <3>2, OthersStay DEF Others
    <3>6. QED
      BY <3>1, <3>4, <3>5 DEF Reviving
  <2>5. QED
    BY <1>0, <2>2, <2>3, <2>4
<1>7. QED
  BY <1>1, <1>3, <1>4, <1>5, <1>6, CondMoves

LEMMA RegistryKept ==
  ASSUME TypeOK, RegistryInv, NEW t \in Threads, Guest(t) \/ Step(t)
  PROVE  RegistryInv'
<1>1. RegistrySound' <=> Apart' /\ FreeApart' /\ (\A c \in Registered : Alive(c) \/ Reviving(c))'
  BY DEF RegistrySound, Apart, FreeApart, Alive, Reviving
<1>2. Allocated' /\ TableHeld' /\ CallsMatch'
  BY AllocatedKept, TableKept, CallsKept DEF RegistryInv
<1>3. QED
  BY <1>1, <1>2, ApartKept, AliveKept DEF RegistryInv

-----------------------------------------------------------------------------
(* The gates and their host conditions *)

\* Only a lookup gives a call its objects.
LEMMA CallMoves ==
  ASSUME TypeOK, NEW t \in Threads, Guest(t) \/ Step(t), NEW u \in Threads
  PROVE  \/ call'[u].gate = 0
         \/ call'[u].gate = call[u].gate /\ call'[u].host = call[u].host
         \/ u = t /\ (Lookup(t) \/ LookupCreate(t))
<1>0. call \in [Threads -> CallRecords] /\ Idle.gate = 0 /\ call[t] \in CallRecords
  BY DEF TypeOK, CallRecords, Idle
<1>1. CASE u # t
  BY <1>1, OthersStay DEF Others
<1>2. ASSUME NEW c, NEW op, NEW m, NEW timed, NEW place, Calls(t, op, c, m, timed, place)
      PROVE  call'[t].gate = 0
  BY <1>0, <1>2 DEF Calls, Idle
<1>3. ASSUME Guest(t)
      PROVE  call'[t].gate = 0 \/ call' = call
  BY <1>2, <1>3 DEF Guest, Lock, Unlock, WaitCall, WakeCall, RenewCall
<1>4. ASSUME Returns(t)
      PROVE  call'[t].gate = 0
  BY <1>0, <1>4, ReturnsMoves
<1>5. ASSUME NEW l, call' = [call EXCEPT ![t].life = l]
      PROVE  call'[t].gate = call[t].gate /\ call'[t].host = call[t].host
  BY <1>0, <1>5 DEF CallRecords
<1>6. ASSUME Wait(t) \/ Renew(t) \/ Expire(t)
      PROVE  call' = call \/ call'[t].gate = 0
               \/ (call'[t].gate = call[t].gate /\ call'[t].host = call[t].host)
  BY <1>4, <1>5, <1>6 DEF Wait, HostWait, GateToken, GateEnter, Park, GateRetake, GateLeave,
     Relock, Renew, RenewUnknown, RenewBroadcast, Destroy, InitializeDestroys,
     InitializeRevives, InitializeClears, Expire
<1>7. ASSUME HostWake(t) \/ GateWake(t)
      PROVE  call'[t].gate = 0
  BY <1>0, <1>7 DEF HostWake, GateWake
<1>8. QED
  BY <1>1, <1>3, <1>6, <1>7 DEF Step, Runs

\* A gate in use was allocated.
LEMMA GateAllocated ==
  ASSUME TypeOK, CallsMatch, NEW u \in Threads, call[u].gate # 0
  PROVE  gated /\ call[u].gate \in 1 .. gates /\ pc[u] \in WaitPlaces \cup WakePlaces
<1>1. /\ CallMatches(u) /\ pc[u] \in Places /\ Idle.gate = 0
  BY DEF CallsMatch, TypeOK, Idle
<1>2. pc[u] \in WaitPlaces \cup WakePlaces
  BY <1>1 DEF CallMatches, Places, WaitPlaces, WakePlaces, TablePlaces
<1>3. QED
  BY <1>1, <1>2 DEF CallMatches

\* One pair of objects belongs to one gate.
PairOf(u, g, h) == call[u].gate = g => call[u].host = h

LEMMA PairsStay ==
  ASSUME TypeOK, RegistryInv, PairsKept, NEW t \in Threads, Guest(t) \/ Step(t)
  PROVE  PairsKept'
<1>0. /\ call \in [Threads -> CallRecords] /\ CallsMatch /\ Allocated /\ Apart
      /\ entry \in [Conds -> [condition : 0 .. Hosts, gate : 0 .. Hosts]]
  BY RegistryParts DEF RegistryInv, TypeOK, CallRecords
<1>1. ASSUME \A u \in Threads : call'[u].gate = 0
               \/ (call'[u].gate = call[u].gate /\ call'[u].host = call[u].host),
             Registered' \subseteq Registered, \A c \in Registered' : entry'[c] = entry[c]
      PROVE  PairsKept'
  BY <1>1 DEF PairsKept
<1>2. ASSUME NEW e, e.gate # 0,
             call'[t].gate = e.gate, call'[t].host = e.condition,
             \A u \in Threads \ {t} : call'[u] = call[u],
             \A u \in Threads \ {t} : PairOf(u, e.gate, e.condition),
             \A c \in Registered' : entry'[c].gate = e.gate => entry'[c].condition = e.condition,
             \A u \in Threads \ {t} : \A c \in Registered' :
               call[u].gate # 0 /\ entry'[c].gate = call[u].gate => entry'[c].condition = call[u].host
      PROVE  PairsKept'
  <2>1. ASSUME NEW u \in Threads, call'[u].gate # 0, NEW c \in Registered',
               entry'[c].gate = call'[u].gate
        PROVE  entry'[c].condition = call'[u].host
    BY <1>2, <2>1
  <2>2. ASSUME NEW u \in Threads, NEW v \in Threads, call'[u].gate # 0, call'[v].gate = call'[u].gate
        PROVE  call'[v].host = call'[u].host
    BY <1>2, <2>2 DEF PairOf, PairsKept
  <2>3. QED
    BY <2>1, <2>2 DEF PairsKept
<1>3. ASSUME NEW e, Found(t, e)
      PROVE  /\ \A u \in Threads \ {t} : call'[u] = call[u]
             /\ \/ call'[t] = Idle
                \/ call'[t].gate = e.gate /\ call'[t].host = e.condition
  BY <1>0, <1>3 DEF Found, CallRecords
<1>4. CASE Lookup(t)
  <2> DEFINE c == call[t].cond
             e == entry[c]
  <2>1. /\ entry' = entry /\ Registered' = Registered /\ Found(t, e)
        /\ c \in Conds /\ c \in Registered
    BY <1>0, <1>4 DEF Lookup, registry, Registered, CallsMatch, CallMatches
  <2> HIDE DEF c
  <2>2. /\ \A u \in Threads \ {t} : call'[u] = call[u]
        /\ \/ call'[t] = Idle
           \/ call'[t].gate = e.gate /\ call'[t].host = e.condition
    BY <1>3, <2>1
  <2>3. CASE call'[t] = Idle
    <3>1. \A u \in Threads : call'[u].gate = 0
               \/ (call'[u].gate = call[u].gate /\ call'[u].host = call[u].host)
      BY <2>2, <2>3 DEF Idle
    <3>2. QED
      BY <1>1, <2>1, <3>1
  <2>4. CASE call'[t].gate = e.gate /\ call'[t].host = e.condition /\ e.gate = 0
    <3>1. \A u \in Threads : call'[u].gate = 0
               \/ (call'[u].gate = call[u].gate /\ call'[u].host = call[u].host)
      BY <2>2, <2>4
    <3>2. QED
      BY <1>1, <2>1, <3>1
  <2>5. CASE call'[t].gate = e.gate /\ call'[t].host = e.condition /\ e.gate # 0
    <3>1. gated
      BY <1>0, <2>1, <2>5 DEF Allocated
    <3>2. \A d \in Registered' : entry'[d].gate = e.gate => entry'[d].condition = e.condition
      BY <1>0, <2>1, <3>1 DEF Apart
    <3>3. \A u \in Threads \ {t} : PairOf(u, e.gate, e.condition)
      BY <2>1, <2>5 DEF PairsKept, PairOf
    <3>4. \A u \in Threads \ {t} : \A d \in Registered' :
            call[u].gate # 0 /\ entry'[d].gate = call[u].gate => entry'[d].condition = call[u].host
      BY <2>1 DEF PairsKept
    <3>5. QED
      BY <1>2, <2>2, <2>5, <3>2, <3>3, <3>4
  <2>6. QED
    BY <2>2, <2>3, <2>4, <2>5
<1>5. CASE LookupCreate(t)
  <2>1. PICK h \in Objects, g \in 0 .. Hosts :
           /\ call[t].cond \in Conds
           /\ IF gated THEN g = gates + 1 /\ gates' = gates + 1 ELSE g = 0 /\ gates' = gates
           /\ gates \in Nat
           /\ entry' = [entry EXCEPT ![call[t].cond] = [condition |-> h, gate |-> g]]
           /\ Found(t, [condition |-> h, gate |-> g])
    BY <1>5, CreateMoves
  <2> DEFINE e == [condition |-> h, gate |-> g]
             c == call[t].cond
  <2>2. /\ e.condition = h /\ e.gate = g
        /\ entry'[c] = e
        /\ \A d \in Registered' : d # c => d \in Registered /\ entry'[d] = entry[d]
    BY <1>0, <2>1 DEF Registered
  <2>3. /\ \A u \in Threads \ {t} : call'[u] = call[u]
        /\ \/ call'[t] = Idle
           \/ call'[t].gate = e.gate /\ call'[t].host = e.condition
    BY <1>3, <2>1
  <2>4. \A u \in Threads : call[u].gate # 0 => g # 0 /\ call[u].gate # g
    BY <1>0, <2>1, GateAllocated
  <2>5. \A d \in Registered : entry[d].gate # 0 => entry[d].gate # g
    BY <1>0, <2>1 DEF Allocated
  <2> HIDE DEF e, c
  <2>6. CASE call'[t].gate # 0
    <3>1. call'[t].gate = e.gate /\ call'[t].host = e.condition /\ e.gate # 0
      BY <2>3, <2>6 DEF Idle
    <3>2. \A d \in Registered' : entry'[d].gate = e.gate => entry'[d].condition = e.condition
      BY <2>2, <2>5, <3>1
    <3>3. \A u \in Threads \ {t} : PairOf(u, e.gate, e.condition)
      BY <2>2, <2>4, <3>1 DEF PairOf
    <3>4. \A u \in Threads \ {t} : \A d \in Registered' :
            call[u].gate # 0 /\ entry'[d].gate = call[u].gate => entry'[d].condition = call[u].host
      BY <2>2, <2>4 DEF PairsKept
    <3>5. QED
      BY <1>2, <2>3, <3>1, <3>2, <3>3, <3>4
  <2>7. CASE call'[t].gate = 0
    <3>1. ASSUME NEW u \in Threads, call'[u].gate # 0
          PROVE  /\ u # t /\ call'[u] = call[u] /\ call[u].gate # 0 /\ call[u].gate # g
      BY <2>3, <2>4, <2>7, <3>1
    <3>2. ASSUME NEW u \in Threads, call'[u].gate # 0, NEW d \in Registered',
                 entry'[d].gate = call'[u].gate
          PROVE  entry'[d].condition = call'[u].host
      <4>1. d # c
        BY <2>2, <3>1, <3>2
      <4>2. QED
        BY <2>2, <3>1, <3>2, <4>1 DEF PairsKept
    <3>3. ASSUME NEW u \in Threads, NEW v \in Threads, call'[u].gate # 0,
                 call'[v].gate = call'[u].gate
          PROVE  call'[v].host = call'[u].host
      BY <3>1, <3>3 DEF PairsKept
    <3>4. QED
      BY <3>2, <3>3 DEF PairsKept
  <2>8. QED
    BY <2>6, <2>7
<1>6. CASE ~ Lookup(t) /\ ~ LookupCreate(t)
  <2>1. \A u \in Threads : call'[u].gate = 0
               \/ (call'[u].gate = call[u].gate /\ call'[u].host = call[u].host)
    BY <1>6, CallMoves
  <2>2. Registered' \subseteq Registered /\ \A c \in Registered' : entry'[c] = entry[c]
    <3>1. CASE UNCHANGED entry
      BY <3>1 DEF Registered
    <3>2. CASE Destroy(t)
      BY <3>2, DestroyMoves
    <3>3. QED
      BY <1>6, <3>1, <3>2, RegistryMoves
  <2>3. QED
    BY <1>1, <2>1, <2>2
<1>7. QED
  BY <1>4, <1>5, <1>6

-----------------------------------------------------------------------------
(* While nothing has been overtaken *)

\* The two parts of WaitsFresh.
OpsApart ==
  \A t, u \in Threads :
    call[t].op = "wait" /\ call[u].op \in {"initialize", "destroy"} =>
      call[t].cond # call[u].cond
Known(t) ==
  pc[t] \in WaitPlaces =>
    /\ entry[call[t].cond] = [condition |-> call[t].host, gate |-> call[t].gate]
    /\ pc[t] = "sleep" => call[t].life = cond[call[t].host].life

LEMMA FreshParts == WaitsFresh <=> OpsApart /\ \A t \in Threads : Known(t)
BY DEF WaitsFresh, OpsApart, Known

LEMMA StepKeepsOps ==
  ASSUME TypeOK, NEW t \in Threads, Step(t), NEW u \in Threads
  PROVE  call'[u].op = "none" \/ (call'[u].op = call[u].op /\ call'[u].cond = call[u].cond)
<1>0. call \in [Threads -> CallRecords] /\ Idle.op = "none" /\ call[t] \in CallRecords
  BY DEF TypeOK, CallRecords, Idle
<1>1. CASE u # t
  BY <1>1, OthersStay DEF Others
<1>2. ASSUME Returns(t)
      PROVE  call'[t].op = "none"
  BY <1>0, <1>2, ReturnsMoves
<1>3. ASSUME NEW l, call' = [call EXCEPT ![t].life = l]
      PROVE  call'[t].op = call[t].op /\ call'[t].cond = call[t].cond
  BY <1>0, <1>3 DEF CallRecords
<1>4. ASSUME NEW e, Found(t, e)
      PROVE  call'[t].op = "none" \/ (call'[t].op = call[t].op /\ call'[t].cond = call[t].cond)
  BY <1>0, <1>4 DEF Found, CallRecords
<1>5. ASSUME Wait(t) \/ Renew(t) \/ Expire(t)
      PROVE  call' = call \/ call'[t].op = "none"
               \/ (call'[t].op = call[t].op /\ call'[t].cond = call[t].cond)
  BY <1>2, <1>3, <1>5 DEF Wait, HostWait, GateToken, GateEnter, Park, GateRetake, GateLeave,
     Relock, Renew, RenewUnknown, RenewBroadcast, Destroy, InitializeDestroys,
     InitializeRevives, InitializeClears, Expire
<1>6. ASSUME HostWake(t) \/ GateWake(t)
      PROVE  call'[t].op = "none"
  BY <1>0, <1>6 DEF HostWake, GateWake
<1>7. ASSUME Lookup(t) \/ LookupCreate(t)
      PROVE  \E e : Found(t, e)
  BY <1>7 DEF Lookup, LookupCreate
<1>8. QED
  BY <1>1, <1>4, <1>5, <1>6, <1>7 DEF Step, Runs

LEMMA OpsKept ==
  ASSUME TypeOK, CallsMatch, NEW t \in Threads, Guest(t) \/ Step(t), ~ overtaken',
         ~ overtaken => OpsApart
  PROVE  ~ overtaken /\ OpsApart'
<1>0. call \in [Threads -> CallRecords] /\ Idle.op = "none" /\ CallMatches(t)
  BY DEF TypeOK, CallRecords, Idle, CallsMatch
<1>1. CASE Step(t)
  <2>1. UNCHANGED history
    BY <1>1 DEF Step, Runs, Lookup, LookupCreate, Found, Wait, HostWait, GateToken, GateEnter,
       Park, GateRetake, GateLeave, Relock, HostWake, GateWake, Renew, RenewUnknown,
       RenewBroadcast, Destroy, InitializeDestroys, InitializeRevives, InitializeClears, Expire
  <2>2. ~ overtaken /\ OpsApart
    BY <2>1 DEF history
  <2>3. QED
    BY <1>1, <2>2, StepKeepsOps DEF OpsApart
<1>2. ASSUME NEW c, NEW op, NEW m, NEW timed, NEW place, Calls(t, op, c, m, timed, place)
      PROVE  /\ call'[t].op = op /\ call'[t].cond = c
             /\ \A u \in Threads \ {t} : call'[u] = call[u]
  BY <1>0, <1>2 DEF Calls, Idle
<1>3. ASSUME NEW m \in Mutexes, Lock(t, m) \/ Unlock(t, m)
      PROVE  ~ overtaken /\ OpsApart'
  BY <1>3 DEF Lock, Unlock, history, OpsApart
<1>4. ASSUME NEW c \in Conds, NEW m \in Mutexes, NEW timed \in Deadlines, WaitCall(t, c, m, timed)
      PROVE  ~ overtaken /\ OpsApart'
  <2>1. /\ ~ overtaken
        /\ \A u \in Threads : ~ (call[u].cond = c /\ call[u].op \in {"initialize", "destroy"})
        /\ Calls(t, "wait", c, m, timed, "lookup")
    BY <1>4 DEF WaitCall
  <2>2. /\ call'[t].op = "wait" /\ call'[t].cond = c
        /\ \A u \in Threads \ {t} : call'[u] = call[u]
    BY <1>2, <2>1
  <2>3. QED
    BY <2>1, <2>2 DEF OpsApart
<1>5. ASSUME NEW c \in Conds, NEW op \in {"signal", "broadcast"}, WakeCall(t, c, op)
      PROVE  ~ overtaken /\ OpsApart'
  <2>1. ~ overtaken /\ Calls(t, op, c, None, FALSE, "lookup")
    BY <1>5 DEF WakeCall, history
  <2>2. /\ call'[t].op = op /\ call'[t].cond = c
        /\ \A u \in Threads \ {t} : call'[u] = call[u]
    BY <1>2, <2>1
  <2>3. QED
    BY <2>1, <2>2 DEF OpsApart
<1>6. ASSUME NEW c \in Conds, NEW op \in {"initialize", "destroy"}, RenewCall(t, c, op)
      PROVE  ~ overtaken /\ OpsApart'
  <2>1. /\ ~ overtaken
        /\ \A u \in Threads : ~ (call[u].cond = c /\ call[u].op = "wait")
        /\ Calls(t, op, c, None, FALSE, "renew")
    BY <1>6 DEF RenewCall
  <2>2. /\ call'[t].op = op /\ call'[t].cond = c
        /\ \A u \in Threads \ {t} : call'[u] = call[u]
    BY <1>2, <2>1
  <2>3. QED
    BY <2>1, <2>2 DEF OpsApart
<1>7. QED
  BY <1>1, <1>3, <1>4, <1>5, <1>6 DEF Guest

\* What a wait knows of the registry stays true.
LEMMA KnownStays ==
  ASSUME TypeOK, RegistryInv, OpsApart, NEW u \in Threads, pc[u] \in WaitPlaces, Known(u),
         NEW t \in Threads, Guest(t) \/ Step(t)
  PROVE  /\ call[u].cond \in Registered /\ call[u].host \in Objects
         /\ entry'[call[u].cond] = entry[call[u].cond]
         /\ cond'[call[u].host].life = cond[call[u].host].life
<1> DEFINE c == call[u].cond
           h == call[u].host
<1>0. /\ c \in Conds /\ h \in Objects /\ call[u].op = "wait" /\ entry[c].condition = h
      /\ entry[c] # NoEntry
      /\ cond \in [Objects -> [live : BOOLEAN, life : Nat]] /\ Apart
  <2>1. CallMatches(u)
    BY DEF RegistryInv, CallsMatch
  <2>2. c \in Conds /\ h \in Objects /\ call[u].op = "wait" /\ entry[c].condition = h
    BY <2>1 DEF CallMatches, WaitPlaces, Known
  <2>3. entry[c] # NoEntry
    BY <2>2 DEF NoEntry, Objects
  <2>4. QED
    BY <2>2, <2>3, RegistryParts DEF TypeOK, RegistryInv
<1>1. c \in Registered
  BY <1>0 DEF Registered
<1> HIDE DEF c, h
<1>2. CASE LookupCreate(t)
  <2>1. PICK x \in Objects, g \in 0 .. Hosts :
           /\ call[t].cond \notin Registered
           /\ entry' = [entry EXCEPT ![call[t].cond] = [condition |-> x, gate |-> g]]
           /\ cond' = [cond EXCEPT ![x] = [live |-> TRUE, life |-> @.life + 1]]
           /\ \A d \in Registered : entry[d].condition # x
    BY <1>2, CreateMoves
  <2>2. entry'[c] = entry[c]
    BY <1>0, <1>1, <2>1 DEF TypeOK
  <2>3. cond'[h] = cond[h]
    BY <1>0, <1>1, <2>1
  <2>4. QED
    BY <1>0, <1>1, <2>2, <2>3 DEF c, h
<1>3. ASSUME pc[t] \in TablePlaces
      PROVE  c # call[t].cond /\ h # entry[call[t].cond].condition
  <2>1. call[t].cond \in Registered /\ call[t].op \in {"initialize", "destroy"}
    BY <1>3, RenewsIts
  <2>2. c # call[t].cond
    BY <1>0, <2>1 DEF OpsApart, c
  <2>3. QED
    BY <1>0, <1>1, <2>1, <2>2 DEF Apart
<1>4. CASE Destroy(t)
  <2>1. /\ pc[t] \in TablePlaces
        /\ Registered' = Registered \ {call[t].cond} /\ \A d \in Registered' : entry'[d] = entry[d]
        /\ cond' = [cond EXCEPT ![entry[call[t].cond].condition].live = FALSE]
    BY <1>4, DestroyMoves DEF Destroy, TablePlaces
  <2>2. QED
    BY <1>0, <1>1, <1>3, <2>1 DEF c, h
<1>5. CASE InitializeDestroys(t) \/ InitializeRevives(t)
  <2>1. pc[t] \in TablePlaces /\ entry' = entry
    BY <1>5 DEF InitializeDestroys, InitializeRevives, registry, TablePlaces
  <2>2. cond'[h] = cond[h]
    BY <1>0, <1>3, <1>5, <2>1 DEF InitializeDestroys, InitializeRevives
  <2>3. QED
    BY <1>0, <1>1, <2>1, <2>2 DEF c, h
<1>6. CASE cond' = cond /\ ~ LookupCreate(t) /\ ~ Destroy(t)
  BY <1>0, <1>1, <1>6, RegistryMoves DEF c, h
<1>7. QED
  BY <1>2, <1>4, <1>5, <1>6, CondMoves

LEMMA KnownKept ==
  ASSUME TypeOK, RegistryInv, OpsApart, \A u \in Threads : Known(u),
         NEW t \in Threads, Guest(t) \/ Step(t), NEW u \in Threads
  PROVE  Known(u)'
<1>0. /\ call \in [Threads -> CallRecords] /\ pc \in [Threads -> Places] /\ CallMatches(t)
      /\ call[t] \in CallRecords
      /\ entry \in [Conds -> [condition : 0 .. Hosts, gate : 0 .. Hosts]]
  BY DEF TypeOK, CallRecords, RegistryInv, CallsMatch
<1>1. CASE u # t
  <2>1. /\ call'[u] = call[u]
        /\ pc'[u] = pc[u] \/ (pc[u] = "sleep" /\ pc'[u] = "woken")
    BY <1>1, OthersStay DEF Others
  <2>2. CASE pc[u] \in WaitPlaces
    BY <2>1, <2>2, KnownStays DEF Known
  <2>3. CASE pc[u] \notin WaitPlaces
    BY <2>1, <2>3 DEF Known, WaitPlaces
  <2>4. QED
    BY <2>2, <2>3
<1>2. ASSUME pc[t] \in WaitPlaces, call'[t].cond = call[t].cond, call'[t].host = call[t].host,
             call'[t].gate = call[t].gate,
             pc'[t] = "sleep" => call'[t].life = cond[call[t].host].life
      PROVE  Known(t)'
  BY <1>2, KnownStays DEF Known
<1>3. ASSUME NEW e, Found(t, e), entry'[call[t].cond] = e,
             e \in [condition : 0 .. Hosts, gate : 0 .. Hosts]
      PROVE  Known(t)'
  <2>1. CASE call[t].op = "initialize"
    <3>1. pc'[t] = "run"
      BY <1>0, <1>3, <2>1 DEF Found, AfterLookup, Goes
    <3>2. QED
      BY <3>1 DEF Known, WaitPlaces
  <2>2. CASE call[t].op # "initialize"
    <3>1. pc'[t] # "sleep"
      BY <1>0, <1>3 DEF Found, AfterLookup, Goes
    <3>2. /\ call'[t].cond = call[t].cond /\ call'[t].host = e.condition
          /\ call'[t].gate = e.gate
      BY <1>0, <1>3, <2>2 DEF Found, CallRecords
    <3>3. e = [condition |-> e.condition, gate |-> e.gate]
      BY <1>3
    <3>4. QED
      BY <1>3, <3>1, <3>2, <3>3 DEF Known
  <2>3. QED
    BY <2>1, <2>2
<1>4. ASSUME pc'[t] \notin WaitPlaces
      PROVE  Known(t)'
  BY <1>4 DEF Known
<1>5. CASE Guest(t)
  <2>1. pc'[t] \in {"run", "lookup", "renew"}
    BY <1>0, <1>5 DEF Guest, Lock, Unlock, WaitCall, WakeCall, RenewCall, Calls, Goes
  <2>2. Known(t)'
    BY <1>4, <2>1 DEF WaitPlaces
  <2>3. QED
    BY <1>1, <2>2
<1>6. CASE Lookup(t)
  <2>1. call[t].cond \in Conds /\ Found(t, entry[call[t].cond]) /\ entry' = entry
    BY <1>0, <1>6 DEF Lookup, registry, CallMatches
  <2>2. QED
    BY <1>0, <1>1, <1>3, <2>1
<1>7. CASE LookupCreate(t)
  <2>1. PICK h \in Objects, g \in 0 .. Hosts :
           /\ call[t].cond \in Conds
           /\ entry' = [entry EXCEPT ![call[t].cond] = [condition |-> h, gate |-> g]]
           /\ Found(t, [condition |-> h, gate |-> g])
    BY <1>7, CreateMoves
  <2>2. entry'[call[t].cond] = [condition |-> h, gate |-> g]
    BY <1>0, <2>1
  <2>3. [condition |-> h, gate |-> g] \in [condition : 0 .. Hosts, gate : 0 .. Hosts]
    BY DEF Objects
  <2>4. Known(t)'
    BY <1>3, <2>1, <2>2, <2>3
  <2>5. QED
    BY <1>1, <2>4
<1>8. CASE HostWait(t) \/ Park(t)
  <2>1. /\ pc[t] \in WaitPlaces
        /\ \/ pc'[t] = "run"
           \/ pc'[t] = "leave" /\ call' = call
           \/ pc'[t] = "sleep" /\ call' = [call EXCEPT ![t].life = cond[call[t].host].life]
    BY <1>0, <1>8 DEF HostWait, Park, Returns, Goes, WaitPlaces
  <2>2. CASE pc'[t] = "run"
    BY <1>1, <1>4, <2>2 DEF WaitPlaces
  <2>3. CASE pc'[t] = "leave" /\ call' = call
    BY <1>1, <1>2, <2>1, <2>3
  <2>4. CASE pc'[t] = "sleep" /\ call' = [call EXCEPT ![t].life = cond[call[t].host].life]
    <3>1. /\ call'[t].cond = call[t].cond /\ call'[t].host = call[t].host
          /\ call'[t].gate = call[t].gate /\ call'[t].life = cond[call[t].host].life
      BY <1>0, <2>4 DEF CallRecords
    <3>2. QED
      BY <1>1, <1>2, <2>1, <3>1
  <2>5. QED
    BY <2>1, <2>2, <2>3, <2>4
<1>9. CASE GateEnter(t) \/ GateRetake(t) \/ GateLeave(t) \/ Expire(t)
  <2>1. pc[t] \in WaitPlaces /\ call' = call /\ pc'[t] # "sleep"
    BY <1>0, <1>9 DEF GateEnter, GateRetake, GateLeave, Expire, Goes, WaitPlaces
  <2>2. QED
    BY <1>1, <1>2, <2>1
<1>10. CASE GateToken(t) \/ Relock(t)
  <2>1. pc'[t] = "run"
    BY <1>10, ReturnsMoves DEF GateToken, Relock
  <2>2. QED
    BY <1>1, <1>4, <2>1 DEF WaitPlaces
<1>11. CASE HostWake(t) \/ GateWake(t)
  <2>1. pc[t] # "sleep" /\ (Wakes(t, "run") \/ Goes(t, "run"))
    BY <1>11 DEF HostWake, GateWake
  <2>2. pc'[t] = "run"
    BY <1>0, <2>1, WakeMoves DEF Goes
  <2>3. QED
    BY <1>1, <1>4, <2>2 DEF WaitPlaces
<1>12. CASE Renew(t)
  <2>1. pc'[t] \in {"run", "lookup", "retire", "revive", "clear"}
    <3>1. CASE RenewBroadcast(t)
      BY <3>1, WakesMoves DEF RenewBroadcast, Places
    <3>2. CASE ~ RenewBroadcast(t)
      BY <1>0, <1>12, <3>2 DEF Renew, RenewUnknown, Destroy, InitializeDestroys,
         InitializeRevives, InitializeClears, Returns, Goes
    <3>3. QED
      BY <3>1, <3>2
  <2>2. QED
    BY <1>1, <1>4, <2>1 DEF WaitPlaces
<1>13. QED
  BY <1>5, <1>6, <1>7, <1>8, <1>9, <1>10, <1>11, <1>12 DEF Step, Runs, Wait

\* A waiter that is on its way out stays so until it has left.
LEMMA ReturningStays ==
  ASSUME TypeOK, CallsMatch, NEW t \in Threads, Guest(t) \/ Step(t), NEW g \in Objects,
         NEW u \in Returning(g), ~ (u = t /\ GateLeave(t))
  PROVE  u \in Returning(g)'
<1>0. /\ u \in Threads /\ call[u].gate = g /\ pc[u] \in {"woken", "leave"} /\ g # 0
      /\ pc \in [Threads -> Places] /\ CallMatches(u)
  BY DEF Returning, InWindow, Objects, TypeOK, CallsMatch
<1>1. CASE u # t
  BY <1>0, <1>1, OthersStay DEF Others, Returning, InWindow
<1>2. CASE u = t
  <2>1. gated
    BY <1>0 DEF CallMatches, WaitPlaces
  <2>2. GateRetake(t) \/ GateLeave(t)
    <3>1. ~ Guest(t)
      BY <1>0, <1>2 DEF Guest, Lock, Unlock, WaitCall, WakeCall, RenewCall, Calls
    <3>2. ~ (Lookup(t) \/ LookupCreate(t) \/ HostWake(t) \/ GateWake(t) \/ Renew(t))
      BY <1>0, <1>2 DEF Lookup, LookupCreate, HostWake, GateWake, Renew, RenewUnknown,
         RenewBroadcast, Destroy, InitializeDestroys, InitializeRevives, InitializeClears
    <3>3. ~ (HostWait(t) \/ GateToken(t) \/ GateEnter(t) \/ Park(t) \/ Relock(t) \/ Expire(t))
      BY <1>0, <1>2, <2>1 DEF HostWait, GateToken, GateEnter, Park, Relock, Expire
    <3>4. QED
      BY <3>1, <3>2, <3>3 DEF Step, Runs, Wait
  <2>3. GateRetake(t)
    BY <1>2, <2>2
  <2>4. pc'[t] = "leave" /\ call' = call
    BY <1>0, <1>2, <2>3 DEF GateRetake, Goes
  <2>5. QED
    BY <1>0, <1>2, <2>4 DEF Returning, InWindow
<1>3. QED
  BY <1>1, <1>2

\* What is owed changes with the gate.
LEMMA OwedMoves ==
  ASSUME TypeOK, NEW t \in Threads, Guest(t) \/ Step(t), NEW g \in Objects, owed'[g]
  PROVE  \/ /\ owed[g] /\ ~ (call[t].gate = g /\ (GateToken(t) \/ GateLeave(t)))
            /\ gate[g].pending => gate'[g].pending
         \/ GateWake(t) /\ call[t].gate = g
<1>0. /\ owed \in [Objects -> BOOLEAN] /\ gate \in [Objects -> GateRecords]
      /\ gate[g] \in GateRecords
  BY DEF TypeOK, GateRecords
<1>1. CASE Guest(t)
  BY <1>1 DEF Guest, Lock, Unlock, WaitCall, WakeCall, RenewCall, Calls, GateToken, GateLeave
<1>2. CASE \/ Lookup(t) \/ LookupCreate(t) \/ HostWait(t) \/ Relock(t) \/ HostWake(t)
           \/ RenewUnknown(t) \/ RenewBroadcast(t) \/ Destroy(t) \/ InitializeDestroys(t)
           \/ InitializeRevives(t) \/ Expire(t)
  <2>1. owed' = owed /\ gate' = gate
    BY <1>2 DEF Lookup, LookupCreate, Found, HostWait, Relock, HostWake, RenewUnknown,
       RenewBroadcast, Destroy, InitializeDestroys, InitializeRevives, Expire
  <2>2. ~ GateToken(t) /\ ~ GateLeave(t)
    BY <1>2 DEF Lookup, LookupCreate, HostWait, Relock, HostWake, RenewUnknown,
       RenewBroadcast, Destroy, InitializeDestroys, InitializeRevives, Expire, GateToken, GateLeave
  <2>3. QED
    BY <2>1, <2>2
<1>3. CASE GateEnter(t) \/ Park(t) \/ GateRetake(t)
  <2>1. owed' = owed
    BY <1>3 DEF GateEnter, Park, GateRetake
  <2>2. gate'[g].pending = gate[g].pending
    BY <1>0, <1>3 DEF GateEnter, Park, GateRetake, GateRecords
  <2>3. ~ GateToken(t) /\ ~ (GateLeave(t) /\ call[t].gate = g)
    <3>1. ~ GateToken(t)
      BY <1>3 DEF GateEnter, Park, GateRetake, GateToken
    <3>2. ~ (GateLeave(t) /\ call[t].gate = g)
      BY <1>0 DEF GateLeave
    <3>3. QED
      BY <3>1, <3>2
  <2>4. QED
    BY <2>1, <2>2, <2>3
<1>4. CASE GateToken(t) \/ GateLeave(t)
  <2>1. call[t].gate # g
    BY <1>0, <1>4 DEF GateToken, GateLeave
  <2>2. owed'[g] = owed[g] /\ gate'[g] = gate[g]
    BY <1>0, <1>4, <2>1 DEF GateToken, GateLeave
  <2>3. QED
    BY <2>1, <2>2
<1>5. CASE GateWake(t) /\ call[t].gate # g
  BY <1>0, <1>5 DEF GateWake, GateToken, GateLeave
<1>6. CASE InitializeClears(t)
  <2>1. entry[call[t].cond].gate # g
    BY <1>0, <1>6 DEF InitializeClears
  <2>2. owed'[g] = owed[g] /\ gate'[g] = gate[g]
    BY <1>0, <1>6, <2>1 DEF InitializeClears
  <2>3. ~ GateToken(t) /\ ~ GateLeave(t)
    BY <1>6 DEF InitializeClears, GateToken, GateLeave
  <2>4. QED
    BY <2>2, <2>3
<1>7. QED
  BY <1>1, <1>2, <1>3, <1>4, <1>5, <1>6 DEF Step, Runs, Wait, Renew

\* A wake that finds a waiter asleep in the gate wakes one of the gate's.
LEMMA WakeReaches ==
  ASSUME TypeOK, RegistryInv, PairsKept, \A u \in Threads : Known(u),
         NEW t \in Threads, GateWake(t), NEW g \in Objects, call[t].gate = g,
         gate[g].waiters > 0, cond[call[t].host].live,
         NEW u \in InWindow(g), pc[u] = "sleep"
  PROVE  Returning(g)' # {}
<1> DEFINE h == call[t].host
<1>0. /\ Apart /\ u \in Threads /\ call[u].gate = g /\ g # 0
      /\ cond[h].live /\ pc[t] = "gateWake"
  BY RegistryParts DEF RegistryInv, InWindow, Objects, GateWake
<1>1. Wakes(t, "run") /\ call' = [call EXCEPT ![t] = Idle]
  BY DEF GateWake
<1>2. call[u].host = h
  BY <1>0 DEF PairsKept
<1>3. call[u].life = cond[h].life
  BY <1>0, <1>2 DEF Known, WaitPlaces
<1>4. u \in Sleepers(h)
  BY <1>0, <1>2, <1>3 DEF Sleepers
<1>5. PICK v \in Sleepers(h) : v # t /\ pc'[v] = "woken"
  BY <1>0, <1>1, <1>4, WakeMoves
<1>6. v \in Threads /\ pc[v] = "sleep" /\ call[v].host = h
  BY <1>5 DEF Sleepers
<1>7. ASSUME NEW w \in Threads, pc[w] = "sleep", call[w].host = h
      PROVE  /\ call[w].cond \in Registered /\ entry[call[w].cond].condition = h
             /\ entry[call[w].cond].gate = call[w].gate
  <2>1. /\ call[w].cond \in Conds /\ h # 0
    BY <1>7 DEF RegistryInv, CallsMatch, CallMatches, WaitPlaces, Objects
  <2>2. entry[call[w].cond] = [condition |-> h, gate |-> call[w].gate]
    BY <1>7 DEF Known, WaitPlaces
  <2>3. entry[call[w].cond] # NoEntry
    BY <2>1, <2>2 DEF NoEntry
  <2>4. QED
    BY <2>1, <2>2, <2>3 DEF Registered
<1>8. call[v].cond = call[u].cond
  BY <1>0, <1>2, <1>6, <1>7 DEF Apart
<1>9. call[v].gate = g
  BY <1>0, <1>2, <1>6, <1>7, <1>8
<1>10. call'[v] = call[v]
  BY <1>1, <1>5, <1>6 DEF TypeOK
<1>11. v \in Returning(g)'
  BY <1>5, <1>6, <1>9, <1>10 DEF Returning, InWindow
<1>12. QED
  BY <1>11

LEMMA OwedKept ==
  ASSUME TypeOK, RegistryInv, PairsKept, GateHeld, WaitersExact,
         \A u \in Threads : Known(u), OwedMet, NEW t \in Threads, Guest(t) \/ Step(t)
  PROVE  OwedMet'
<1> SUFFICES ASSUME NEW g \in Objects, owed'[g]
             PROVE  gate'[g].pending \/ Returning(g)' # {}
  BY DEF OwedMet
<1>0. CallsMatch /\ None \notin Threads
  BY CondAssumption DEF RegistryInv
<1>1. ASSUME owed[g], ~ (call[t].gate = g /\ (GateToken(t) \/ GateLeave(t))),
             gate[g].pending => gate'[g].pending
      PROVE  gate'[g].pending \/ Returning(g)' # {}
  <2>1. CASE gate[g].pending
    BY <1>1, <2>1
  <2>2. CASE Returning(g) # {}
    <3>1. PICK u \in Returning(g) : TRUE
      BY <2>2
    <3>2. call[u].gate = g
      BY <3>1 DEF Returning, InWindow
    <3>3. ~ (u = t /\ GateLeave(t))
      BY <1>1, <3>2
    <3>4. u \in Returning(g)'
      BY <1>0, <3>1, <3>3, ReturningStays
    <3>5. QED
      BY <3>4
  <2>3. QED
    BY <1>1, <2>1, <2>2 DEF OwedMet
<1>2. ASSUME GateWake(t), call[t].gate = g
      PROVE  gate'[g].pending \/ Returning(g)' # {}
  <2>1. /\ gate[g].lock = None /\ pc[t] = "gateWake"
        /\ gate[g].waiters \in Nat
        /\ owed'[g] = (owed[g] \/ gate[g].waiters = 0 \/ cond[call[t].host].live)
    BY <1>2 DEF GateWake, TypeOK
  <2>2. CASE gate[g].waiters = 0
    <3>1. gate' = [gate EXCEPT ![g].pending = TRUE]
      BY <1>2, <2>2 DEF GateWake
    <3>2. gate'[g].pending
      BY <3>1 DEF TypeOK
    <3>3. QED
      BY <3>2
  <2>3. CASE gate[g].waiters > 0
    <3>1. PICK u \in InWindow(g) : TRUE
      BY <2>3, WindowFinite
    <3>2. /\ u \in Threads /\ call[u].gate = g
          /\ pc[u] \in {"park", "sleep", "woken", "leave"}
      BY <3>1 DEF InWindow
    <3>3. pc[u] \notin {"park", "leave"}
      BY <1>0, <2>1, <3>2 DEF GateHeld
    <3>4. CASE pc[u] = "woken"
      <4>1. u \in Returning(g) /\ u # t
        BY <2>1, <3>1, <3>4 DEF Returning
      <4>2. u \in Returning(g)'
        BY <1>0, <4>1, ReturningStays
      <4>3. QED
        BY <4>2
    <3>5. CASE pc[u] = "sleep" /\ cond[call[t].host].live
      BY <1>2, <2>3, <3>1, <3>5, WakeReaches
    <3>6. CASE pc[u] = "sleep" /\ ~ cond[call[t].host].live
      <4>1. owed[g]
        <5>1. owed[g] \/ gate[g].waiters = 0 \/ cond[call[t].host].live
          BY <2>1, Zenon
        <5>2. gate[g].waiters # 0
          BY <2>3
        <5>3. QED
          BY <3>6, <5>1, <5>2
      <4>2. gate' = gate
        BY <1>2, <2>3 DEF GateWake
      <4>3. ~ GateToken(t) /\ ~ GateLeave(t)
        BY <2>1 DEF GateToken, GateLeave
      <4>4. QED
        BY <1>1, <4>1, <4>2, <4>3
    <3>7. QED
      BY <3>2, <3>3, <3>4, <3>5, <3>6
  <2>4. QED
    BY <2>1, <2>2, <2>3
<1>3. QED
  BY <1>1, <1>2, OwedMoves

-----------------------------------------------------------------------------
(* The theorems *)

LEMMA InitHolds ==
  ASSUME Init
  PROVE  CondInv
<1>0. /\ None \notin Threads /\ Hosts \in Nat /\ IsFiniteSet(Threads) /\ Titles \subseteq BOOLEAN
  BY CondAssumption
<1>1. TypeOK
  <2>1. /\ gated \in BOOLEAN /\ freeConds \in Seq(Objects) /\ born \in 0 .. Hosts
        /\ gates \in 0 .. Hosts /\ tableLock \in Threads \cup {None}
        /\ owner \in [Mutexes -> Threads \cup {None}]
        /\ owed \in [Objects -> BOOLEAN]
        /\ renewals \in Nat /\ overtaken \in BOOLEAN
    <3>1. gated \in BOOLEAN
      BY <1>0 DEF Init
    <3>2. /\ born \in 0 .. Hosts /\ gates \in 0 .. Hosts /\ renewals \in Nat
          /\ freeConds \in Seq(Objects)
      BY <1>0 DEF Init
    <3>3. /\ tableLock \in Threads \cup {None} /\ owner \in [Mutexes -> Threads \cup {None}]
          /\ owed \in [Objects -> BOOLEAN] /\ overtaken \in BOOLEAN
      BY DEF Init
    <3>4. QED
      BY <3>1, <3>2, <3>3
  <2>2. entry \in [Conds -> [condition : 0 .. Hosts, gate : 0 .. Hosts]]
    BY <1>0 DEF Init, NoEntry
  <2>3. /\ cond \in [Objects -> [live : BOOLEAN, life : Nat]]
        /\ gate \in [Objects -> GateRecords]
    BY DEF Init, GateRecords
  <2>4. call \in [Threads -> CallRecords] /\ pc \in [Threads -> Places]
    BY IdleIsACall DEF Init, Places
  <2>5. QED
    BY <2>1, <2>2, <2>3, <2>4 DEF TypeOK, CallRecords, GateRecords
<1>2. WaitersExact
  <2>1. \A g \in Objects : InWindow(g) = {} /\ gate[g].waiters = 0
    BY DEF Init, InWindow
  <2>2. QED
    BY <2>1, FS_EmptySet DEF WaitersExact
<1>3. Registered = {} /\ DOMAIN freeConds = {}
  BY DEF Init, Registered
<1>4. RegistrySound /\ Allocated
  BY <1>3 DEF RegistrySound, Allocated
<1>5. CallsMatch /\ TableHeld /\ GateHeld /\ PairsKept
  <2>1. \A t \in Threads : pc[t] = "run" /\ call[t] = Idle /\ call[t].gate = 0
    BY DEF Init, Idle
  <2>2. QED
    BY <2>1 DEF CallsMatch, CallMatches, TableHeld, GateHeld, PairsKept, WaitPlaces, WakePlaces,
       TablePlaces
<1>6. WaitsFresh /\ OwedMet
  <2>1. /\ \A t \in Threads : pc[t] = "run" /\ call[t].op = "none"
        /\ \A g \in Objects : ~ owed[g]
    BY DEF Init, Idle
  <2>2. QED
    BY <2>1 DEF WaitsFresh, OwedMet, WaitPlaces
<1>7. QED
  BY <1>1, <1>2, <1>4, <1>5, <1>6 DEF CondInv

LEMMA StepKeeps ==
  ASSUME CondInv, NEW t \in Threads, Guest(t) \/ Step(t)
  PROVE  CondInv'
<1>0. /\ TypeOK /\ WaitersExact /\ RegistryInv /\ GateHeld /\ PairsKept
      /\ CallsMatch /\ TableHeld /\ Allocated
      /\ ~ overtaken => OpsApart /\ (\A u \in Threads : Known(u)) /\ OwedMet
  BY FreshParts DEF CondInv, RegistryInv
<1>1. TypeOK' /\ WaitersExact' /\ RegistryInv' /\ GateHeld' /\ PairsKept'
  BY <1>0, TypeKept, WaitersKept, RegistryKept, GateHeldKept, PairsStay
<1>2. ASSUME ~ overtaken'
      PROVE  WaitsFresh' /\ OwedMet'
  <2>1. ~ overtaken /\ OpsApart'
    BY <1>0, <1>2, OpsKept
  <2>2. \A u \in Threads : Known(u)'
    BY <1>0, <2>1, KnownKept
  <2>3. OwedMet'
    BY <1>0, <2>1, OwedKept
  <2>4. WaitsFresh'
    BY <2>1, <2>2 DEF WaitsFresh, OpsApart, Known
  <2>5. QED
    BY <2>3, <2>4
<1>3. QED
  BY <1>1, <1>2 DEF CondInv, RegistryInv

\* The inductive invariant of the condition variables: where each call is tells
\* what it may use, the locks are held where the code holds them, the registry
\* and the free list are apart, a gate keeps its host condition, and, as long as
\* no renewal overtakes a wait, every wait is on what the registry names.
THEOREM CondInvariant == Spec => []CondInv
<1>1. CondInv /\ UNCHANGED vars => CondInv'
  <2> SUFFICES ASSUME CondInv, UNCHANGED vars
               PROVE  CondInv'
    OBVIOUS
  <2>1. /\ UNCHANGED <<gated, entry, freeConds, born, gates, cond, gate, tableLock, owner, pc>>
        /\ UNCHANGED <<call, owed, renewals, overtaken>>
    BY DEF vars, registry, history
  <2>2. TypeOK'
    BY <2>1 DEF CondInv, TypeOK
  <2>3. Registered' = Registered /\ \A g \in Objects : InWindow(g)' = InWindow(g)
    BY <2>1 DEF Registered, InWindow
  <2>4. WaitersExact' /\ GateHeld' /\ TableHeld'
    BY <2>1, <2>3 DEF CondInv, WaitersExact, GateHeld, TableHeld
  <2>5. RegistrySound'
    BY <2>1, <2>3 DEF CondInv, RegistrySound
  <2>6. Allocated' /\ PairsKept'
    BY <2>1, <2>3 DEF CondInv, Allocated, PairsKept
  <2>7. CallsMatch'
    BY <2>1 DEF CondInv, CallsMatch, CallMatches
  <2>8. ~ overtaken' => WaitsFresh' /\ OwedMet'
    BY <2>1, <2>3 DEF CondInv, WaitsFresh, OwedMet, Returning
  <2>9. QED
    BY <2>2, <2>4, <2>5, <2>6, <2>7, <2>8 DEF CondInv
<1>2. CondInv /\ [Next]_vars => CondInv'
  BY <1>1, StepKeeps DEF Next
<1>3. QED
  BY <1>2, InitHolds, PTL DEF Spec

\* Registry, host conditions, gates and calls keep their types.
THEOREM CondTyped == Spec => []TypeOK
<1>1. CondInv => TypeOK
  BY DEF CondInv
<1>2. QED
  BY <1>1, CondInvariant, PTL

\* guest_cond_block counts a waiter into gate->waiters and out again exactly
\* once, whoever wakes, times out, destroys or initializes in between.
THEOREM WaitersCounted == Spec => []WaitersExact
<1>1. CondInv => WaitersExact
  BY DEF CondInv
<1>2. QED
  BY <1>1, CondInvariant, PTL

\* host_cond_for_guest, guest_cond_destroy and guest_cond_initialize never give
\* one host condition or gate to two addresses, and no lookup returns a destroyed
\* one: guest_cond_destroy removes the entry under the lock it destroys under.
THEOREM RegistryIsSound == Spec => []RegistrySound
<1>1. CondInv => RegistrySound
  BY DEF CondInv
<1>2. QED
  BY <1>1, CondInvariant, PTL

\* guest_cond_wake, for any number of threads, conditions and renewals: a wake
\* that a gate accepted leaves a token or a waiter on its way out until some wait
\* on the gate has returned, unless the guest renewed a condition under a wait.
THEOREM WakesAreKept == Spec => []WakeNotLost
<1>1. CondInv => WakeNotLost
  BY DEF CondInv, OwedMet, Returning, WakeNotLost, AwakeInWindow
<1>2. QED
  BY <1>1, CondInvariant, PTL

=============================================================================
