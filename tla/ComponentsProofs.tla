--------------------------- MODULE ComponentsProofs ---------------------------
(***************************************************************************)
(* What is proved of the components that Components puts side by side.  A  *)
(* behaviour of it is a behaviour of each, which takes all of its steps or *)
(* none, so that what holds of a component for all constants holds of it   *)
(* there.  For files, the heap and the replacement it is what the theorems *)
(* about GuestFiles, GuestHeap and SteamReplacement say; the rest is       *)
(* proved here of the instance.                                            *)
(***************************************************************************)
EXTENDS Components, FiniteSetTheorems, WellFoundedInduction, TLAPS

-----------------------------------------------------------------------------
(* The dispatch of imports *)

LEMMA DispatchAssumed == Imports!DispatchAssumption
BY ComponentsAssumption

LEMMA DispatchBehaves == Spec => Imports!DispatchSpec
<1>1. Init => Imports!DispatchInit
  BY DEF Init
<1>2. [Next]_vars => [Imports!DispatchNext]_(Imports!dispatchVars)
  BY DEF Next, Alone, vars, dispatchVars, Imports!dispatchVars
<1>3. QED
  BY <1>1, <1>2, PTL DEF Spec, Imports!DispatchSpec

\* The first handler that knows a name is one that none before knows.
LEMMA FirstIsFirst ==
  ASSUME NEW k \in SUBSET Imports!Handlers, k # {}
  PROVE  \E i \in 1 .. 6 :
           /\ Imports!FirstOf(k) = Imports!Order[i] /\ Imports!Order[i] \in k
           /\ \A j \in 1 .. i - 1 : Imports!Order[j] \notin k
<1> DEFINE P(i) == Imports!Order[i] \in k /\ \A j \in 1 .. i - 1 : Imports!Order[j] \notin k
<1>1. DOMAIN Imports!Order = 1 .. 6
  BY DEF Imports!Order
<1>2. \E i \in 1 .. 6 : P(i)
  <2>1. k \subseteq {Imports!Order[i] : i \in 1 .. 6}
    BY DEF Imports!Order, Imports!Handlers
  <2>2. PICK i \in 1 .. 6 : Imports!Order[i] \in k
    BY <2>1
  <2> DEFINE A(n) == n \in 1 .. 6 /\ Imports!Order[n] \in k
  <2>3. A(1) => P(1)
    OBVIOUS
  <2>4. ~ A(1) /\ A(2) => P(2)
    OBVIOUS
  <2>5. ~ A(1) /\ ~ A(2) /\ A(3) => P(3)
    OBVIOUS
  <2>6. ~ A(1) /\ ~ A(2) /\ ~ A(3) /\ A(4) => P(4)
    OBVIOUS
  <2>7. ~ A(1) /\ ~ A(2) /\ ~ A(3) /\ ~ A(4) /\ A(5) => P(5)
    OBVIOUS
  <2>8. ~ A(1) /\ ~ A(2) /\ ~ A(3) /\ ~ A(4) /\ ~ A(5) /\ A(6) => P(6)
    OBVIOUS
  <2>9. A(1) \/ A(2) \/ A(3) \/ A(4) \/ A(5) \/ A(6)
    BY <2>2
  <2> HIDE DEF A, P
  <2>10. QED
    BY <2>3, <2>4, <2>5, <2>6, <2>7, <2>8, <2>9
<1>3. Imports!FirstOf(k) = Imports!Order[CHOOSE i \in 1 .. 6 : P(i)]
  BY <1>1 DEF Imports!FirstOf
<1> HIDE DEF P
<1>4. P(CHOOSE i \in 1 .. 6 : P(i)) /\ (CHOOSE i \in 1 .. 6 : P(i)) \in 1 .. 6
  BY <1>2
<1>5. QED
  BY <1>3, <1>4 DEF P

\* A stage that answered leaves out only names that it would have passed over.
LEMMA SkipsNothing ==
  ASSUME NEW k \in SUBSET Imports!Handlers, NEW s \in Imports!Stages,
         s # "unknown" => s = Imports!FirstOf(k)
  PROVE  k \ Imports!Before[s] = k
<1>1. CASE k = {}
  BY <1>1
<1>2. CASE k # {} /\ s # "unknown"
  <2>1. PICK i \in 1 .. 6 : s = Imports!Order[i] /\ \A j \in 1 .. i - 1 : Imports!Order[j] \notin k
    BY <1>2, FirstIsFirst
  <2>2. CASE s = "audio"
    <3>1. i = 5
      BY <2>1, <2>2 DEF Imports!Order
    <3>2. QED
      BY <2>1, <2>2, <3>1 DEF Imports!Order, Imports!Before
  <2>3. CASE s = "objc"
    <3>1. i = 6
      BY <2>1, <2>3 DEF Imports!Order
    <3>2. Imports!Order[4] \notin k /\ Imports!Order[5] \notin k
      BY <2>1, <3>1
    <3>3. QED
      BY <2>3, <3>2 DEF Imports!Order, Imports!Before
  <2>4. QED
    BY <1>2, <2>2, <2>3 DEF Imports!Stages
<1>3. CASE s = "unknown"
  BY <1>3 DEF Imports!Before
<1>4. QED
  BY <1>1, <1>2, <1>3

LEMMA FirstIsHandler ==
  ASSUME NEW k \in SUBSET Imports!Handlers
  PROVE  Imports!FirstOf(k) \in Imports!Handlers \cup {"trap"}
<1>1. CASE k = {}
  BY <1>1 DEF Imports!FirstOf
<1>2. CASE k # {}
  BY <1>2, FirstIsFirst
<1>3. QED
  BY <1>1, <1>2

LEMMA InitDispatch == Imports!DispatchInit => Imports!DispatchInv
<1> SUFFICES ASSUME Imports!DispatchInit PROVE Imports!DispatchInv
  OBVIOUS
<1> USE DispatchAssumed DEF Imports!DispatchAssumption, Imports!DispatchInit
<1>1. Imports!DispatchTypeOK
  BY DEF Imports!DispatchTypeOK, Imports!Stages
<1>2. Imports!MemosTell
  BY DEF Imports!MemosTell, Imports!Slots
<1>3. Imports!NamesReady /\ Imports!DispatchSound
  BY DEF Imports!NamesReady, Imports!DispatchSound
<1>4. QED
  BY <1>1, <1>2, <1>3 DEF Imports!DispatchInv

\* A call of an import: what was worked out before stays so.
LEMMA DispatchKeeps ==
  ASSUME Imports!DispatchInv, NEW t \in Guests, NEW id \in DOMAIN table, Imports!Dispatch(t, id)
  PROVE  Imports!DispatchInv'
<1> DEFINE fast == direct[id] = "direct"
           new == [id |-> id, at |-> IF fast THEN "handling" ELSE "named",
                   by |-> IF fast THEN "direct" ELSE "nobody", stage |-> "unknown"]
<1> USE DispatchAssumed DEF Imports!DispatchAssumption, Imports!Slot
<1>1. /\ frames[t] = <<>> \/ (Imports!Busy(t, "handling") /\ Len(frames[t]) < Depth)
      /\ frames' = [frames EXCEPT ![t] = Append(@, new)]
      /\ base' = IF ~ fast /\ table[id].variant THEN [base EXCEPT ![t] = table[id]] ELSE base
      /\ UNCHANGED <<table, stages, direct, matched>>
  BY DEF Imports!Dispatch, Imports!Buffer
<1>2. id \in Imports!Slots /\ table[id] \in Imports!Names /\ table \in Tables
  BY DEF Imports!DispatchInv, Imports!Slots
<1>3. frames[t] \in Seq(Imports!Frames) /\ new \in Imports!Frames /\ t \in DOMAIN frames
      /\ frames \in [Guests -> Seq(Imports!Frames)]
  BY <1>2 DEF Imports!DispatchInv, Imports!DispatchTypeOK, Imports!Frames, Imports!Stages
<1> DEFINE n == Len(frames[t])
<1> HIDE DEF new
<1>4. /\ frames'[t] = Append(frames[t], new) /\ Len(frames'[t]) = n + 1 /\ n \in Nat
      /\ \A u \in Guests : u # t => frames'[u] = frames[u]
      /\ frames' \in [Guests -> Seq(Imports!Frames)]
      /\ frames'[t][n + 1] = new
      /\ \A i \in 1 .. n : frames'[t][i] = frames[t][i]
      /\ DOMAIN frames'[t] = 1 .. n + 1 /\ DOMAIN frames[t] = 1 .. n
  BY <1>1, <1>3
<1>5. n < Depth
  BY <1>1, <1>3 DEF Imports!Busy
<1>6. Imports!DispatchTypeOK'
  BY <1>1, <1>4, <1>5 DEF Imports!DispatchInv, Imports!DispatchTypeOK
<1>7. base' \in [Guests -> Imports!Names \cup {Imports!NoName}]
  BY <1>1, <1>2 DEF Imports!DispatchInv
<1>8. Imports!MemosTell'
  BY <1>1 DEF Imports!DispatchInv, Imports!MemosTell
<1>9. \A i \in 1 .. n : frames[t][i].at # "named"
  BY <1>1, <1>3 DEF Imports!DispatchInv, Imports!NamesReady, Imports!Busy, Imports!Top
<1>10. Imports!NamesReady'
  <2> SUFFICES ASSUME NEW u \in Guests, NEW i \in DOMAIN frames'[u]
               PROVE  /\ frames'[u][i].id \in DOMAIN table
                      /\ frames'[u][i].at = "named" =>
                           /\ i = Len(frames'[u])
                           /\ table[frames'[u][i].id].variant => base'[u] = table[frames'[u][i].id]
    BY <1>1 DEF Imports!NamesReady
  <2>1. CASE u # t
    BY <1>1, <1>4, <2>1 DEF Imports!DispatchInv, Imports!NamesReady
  <2>2. CASE u = t /\ i = n + 1
    BY <1>1, <1>3, <1>4, <2>2 DEF new, Imports!DispatchInv
  <2>3. CASE u = t /\ i # n + 1
    <3>1. i \in 1 .. n /\ frames'[u][i] = frames[t][i]
      BY <1>4, <2>3
    <3>2. frames[t][i].id \in DOMAIN table /\ frames[t][i].at # "named"
      BY <1>4, <1>9, <3>1 DEF Imports!DispatchInv, Imports!NamesReady
    <3>3. QED
      BY <3>1, <3>2
  <2>4. QED
    BY <2>1, <2>2, <2>3
<1>11. Imports!DispatchSound'
  <2> SUFFICES ASSUME NEW u \in Guests, NEW i \in DOMAIN frames'[u], frames'[u][i].at # "named"
               PROVE  \/ frames'[u][i].by = Imports!FirstOf(table[frames'[u][i].id].known)
                      \/ frames'[u][i].by = "direct" /\ table[frames'[u][i].id].fast
    BY <1>1 DEF Imports!DispatchSound
  <2>1. CASE u # t \/ i # n + 1
    <3>1. i \in DOMAIN frames[u] /\ frames'[u][i] = frames[u][i]
      BY <1>4, <2>1, SMTT(40)
    <3>2. QED
      BY <3>1 DEF Imports!DispatchInv, Imports!DispatchSound
  <2>2. CASE u = t /\ i = n + 1
    BY <1>4, <2>2 DEF new, Imports!DispatchInv, Imports!MemosTell
  <2>3. QED
    BY <2>1, <2>2
<1>12. QED
  BY <1>1, <1>6, <1>7, <1>8, <1>10, <1>11 DEF Imports!DispatchInv

\* The steps on a thread's last call: what they make of its record.
LEMMA LastCall ==
  ASSUME Imports!DispatchInv, NEW t \in Guests, frames[t] # <<>>
  PROVE  LET n == Len(frames[t])
             frame == frames[t][n] IN
           /\ n \in Nat \ {0} /\ DOMAIN frames[t] = 1 .. n
           /\ frame \in Imports!Frames /\ frame.id \in DOMAIN table /\ frame.id \in Imports!Slots
           /\ table[frame.id] \in Imports!Names /\ Imports!Top(t) = frame
           /\ \A i \in 1 .. n : frames[t][i] \in Imports!Frames /\ frames[t][i].id \in DOMAIN table
BY DispatchAssumed DEF Imports!DispatchInv, Imports!DispatchTypeOK, Imports!NamesReady,
   Imports!DispatchAssumption, Imports!Slots, Imports!Top

\* The record of the last call changes to one that is right.
LEMMA TopKeeps ==
  ASSUME Imports!DispatchInv, NEW t \in Guests, frames[t] # <<>>,
         NEW new \in Imports!Frames, new.id = Imports!Top(t).id, new.at # "named",
         frames' = [frames EXCEPT ![t][Len(frames[t])] = new],
         \/ new.by = Imports!FirstOf(table[new.id].known)
         \/ new.by = "direct" /\ table[new.id].fast,
         UNCHANGED <<table, base>>
  PROVE  /\ frames' \in [Guests -> Seq(Imports!Frames)]
         /\ \A u \in Guests : Len(frames'[u]) = Len(frames[u]) /\ Len(frames'[u]) \in Nat
         /\ Imports!NamesReady' /\ Imports!DispatchSound'
<1> DEFINE n == Len(frames[t])
<1>1. /\ n \in Nat \ {0} /\ DOMAIN frames[t] = 1 .. n
      /\ Imports!Top(t) = frames[t][n] /\ Imports!Top(t).id \in DOMAIN table
  BY LastCall
<1>2. frames \in [Guests -> Seq(Imports!Frames)]
  BY DEF Imports!DispatchInv, Imports!DispatchTypeOK
<1>3. /\ frames' = [frames EXCEPT ![t] = [frames[t] EXCEPT ![n] = new]]
      /\ frames'[t] = [frames[t] EXCEPT ![n] = new]
      /\ \A u \in Guests : u # t => frames'[u] = frames[u]
  BY <1>2
<1>4. [frames[t] EXCEPT ![n] = new] \in Seq(Imports!Frames)
      /\ Len([frames[t] EXCEPT ![n] = new]) = n
  BY <1>1, <1>2
<1> HIDE DEF n
<1>5. /\ frames' \in [Guests -> Seq(Imports!Frames)]
      /\ \A u \in Guests : Len(frames'[u]) = Len(frames[u]) /\ Len(frames'[u]) \in Nat
  BY <1>2, <1>3, <1>4 DEF n
<1>6. \A u \in Guests : \A i \in DOMAIN frames'[u] :
        /\ i \in DOMAIN frames[u]
        /\ frames'[u][i] = IF u = t /\ i = n THEN new ELSE frames[u][i]
  BY <1>1, <1>2, <1>3, <1>4
<1>7. Imports!NamesReady'
  <2> SUFFICES ASSUME NEW u \in Guests, NEW i \in DOMAIN frames'[u]
               PROVE  /\ frames'[u][i].id \in DOMAIN table
                      /\ frames'[u][i].at = "named" =>
                           /\ i = Len(frames'[u])
                           /\ table[frames'[u][i].id].variant => base'[u] = table[frames'[u][i].id]
    BY DEF Imports!NamesReady
  <2>1. CASE u = t /\ i = n
    BY <1>1, <1>6, <2>1
  <2>2. CASE ~ (u = t /\ i = n)
    <3>1. i \in DOMAIN frames[u] /\ frames'[u][i] = frames[u][i] /\ Len(frames'[u]) = Len(frames[u])
      BY <1>5, <1>6, <2>2
    <3>2. QED
      BY <3>1 DEF Imports!DispatchInv, Imports!NamesReady
  <2>3. QED
    BY <2>1, <2>2
<1>8. Imports!DispatchSound'
  <2> SUFFICES ASSUME NEW u \in Guests, NEW i \in DOMAIN frames'[u], frames'[u][i].at # "named"
               PROVE  \/ frames'[u][i].by = Imports!FirstOf(table[frames'[u][i].id].known)
                      \/ frames'[u][i].by = "direct" /\ table[frames'[u][i].id].fast
    BY DEF Imports!DispatchSound
  <2>1. CASE u = t /\ i = n
    BY <1>6, <2>1
  <2>2. CASE ~ (u = t /\ i = n)
    <3>1. i \in DOMAIN frames[u] /\ frames'[u][i] = frames[u][i]
      BY <1>6, <2>2
    <3>2. QED
      BY <3>1 DEF Imports!DispatchInv, Imports!DispatchSound
  <2>3. QED
    BY <2>1, <2>2
<1>9. QED
  BY <1>5, <1>7, <1>8

\* The last call returns.
LEMMA PopKeeps ==
  ASSUME Imports!DispatchInv, NEW t \in Guests, frames[t] # <<>>,
         frames' = [frames EXCEPT ![t] = SubSeq(@, 1, Len(@) - 1)], Imports!Top(t).at # "named",
         UNCHANGED <<table, base>>
  PROVE  /\ frames' \in [Guests -> Seq(Imports!Frames)]
         /\ \A u \in Guests : Len(frames'[u]) <= Len(frames[u]) /\ Len(frames'[u]) \in Nat
         /\ Imports!NamesReady' /\ Imports!DispatchSound'
<1> DEFINE n == Len(frames[t])
<1>1. /\ n \in Nat \ {0} /\ DOMAIN frames[t] = 1 .. n /\ Imports!Top(t) = frames[t][n]
  BY LastCall
<1>2. frames \in [Guests -> Seq(Imports!Frames)]
  BY DEF Imports!DispatchInv, Imports!DispatchTypeOK
<1>3. /\ frames'[t] = SubSeq(frames[t], 1, n - 1)
      /\ \A u \in Guests : u # t => frames'[u] = frames[u]
  BY <1>2
<1>4. /\ SubSeq(frames[t], 1, n - 1) \in Seq(Imports!Frames)
      /\ Len(SubSeq(frames[t], 1, n - 1)) = n - 1
      /\ \A i \in 1 .. n - 1 : SubSeq(frames[t], 1, n - 1)[i] = frames[t][i]
  BY <1>1, <1>2
<1>5. /\ frames' \in [Guests -> Seq(Imports!Frames)]
      /\ \A u \in Guests : Len(frames'[u]) <= Len(frames[u]) /\ Len(frames'[u]) \in Nat
  BY <1>1, <1>2, <1>3, <1>4
<1>6. \A u \in Guests : \A i \in DOMAIN frames'[u] :
        /\ i \in DOMAIN frames[u] /\ frames'[u][i] = frames[u][i]
        /\ u = t => i # n
  BY <1>1, <1>2, <1>3, <1>4
<1>7. \A i \in 1 .. n : frames[t][i].at # "named"
  BY <1>1 DEF Imports!DispatchInv, Imports!NamesReady
<1> HIDE DEF n
<1>8. Imports!NamesReady'
  <2> SUFFICES ASSUME NEW u \in Guests, NEW i \in DOMAIN frames'[u]
               PROVE  /\ frames'[u][i].id \in DOMAIN table
                      /\ frames'[u][i].at = "named" =>
                           /\ i = Len(frames'[u])
                           /\ table[frames'[u][i].id].variant => base'[u] = table[frames'[u][i].id]
    BY DEF Imports!NamesReady
  <2>1. CASE u = t
    <3>1. i \in 1 .. n /\ frames'[u][i] = frames[t][i]
      BY <1>1, <1>6, <2>1
    <3>2. frames[t][i].id \in DOMAIN table
      BY <1>1, <3>1 DEF Imports!DispatchInv, Imports!NamesReady
    <3>3. QED
      BY <1>7, <3>1, <3>2
  <2>2. CASE u # t
    <3>1. i \in DOMAIN frames[u] /\ frames'[u] = frames[u]
      BY <1>3, <1>6, <2>2
    <3>2. QED
      BY <3>1, SMTT(40) DEF Imports!DispatchInv, Imports!NamesReady
  <2>3. QED
    BY <2>1, <2>2
<1>9. Imports!DispatchSound'
  <2> SUFFICES ASSUME NEW u \in Guests, NEW i \in DOMAIN frames'[u], frames'[u][i].at # "named"
               PROVE  \/ frames'[u][i].by = Imports!FirstOf(table[frames'[u][i].id].known)
                      \/ frames'[u][i].by = "direct" /\ table[frames'[u][i].id].fast
    BY DEF Imports!DispatchSound
  <2>1. i \in DOMAIN frames[u] /\ frames'[u][i] = frames[u][i]
    BY <1>6
  <2>2. QED
    BY <2>1 DEF Imports!DispatchInv, Imports!DispatchSound
<1>10. QED
  BY <1>5, <1>8, <1>9

LEMMA StepKeeps ==
  ASSUME Imports!DispatchInv, NEW t \in Guests,
         Imports!Chain(t) \/ Imports!Handled(t) \/ Imports!Resolve(t)
  PROVE  Imports!DispatchInv'
<1> DEFINE n == Len(frames[t])
           frame == Imports!Top(t)
           name == table[frame.id]
<1>1. frames[t] # <<>>
  BY DEF Imports!Chain, Imports!Handled, Imports!Resolve, Imports!Busy
<1>2. /\ n \in Nat \ {0} /\ DOMAIN frames[t] = 1 .. n /\ frame = frames[t][n]
      /\ frame \in Imports!Frames /\ frame.id \in DOMAIN table /\ frame.id \in Imports!Slots
      /\ name \in Imports!Names
  BY <1>1, LastCall
<1>3. /\ table \in Tables /\ stages \in [Imports!Slots -> Imports!Stages]
      /\ direct \in [Imports!Slots -> {"unresolved", "none", "direct"}]
      /\ matched \in [Guests -> BOOLEAN]
      /\ base \in [Guests -> Imports!Names \cup {Imports!NoName}]
      /\ \A u \in Guests : Len(frames[u]) <= Depth /\ Len(frames[u]) \in Nat
      /\ \A id \in DOMAIN table : id \in Imports!Slots
  BY DEF Imports!DispatchInv, Imports!DispatchTypeOK, Imports!Slots
<1>4. name.known \in SUBSET Imports!Handlers
  BY <1>2 DEF Imports!Names
<1>5. Depth \in Nat
  BY DispatchAssumed DEF Imports!DispatchAssumption
<1> HIDE DEF n, frame
<1>6. CASE Imports!Chain(t)
  <2> DEFINE reached == stages[frame.id]
             known == name.known \cap Imports!Early # {}
             skipped == IF known THEN {} ELSE Imports!Before[reached]
             by == Imports!FirstOf(name.known \ skipped)
             new == [frame EXCEPT !.at = "handling", !.by = by, !.stage = reached]
  <2>1. frame.at = "named"
    BY <1>6 DEF Imports!Chain, Imports!Busy, frame
  <2>2. (IF name.variant THEN base[t] ELSE name) = name
    BY <1>2, <2>1 DEF Imports!DispatchInv, Imports!NamesReady, n
  <2>3. frames' = [frames EXCEPT ![t][Len(frames[t])] = new] /\ UNCHANGED <<table, stages, direct, base>>
        /\ matched' = IF known THEN matched ELSE [matched EXCEPT ![t] = by = "runtime"]
    BY <1>6, <2>2 DEF Imports!Chain, Imports!SetTop, Imports!Slot, Imports!Buffer, frame
  <2>4. reached \in Imports!Stages /\ (reached # "unknown" => reached = Imports!FirstOf(name.known))
    BY <1>2, <1>3 DEF Imports!DispatchInv, Imports!MemosTell
  <2>5. name.known \ skipped = name.known
    BY <1>4, <2>4, SkipsNothing
  <2>6. by = Imports!FirstOf(name.known) /\ by \in Imports!Handlers \cup {"trap"}
    BY <1>4, <2>5, FirstIsHandler
  <2> HIDE DEF by, reached, known
  <2>7. new \in Imports!Frames /\ new.id = frame.id /\ new.at = "handling" /\ new.by = by
    BY <1>2, <2>4, <2>6 DEF Imports!Frames
  <2> HIDE DEF new
  <2>8. /\ frames' \in [Guests -> Seq(Imports!Frames)]
        /\ \A u \in Guests : Len(frames'[u]) = Len(frames[u])
        /\ Imports!NamesReady' /\ Imports!DispatchSound'
    BY <1>1, <2>3, <2>6, <2>7, TopKeeps DEF frame
  <2>9. matched' \in [Guests -> BOOLEAN]
    BY <1>3, <2>3
  <2>10. Imports!MemosTell' /\ Imports!DispatchTypeOK'
    BY <1>3, <2>3, <2>8 DEF Imports!DispatchInv, Imports!MemosTell, Imports!DispatchTypeOK
  <2>11. QED
    BY <1>3, <2>3, <2>8, <2>9, <2>10 DEF Imports!DispatchInv
<1>7. CASE Imports!Handled(t)
  <2>1. /\ frame.at = "handling" /\ UNCHANGED <<table, direct, base, matched>>
        /\ stages' \in {stages, [stages EXCEPT ![frame.id] = frame.by]}
        /\ stages' # stages => frame.by \in {"audio", "objc"}
    BY <1>7 DEF Imports!Handled, Imports!Busy, Imports!Slot, frame
  <2>2. \/ frame.by = Imports!FirstOf(name.known)
        \/ frame.by = "direct" /\ name.fast
    BY <1>2, <2>1 DEF Imports!DispatchInv, Imports!DispatchSound, n
  <2>3. stages' \in [Imports!Slots -> Imports!Stages] /\ Imports!MemosTell'
    <3>1. CASE stages' = stages
      BY <1>3, <2>1, <3>1 DEF Imports!DispatchInv, Imports!MemosTell
    <3>2. CASE stages' # stages
      <4>1. stages' = [stages EXCEPT ![frame.id] = frame.by] /\ frame.by \in {"audio", "objc"}
        BY <2>1, <3>2
      <4>2. frame.by = Imports!FirstOf(name.known)
        BY <2>2, <4>1
      <4>3. stages' \in [Imports!Slots -> Imports!Stages]
        BY <1>2, <1>3, <4>1 DEF Imports!Stages
      <4>4. ASSUME NEW id \in DOMAIN table
            PROVE  /\ stages'[id] # "unknown" => stages'[id] = Imports!FirstOf(table[id].known)
                   /\ direct[id] = "direct" => table[id].fast
        BY <1>2, <1>3, <4>1, <4>2 DEF Imports!DispatchInv, Imports!MemosTell
      <4>5. QED
        BY <2>1, <4>3, <4>4 DEF Imports!MemosTell
    <3>3. QED
      BY <3>1, <3>2
  <2>4. /\ frames' \in [Guests -> Seq(Imports!Frames)]
        /\ \A u \in Guests : Len(frames'[u]) <= Len(frames[u]) /\ Len(frames'[u]) \in Nat
        /\ Imports!NamesReady' /\ Imports!DispatchSound'
    <3>1. CASE frame.by = "direct"
      <4>1. frames' = [frames EXCEPT ![t] = SubSeq(@, 1, Len(@) - 1)]
        BY <1>7, <3>1 DEF Imports!Handled, frame
      <4>2. QED
        BY <1>1, <1>3, <2>1, <4>1, PopKeeps DEF frame
    <3>2. CASE frame.by # "direct"
      <4> DEFINE new == [frame EXCEPT !.at = "handled"]
      <4>1. frames' = [frames EXCEPT ![t][Len(frames[t])] = new]
        BY <1>7, <3>2 DEF Imports!Handled, Imports!SetTop, frame
      <4>2. new \in Imports!Frames /\ new.id = frame.id /\ new.at = "handled" /\ new.by = frame.by
        BY <1>2 DEF Imports!Frames
      <4> HIDE DEF new
      <4>3. new.by = Imports!FirstOf(table[new.id].known)
        BY <2>2, <3>2, <4>2
      <4>4. UNCHANGED <<table, base>> /\ new.id = Imports!Top(t).id /\ new.at # "named"
        BY <2>1, <4>2 DEF frame
      <4>5. /\ frames' \in [Guests -> Seq(Imports!Frames)]
            /\ \A u \in Guests : Len(frames'[u]) = Len(frames[u]) /\ Len(frames'[u]) \in Nat
            /\ Imports!NamesReady' /\ Imports!DispatchSound'
        BY <1>1, <4>1, <4>2, <4>3, <4>4, TopKeeps
      <4>6. QED
        BY <4>5
    <3>3. QED
      BY <3>1, <3>2
  <2>5. Imports!DispatchTypeOK'
    <3>1. ASSUME NEW u \in Guests PROVE Len(frames'[u]) <= Depth
      <4>1. /\ Len(frames[u]) <= Depth /\ Len(frames[u]) \in Nat
            /\ Len(frames'[u]) <= Len(frames[u]) /\ Len(frames'[u]) \in Nat
        BY <1>3, <2>4
      <4>2. QED
        BY <1>5, <4>1
    <3>2. direct' \in [Imports!Slots -> {"unresolved", "none", "direct"}]
      BY <1>3, <2>1
    <3>3. QED
      BY <2>3, <2>4, <3>1, <3>2 DEF Imports!DispatchTypeOK
  <2>6. QED
    BY <1>3, <2>1, <2>3, <2>4, <2>5 DEF Imports!DispatchInv
<1>8. CASE Imports!Resolve(t)
  <2>1. frame.at = "handled" /\ UNCHANGED <<table, stages, base, matched>>
        /\ frames' = [frames EXCEPT ![t] = SubSeq(@, 1, Len(@) - 1)]
        /\ direct' = IF direct[frame.id] # "unresolved" THEN direct
                     ELSE [direct EXCEPT ![frame.id] = IF name.fast THEN "direct" ELSE "none"]
    BY <1>8 DEF Imports!Resolve, Imports!Busy, Imports!Slot, frame
  <2>2. /\ frames' \in [Guests -> Seq(Imports!Frames)]
        /\ \A u \in Guests : Len(frames'[u]) <= Len(frames[u]) /\ Len(frames'[u]) \in Nat
        /\ Imports!NamesReady' /\ Imports!DispatchSound'
    BY <1>1, <2>1, PopKeeps DEF frame
  <2>3. direct' \in [Imports!Slots -> {"unresolved", "none", "direct"}]
    BY <1>2, <1>3, <2>1
  <2>4. Imports!MemosTell'
    BY <1>2, <1>3, <2>1 DEF Imports!DispatchInv, Imports!MemosTell
  <2>5. Imports!DispatchTypeOK'
    <3>1. ASSUME NEW u \in Guests PROVE Len(frames'[u]) <= Depth
      <4>1. /\ Len(frames[u]) <= Depth /\ Len(frames[u]) \in Nat
            /\ Len(frames'[u]) <= Len(frames[u]) /\ Len(frames'[u]) \in Nat
        BY <1>3, <2>2
      <4>2. QED
        BY <1>5, <4>1
    <3>2. stages' \in [Imports!Slots -> Imports!Stages]
      BY <1>3, <2>1
    <3>3. QED
      BY <2>1, <2>2, <2>3, <3>1, <3>2 DEF Imports!DispatchTypeOK
  <2>6. QED
    BY <1>3, <2>1, <2>2, <2>4, <2>5 DEF Imports!DispatchInv
<1>9. QED
  BY <1>6, <1>7, <1>8

LEMMA DispatchInvariant == Imports!DispatchSpec => []Imports!DispatchInv
<1>1. Imports!DispatchInv /\ [Imports!DispatchNext]_(Imports!dispatchVars) => Imports!DispatchInv'
  <2> SUFFICES ASSUME Imports!DispatchInv, [Imports!DispatchNext]_(Imports!dispatchVars)
               PROVE  Imports!DispatchInv'
    OBVIOUS
  <2>1. CASE Imports!DispatchNext
    BY <2>1, DispatchKeeps, StepKeeps DEF Imports!DispatchNext
  <2>2. CASE UNCHANGED Imports!dispatchVars
    BY <2>2 DEF Imports!dispatchVars, Imports!DispatchInv, Imports!DispatchTypeOK, Imports!MemosTell,
                Imports!NamesReady, Imports!DispatchSound
  <2>3. QED
    BY <2>1, <2>2
<1>2. QED
  BY <1>1, InitDispatch, PTL DEF Imports!DispatchSpec

\* Whatever was dispatched before, inside or meanwhile on other threads, an
\* import is answered by the first handler that knows its name or by its direct
\* handler (lp32_dispatch_import, dispatch_bridge_stages).
THEOREM ComponentDispatchSound == Spec => []DispatchSound
<1>1. Imports!DispatchInv => DispatchSound
  BY DEF Imports!DispatchInv, DispatchSound
<1>2. QED
  BY <1>1, DispatchBehaves, DispatchInvariant, PTL

-----------------------------------------------------------------------------
(* The renders *)

LEMMA RenderBehaves == Spec => Render!RenderSpec
<1>1. Init => Render!RenderInit
  BY DEF Init
<1>2. [Next]_vars => [Render!RenderNext]_(Render!renderVars)
  BY DEF Next, Alone, vars, renderVars, Render!renderVars
<1>3. QED
  BY <1>1, <1>2, PTL DEF Spec, Render!RenderSpec

LEMMA SamplesIn ==
  /\ Render!Silence \in Render!Sample /\ Render!Junk \in Render!Sample
  /\ Render!Earlier \in Render!Sample /\ Render!Units \in Render!Sample
  /\ 1 .. 9 \subseteq Render!Sample
BY DEF Render!Sample

LEMMA FunctionIsSeq ==
  ASSUME NEW S, NEW n \in Nat, NEW f, f \in [1 .. n -> S]
  PROVE  f \in Seq(S) /\ Len(f) = n /\ DOMAIN f = 1 .. n
OBVIOUS

LEMMA Filled ==
  ASSUME NEW n \in Nat, NEW s \in Render!Sample
  PROVE  /\ Render!Fill(n, s) \in Seq(Render!Sample) /\ Len(Render!Fill(n, s)) = n
         /\ DOMAIN Render!Fill(n, s) = 1 .. n /\ \A i \in 1 .. n : Render!Fill(n, s)[i] = s
BY FunctionIsSeq DEF Render!Fill

LEMMA InitRender == Render!RenderInit => Render!RenderInv
<1> SUFFICES ASSUME Render!RenderInit PROVE Render!RenderInv
  OBVIOUS
<1>1. /\ host = <<>> /\ guestData = <<>> /\ Len(host) = 0 /\ DOMAIN host = {} /\ render = Render!Idle
      /\ host \in Seq(Render!Sample) /\ guestData \in Seq(Render!Sample)
  BY DEF Render!RenderInit
<1>2. QED
  BY <1>1 DEF Render!RenderInv, Render!RenderTypeOK, Render!Idle, Render!HeardSound, Render!Kinds

\* A render that is under way is heard only when it returns.

LEMMA AsksKeeps ==
  ASSUME Render!RenderInv, NEW k \in Render!Kinds, NEW n \in Sizes, Render!HostAsks(k, n)
  PROVE  Render!RenderInv'
<1>1. n \in 1 .. 9
  BY ComponentsAssumption DEF Render!RenderAssumption
<1>2. PICK s : s = IF k = "input" THEN Render!Junk ELSE Render!Units
  OBVIOUS
<1>3. s \in Render!Sample
  BY <1>2, SamplesIn
<1>4. host' = Render!Fill(n, s) /\ UNCHANGED <<guestData, list>>
  BY <1>2 DEF Render!HostAsks
<1>5. /\ host' \in Seq(Render!Sample) /\ Len(host') = n /\ DOMAIN host' = 1 .. n
      /\ \A i \in 1 .. n : host'[i] = s
  BY <1>1, <1>3, <1>4, Filled
<1>6. render' = [at |-> "called", kind |-> k, held |-> FALSE, status |-> "noErr", wrote |-> 0]
  BY DEF Render!HostAsks, Render!Idle
<1>7. Render!Handed'
  BY <1>2, <1>5, <1>6 DEF Render!Handed
<1>8. Render!RenderTypeOK' /\ Len(host') <= 9
  BY <1>1, <1>4, <1>5, <1>6 DEF Render!RenderInv, Render!RenderTypeOK
<1>9. render' \in [at : {"returned", "called", "asked", "answered"}, kind : Render!Kinds, held : BOOLEAN,
                   status : {"noErr", "paramError", "memFull"}, wrote : Nat]
  BY <1>6
<1>10. Render!HeardSound'
  BY <1>6 DEF Render!HeardSound
<1>11. QED
  BY <1>6, <1>7, <1>8, <1>9, <1>10 DEF Render!RenderInv

\* What a record of a render is made of.
LEMMA RenderHas ==
  ASSUME Render!RenderInv
  PROVE  /\ render = [at |-> render.at, kind |-> render.kind, held |-> render.held,
                      status |-> render.status, wrote |-> render.wrote]
         /\ render.at \in {"returned", "called", "asked", "answered"} /\ render.kind \in Render!Kinds
         /\ render.held \in BOOLEAN /\ render.status \in {"noErr", "paramError", "memFull"}
         /\ render.wrote \in Nat
         /\ host \in Seq(Render!Sample) /\ guestData \in Seq(Render!Sample)
         /\ Len(host) \in Nat /\ Len(host) <= 9 /\ DOMAIN host = 1 .. Len(host)
         /\ Len(guestData) \in Nat /\ DOMAIN guestData = 1 .. Len(guestData)
BY DEF Render!RenderInv, Render!RenderTypeOK

\* A return, with what the host's buffer holds then.
LEMMA ReturnKeeps ==
  ASSUME Render!RenderInv, NEW s \in {"noErr", "paramError", "memFull"}, NEW h \in BOOLEAN,
         Render!Returns(s, h), UNCHANGED guestData, host' \in Seq(Render!Sample), Len(host') <= 9,
         s # "memFull" =>
           IF render.kind = "render-notify" THEN \A i \in DOMAIN host' : host'[i] = Render!Units
           ELSE \A i \in DOMAIN host' :
                  host'[i] = IF i <= (IF h \/ s = "paramError" THEN 0 ELSE render.wrote)
                             THEN i ELSE Render!Silence
  PROVE  Render!RenderInv'
<1>1. /\ render'.at = "returned" /\ render'.kind = render.kind /\ render'.held = h
      /\ render'.status = s /\ render'.wrote = render.wrote
  BY RenderHas DEF Render!Returns
<1>2. render' \in [at : {"returned", "called", "asked", "answered"}, kind : Render!Kinds, held : BOOLEAN,
                   status : {"noErr", "paramError", "memFull"}, wrote : Nat]
  BY DEF Render!Returns, Render!RenderInv
<1>3. Render!RenderTypeOK'
  BY <1>1 DEF Render!RenderInv, Render!RenderTypeOK
<1>4. Render!HeardSound'
  BY <1>1 DEF Render!HeardSound
<1>5. QED
  BY <1>1, <1>2, <1>3, <1>4 DEF Render!RenderInv

LEMMA SilenceKeeps ==
  ASSUME Render!RenderInv, Render!RendersSilence
  PROVE  Render!RenderInv'
<1>1. /\ render.at = "called" /\ Render!Handed /\ UNCHANGED guestData /\ Render!Returns("noErr", TRUE)
      /\ host' = IF render.kind = "input" THEN Render!Fill(Len(host), Render!Silence) ELSE host
  BY DEF Render!RendersSilence, Render!RenderInv
<1>2. CASE render.kind = "input"
  <2>1. host' \in Seq(Render!Sample) /\ Len(host') <= 9 /\ DOMAIN host' = 1 .. Len(host)
        /\ \A i \in 1 .. Len(host) : host'[i] = Render!Silence
    BY <1>1, <1>2, RenderHas, SamplesIn, Filled
  <2>2. \A i \in DOMAIN host' : ~ (i <= 0)
    BY <2>1, RenderHas
  <2>3. QED
    BY <1>1, <1>2, <2>1, <2>2, ReturnKeeps
<1>3. CASE render.kind = "render-notify"
  BY <1>1, <1>3, RenderHas, ReturnKeeps DEF Render!Handed
<1>4. QED
  BY <1>2, <1>3, RenderHas DEF Render!Kinds

LEMMA FailKeeps ==
  ASSUME Render!RenderInv, Render!GrowthFails
  PROVE  Render!RenderInv'
BY RenderHas, ReturnKeeps DEF Render!GrowthFails


\* The guest's memory, grown: as long as the buffer at least, and of samples.
LEMMA GrownIs ==
  ASSUME Render!RenderInv
  PROVE  /\ Render!Grown(Len(host)) \in Seq(Render!Sample)
         /\ Len(Render!Grown(Len(host))) \in Nat /\ Len(host) <= Len(Render!Grown(Len(host)))
<1> DEFINE n == IF Len(host) > Len(guestData) THEN Len(host) - Len(guestData) ELSE 0
<1>1. n \in Nat /\ Render!Fill(n, Render!Junk) \in Seq(Render!Sample)
      /\ Len(Render!Fill(n, Render!Junk)) = n
  <2>1. n \in Nat
    BY RenderHas
  <2> HIDE DEF n
  <2>2. QED
    BY <2>1, SamplesIn, Filled
<1>2. Render!Grown(Len(host)) = guestData \o Render!Fill(n, Render!Junk)
  BY DEF Render!Grown
<1>3. guestData \o Render!Fill(n, Render!Junk) \in Seq(Render!Sample)
      /\ Len(guestData \o Render!Fill(n, Render!Junk)) = Len(guestData) + n
  <2> HIDE DEF n
  <2>1. QED
    BY <1>1, RenderHas
<1>4. QED
  BY <1>1, <1>2, <1>3, RenderHas

LEMMA AskKeeps ==
  ASSUME Render!RenderInv, Render!AsksGuest
  PROVE  Render!RenderInv'
<1>1. PICK grown : grown = Render!Grown(Len(host))
  OBVIOUS
<1>2. PICK n : n = Len(grown)
  OBVIOUS
<1>3. n \in Nat /\ Len(host) <= n /\ grown \in [1 .. n -> Render!Sample] /\ DOMAIN grown = 1 .. n
  BY <1>1, <1>2, GrownIs
<1>4. PICK aged : aged = [i \in DOMAIN grown |-> IF grown[i] > 0 THEN Render!Earlier ELSE grown[i]]
  OBVIOUS
<1>5. aged \in [1 .. n -> Render!Sample]
  BY <1>3, <1>4, SamplesIn
<1>6. /\ render.at = "called" /\ guestData' = Render!Seeds(aged) /\ UNCHANGED host
      /\ render' = [render EXCEPT !.at = "asked"]
  BY <1>1, <1>4 DEF Render!AsksGuest
<1>7. guestData' = [i \in 1 .. n |-> IF i > Len(host) THEN aged[i]
                                    ELSE IF render.kind = "input" THEN Render!Silence ELSE host[i]]
  BY <1>5, <1>6 DEF Render!Seeds
<1>8. guestData' \in [1 .. n -> Render!Sample]
  <2>1. ASSUME NEW i \in 1 .. n
        PROVE  (IF i > Len(host) THEN aged[i]
                ELSE IF render.kind = "input" THEN Render!Silence ELSE host[i]) \in Render!Sample
    <3>1. CASE i > Len(host)
      BY <1>5, <3>1
    <3>2. CASE ~ (i > Len(host))
      BY <1>3, <3>2, RenderHas, SamplesIn
    <3>3. QED
      BY <3>1, <3>2
  <2>2. QED
    BY <1>7, <2>1
<1>9. guestData' \in Seq(Render!Sample) /\ Len(guestData') = n
  BY <1>3, <1>8, FunctionIsSeq
<1>10. /\ render'.at = "asked" /\ render'.kind = render.kind /\ render'.held = render.held
       /\ render'.wrote = render.wrote
       /\ render' \in [at : {"returned", "called", "asked", "answered"}, kind : Render!Kinds,
                       held : BOOLEAN, status : {"noErr", "paramError", "memFull"}, wrote : Nat]
  BY <1>6 DEF Render!RenderInv
<1>11. ASSUME render.kind = "input", NEW i \in 1 .. Len(host) PROVE guestData'[i] = Render!Silence
  BY <1>3, <1>7, <1>11, RenderHas
<1>12. Render!Seeded(0)'
  <2>1. \A i \in 1 .. Len(host) : ~ (i <= 0)
    BY RenderHas
  <2>2. QED
    BY <1>3, <1>6, <1>9, <1>10, <1>11, <2>1, RenderHas DEF Render!Seeded
<1>13. Render!Handed'
  BY <1>6, <1>10 DEF Render!Handed, Render!RenderInv
<1>14. Render!HeardSound'
  BY <1>10 DEF Render!HeardSound
<1>15. QED
  BY <1>6, <1>9, <1>10, <1>12, <1>13, <1>14, RenderHas DEF Render!RenderInv, Render!RenderTypeOK

LEMMA AnswerKeeps ==
  ASSUME Render!RenderInv, NEW n \in 0 .. Len(host), NEW rebases, NEW s \in {"noErr", "paramError"},
         Render!GuestAnswers(n, rebases, s)
  PROVE  Render!RenderInv'
<1>1. /\ render.at = "asked" /\ Render!Seeded(0) /\ Render!Handed /\ ~ render.held /\ UNCHANGED host
      /\ guestData' = [i \in DOMAIN guestData |-> IF i <= n THEN i ELSE guestData[i]]
      /\ render' = [render EXCEPT !.at = "answered", !.status = s, !.wrote = n]
  BY DEF Render!GuestAnswers, Render!RenderInv
<1>2. PICK m : m = Len(guestData)
  OBVIOUS
<1>3. m \in Nat /\ DOMAIN guestData = 1 .. m /\ guestData \in [1 .. m -> Render!Sample]
      /\ Len(host) <= m /\ n \in Nat /\ n <= 9
  BY <1>1, <1>2, RenderHas DEF Render!Seeded
<1>4. guestData' \in [1 .. m -> Render!Sample]
  <2>1. \A i \in 1 .. m : i <= n => i \in Render!Sample
    BY <1>3, SamplesIn
  <2>2. QED
    BY <1>1, <1>3, <2>1
<1>5. guestData' \in Seq(Render!Sample) /\ Len(guestData') = m
  BY <1>3, <1>4, FunctionIsSeq
<1>6. /\ render'.at = "answered" /\ render'.kind = render.kind /\ render'.held = render.held
      /\ render'.wrote = n /\ render'.status = s
      /\ render' \in [at : {"returned", "called", "asked", "answered"}, kind : Render!Kinds,
                      held : BOOLEAN, status : {"noErr", "paramError", "memFull"}, wrote : Nat]
  BY <1>1, <1>3 DEF Render!RenderInv
<1>7. ASSUME render.kind = "input", NEW i \in 1 .. Len(host)
      PROVE  guestData'[i] = IF i <= n THEN i ELSE Render!Silence
  <2>1. guestData[i] = Render!Silence
    BY <1>1, <1>7, RenderHas DEF Render!Seeded
  <2>2. QED
    BY <1>1, <1>3, <2>1, RenderHas
<1>8. Render!Seeded(render.wrote)'
  <2>1. Len(host') <= Len(guestData') /\ render'.wrote <= Len(host')
    BY <1>1, <1>3, <1>5, <1>6, RenderHas
  <2>2. QED
    BY <1>1, <1>6, <1>7, <2>1 DEF Render!Seeded
<1>9. Render!Handed'
  BY <1>1, <1>6 DEF Render!Handed
<1>10. Render!HeardSound'
  BY <1>6 DEF Render!HeardSound
<1>11. QED
  BY <1>1, <1>5, <1>6, <1>8, <1>9, <1>10, RenderHas DEF Render!RenderInv, Render!RenderTypeOK

LEMMA RenderReturnKeeps ==
  ASSUME Render!RenderInv, Render!RenderReturns
  PROVE  Render!RenderInv'
<1>1. /\ render.at = "answered" /\ render.status \in {"noErr", "paramError"}
      /\ Render!Seeded(render.wrote) /\ Render!Handed
      /\ UNCHANGED guestData /\ Render!Returns(render.status, FALSE)
      /\ host' = IF render.kind = "render-notify" THEN host
                 ELSE IF render.status = "paramError" THEN Render!Fill(Len(host), Render!Silence)
                 ELSE [i \in DOMAIN host |-> guestData[i]]
  BY RenderHas DEF Render!RenderReturns, Render!RenderInv, Render!CopiesBack
<1>2. CASE render.kind = "render-notify"
  BY <1>1, <1>2, RenderHas, ReturnKeeps DEF Render!Handed
<1>3. CASE render.kind = "input" /\ render.status = "paramError"
  <2>1. host' \in Seq(Render!Sample) /\ Len(host') <= 9 /\ DOMAIN host' = 1 .. Len(host)
        /\ \A i \in 1 .. Len(host) : host'[i] = Render!Silence
    BY <1>1, <1>3, RenderHas, SamplesIn, Filled
  <2>2. \A i \in DOMAIN host' : ~ (i <= 0)
    BY <2>1, RenderHas
  <2>3. QED
    BY <1>1, <1>3, <2>1, <2>2, ReturnKeeps
<1>4. CASE render.kind = "input" /\ render.status = "noErr"
  <2>1. /\ Len(host) <= Len(guestData)
        /\ \A i \in 1 .. Len(host) : guestData[i] = IF i <= render.wrote THEN i ELSE Render!Silence
    BY <1>1, <1>4 DEF Render!Seeded
  <2>2. host' = [i \in 1 .. Len(host) |-> guestData[i]]
    BY <1>1, <1>4, RenderHas
  <2>3. host' \in [1 .. Len(host) -> Render!Sample]
    BY <2>1, <2>2, RenderHas
  <2>4. host' \in Seq(Render!Sample) /\ Len(host') <= 9 /\ DOMAIN host' = 1 .. Len(host)
    BY <2>3, RenderHas, FunctionIsSeq
  <2>5. \A i \in DOMAIN host' : host'[i] = IF i <= render.wrote THEN i ELSE Render!Silence
    BY <2>1, <2>2, <2>4
  <2>6. QED
    BY <1>1, <1>4, <2>4, <2>5, ReturnKeeps
<1>5. QED
  BY <1>1, <1>2, <1>3, <1>4, RenderHas DEF Render!Kinds

LEMMA RenderInvariant == Render!RenderSpec => []Render!RenderInv
<1>1. Render!RenderInv /\ [Render!RenderNext]_(Render!renderVars) => Render!RenderInv'
  <2> SUFFICES ASSUME Render!RenderInv, [Render!RenderNext]_(Render!renderVars)
               PROVE  Render!RenderInv'
    OBVIOUS
  <2>1. CASE Render!RenderNext
    BY <2>1, AsksKeeps, SilenceKeeps, FailKeeps, AskKeeps, AnswerKeeps, RenderReturnKeeps
    DEF Render!RenderNext
  <2>2. CASE UNCHANGED Render!renderVars
    BY <2>2 DEF Render!renderVars, Render!RenderInv, Render!RenderTypeOK, Render!Handed,
                Render!Seeded, Render!HeardSound
  <2>3. QED
    BY <2>1, <2>2
<1>2. QED
  BY <1>1, InitRender, PTL DEF Render!RenderSpec

\* CoreAudio plays what the guest produced in this very render and silence where
\* it produced nothing, and a render-notify leaves the unit's audio alone
\* (host_audio_callback).
THEOREM ComponentRenderSound == Spec => []RenderSound
<1>1. Render!RenderInv => RenderSound
  BY DEF Render!RenderInv, RenderSound
<1>2. QED
  BY <1>1, RenderBehaves, RenderInvariant, PTL

-----------------------------------------------------------------------------
(* The unwrapping *)

LEMMA UnwrapAssumed == Unwrap!UnwrapAssumption
BY ComponentsAssumption

LEMMA UnwrapBehaves == Spec => Unwrap!UnwrapSpec
<1>1. Init => Unwrap!UnwrapInit
  BY DEF Init
<1>2. [Next]_vars => [Unwrap!UnwrapNext]_(Unwrap!unwrapVars)
  BY DEF Next, Alone, vars, unwrapVars, Unwrap!unwrapVars
<1>3. QED
  BY <1>1, <1>2, PTL DEF Spec, Unwrap!UnwrapSpec

\* What a word of each kind is bound to, and what dyld would have made of it.
LEMMA BoundIs ==
  ASSUME NEW k \in Unwrap!Kinds, NEW l \in BOOLEAN
  PROVE  Unwrap!BoundTo(k, l) =
           IF k = "lazy" THEN "thunk" ELSE IF k = "nonlazy local" /\ l THEN "lookup"
           ELSE IF k \in {"task self", "guard", "port"} THEN "value" ELSE "file"
<1>1. CASE k = "lazy"
  <2>1. k # "nonlazy local" /\ k \notin {"task self", "guard", "port"}
    BY <1>1
  <2>2. QED
    BY <1>1, <2>1, Zenon DEF Unwrap!BoundTo
<1>2. CASE k = "nonlazy local" /\ l
  <2>1. k # "lazy" /\ k \notin {"task self", "guard", "port"}
    BY <1>2
  <2>2. QED
    BY <1>2, <2>1, Zenon DEF Unwrap!BoundTo
<1>3. CASE k \in {"task self", "guard", "port"}
  <2>1. k # "lazy" /\ k # "nonlazy local"
    BY <1>3
  <2>2. QED
    BY <1>3, <2>1, Zenon DEF Unwrap!BoundTo
<1>4. CASE k # "lazy" /\ ~ (k = "nonlazy local" /\ l) /\ k \notin {"task self", "guard", "port"}
  BY <1>4, Zenon DEF Unwrap!BoundTo
<1>5. QED
  BY <1>1, <1>2, <1>3, <1>4, Zenon

LEMMA RightIs ==
  ASSUME NEW k \in Unwrap!Kinds, NEW l \in BOOLEAN
  PROVE  (CASE k \in {"lazy", "task self", "guard", "port"} ->
                  [slides |-> 0, holds |-> IF k = "lazy" THEN "thunk" ELSE "value"]
            [] k = "nonlazy local" /\ l -> [slides |-> 0, holds |-> "lookup"]
            [] OTHER -> [slides |-> 1, holds |-> "file"])
         = IF k \in {"lazy", "task self", "guard", "port"}
             THEN [slides |-> 0, holds |-> IF k = "lazy" THEN "thunk" ELSE "value"]
           ELSE IF k = "nonlazy local" /\ l THEN [slides |-> 0, holds |-> "lookup"]
           ELSE [slides |-> 1, holds |-> "file"]
<1> DEFINE A == k \in {"lazy", "task self", "guard", "port"}
           B == k = "nonlazy local" /\ l
<1>1. ~ (A /\ B)
  OBVIOUS
<1> HIDE DEF A, B
<1>2. CASE A
  BY <1>1, <1>2, Zenon
<1>3. CASE B
  BY <1>1, <1>3, Zenon
<1>4. CASE ~ A /\ ~ B
  BY <1>4, Zenon
<1>5. QED
  BY <1>2, <1>3, <1>4, Zenon DEF A, B

\* Linking what lies as in the file leaves every word as dyld would have.
LEMMA LinkedIsRight ==
  ASSUME NEW kinds, \A c \in DOMAIN kinds : kinds[c] \in Unwrap!Kinds, NEW l \in BOOLEAN,
         NEW words, words = [c \in DOMAIN kinds |-> Unwrap!Raw]
  PROVE  /\ Unwrap!IsRight(kinds, Unwrap!Linked(kinds, words, l), l)
         /\ Unwrap!Linked(kinds, words, l) \in [DOMAIN kinds -> Unwrap!WordOf]
<1> DEFINE linked == Unwrap!Linked(kinds, words, l)
           bound(c) == Unwrap!BoundTo(kinds[c], l)
           word1(c) == IF kinds[c] \in {"local", "stub", "lazy", "lazy local", "nonlazy local"}
                        THEN [slides |-> 1, holds |-> "file"] ELSE Unwrap!Raw
<1>1. Unwrap!Slid(kinds, words) = [c \in DOMAIN kinds |-> word1(c)]
  <2>1. [Unwrap!Raw EXCEPT !.slides = @ + 1] = [slides |-> 1, holds |-> "file"]
    BY DEF Unwrap!Raw
  <2>2. DOMAIN words = DOMAIN kinds /\ \A c \in DOMAIN kinds : words[c] = Unwrap!Raw
    OBVIOUS
  <2> HIDE DEF Unwrap!Raw
  <2>3. QED
    BY <2>1, <2>2, Zenon DEF Unwrap!Slid
<1>2. linked = [c \in DOMAIN kinds |-> IF bound(c) = "file" THEN word1(c)
                                       ELSE [slides |-> 0, holds |-> bound(c)]]
  BY <1>1 DEF Unwrap!Linked
<1>3. ASSUME NEW c \in DOMAIN kinds
      PROVE  linked[c] = IF kinds[c] \in {"lazy", "task self", "guard", "port"}
                           THEN [slides |-> 0, holds |-> IF kinds[c] = "lazy" THEN "thunk" ELSE "value"]
                         ELSE IF kinds[c] = "nonlazy local" /\ l THEN [slides |-> 0, holds |-> "lookup"]
                         ELSE [slides |-> 1, holds |-> "file"]
  <2>1. PICK k \in Unwrap!Kinds : k = kinds[c]
    OBVIOUS
  <2>2. bound(c) = IF k = "lazy" THEN "thunk" ELSE IF k = "nonlazy local" /\ l THEN "lookup"
                   ELSE IF k \in {"task self", "guard", "port"} THEN "value" ELSE "file"
    BY <2>1, BoundIs
  <2>3. linked[c] = IF bound(c) = "file" THEN word1(c) ELSE [slides |-> 0, holds |-> bound(c)]
    BY <1>2
  <2> HIDE DEF linked, bound
  <2>4. CASE k \in {"lazy", "task self", "guard", "port"}
    BY <2>1, <2>2, <2>3, <2>4
  <2>5. CASE k = "nonlazy local" /\ l
    BY <2>1, <2>2, <2>3, <2>5
  <2>6. CASE k \in {"local", "stub", "lazy local"} \/ (k = "nonlazy local" /\ ~ l)
    BY <2>1, <2>2, <2>3, <2>6
  <2>7. QED
    BY <2>4, <2>5, <2>6 DEF Unwrap!Kinds
<1>4. DOMAIN linked = DOMAIN kinds
  BY <1>2
<1> HIDE DEF linked
<1>5. ASSUME NEW c \in DOMAIN linked
      PROVE  linked[c] = CASE kinds[c] \in {"lazy", "task self", "guard", "port"} ->
                                [slides |-> 0, holds |-> IF kinds[c] = "lazy" THEN "thunk" ELSE "value"]
                           [] kinds[c] = "nonlazy local" /\ l -> [slides |-> 0, holds |-> "lookup"]
                           [] OTHER -> [slides |-> 1, holds |-> "file"]
  <2>1. kinds[c] \in Unwrap!Kinds /\ c \in DOMAIN kinds
    BY <1>4
  <2>2. QED
    BY <1>3, <2>1, RightIs, Zenon
<1>6. Unwrap!IsRight(kinds, linked, l)
  BY <1>5, Zenon DEF Unwrap!IsRight
<1>7. linked \in [DOMAIN kinds -> Unwrap!WordOf]
  <2>1. linked = [c \in DOMAIN kinds |-> linked[c]]
    BY <1>2 DEF linked
  <2>2. ASSUME NEW c \in DOMAIN kinds PROVE linked[c] \in Unwrap!WordOf
    <3>1. linked[c] \in {[slides |-> 0, holds |-> "thunk"], [slides |-> 0, holds |-> "value"],
                          [slides |-> 0, holds |-> "lookup"], [slides |-> 1, holds |-> "file"]}
      BY <1>3, Zenon
    <3>2. QED
      BY <3>1 DEF Unwrap!WordOf
  <2>3. QED
    BY <2>1, <2>2
<1>8. QED
  BY <1>6, <1>7 DEF linked

LEMMA InitUnwrap == Unwrap!UnwrapInit => Unwrap!UnwrapInv
<1> SUFFICES ASSUME Unwrap!UnwrapInit PROVE Unwrap!UnwrapInv
  OBVIOUS
<1>1. Unwrap!Fresh /\ staged = "none" /\ published = "none" /\ attempts = 1 /\ unwrap = "start"
      /\ ~ confirmed /\ ~ shims /\ bundle = Unwrap!Unlinked /\ writable = {}
      /\ text = [p \in TextPages |-> "cipher"]
  BY DEF Unwrap!UnwrapInit, Unwrap!Fresh
<1>2. /\ bundle.linked = FALSE /\ bundle.cells = Unwrap!Unlinked.cells
      /\ bundle \in [image : BOOLEAN, linked : BOOLEAN, cells : [DOMAIN BundleCells -> Unwrap!WordOf]]
  BY <1>1 DEF Unwrap!Unlinked, Unwrap!Raw, Unwrap!WordOf
<1>3. Unwrap!UnwrapTypeOK
  BY <1>1, UnwrapAssumed DEF Unwrap!UnwrapTypeOK, Unwrap!UnwrapAssumption
<1>4. Unwrap!UnwrapSound
  BY <1>1, <1>2 DEF Unwrap!UnwrapSound
<1>5. QED
  BY <1>1, <1>2, <1>3, <1>4 DEF Unwrap!UnwrapInv, Unwrap!LeftEncrypted

\* What has not been published yet is nothing.
LEMMA NotDoneYet ==
  ASSUME Unwrap!UnwrapInv, unwrap # "done"
  PROVE  published = "none"
BY DEF Unwrap!UnwrapInv, Unwrap!UnwrapSound

\* The steps before the decryptor is entered, and the ways out of it.
LEMMA LoadKeeps ==
  ASSUME Unwrap!UnwrapInv, Unwrap!FailsToLoad \/ Unwrap!LoadSteamloader \/ Unwrap!GivesUp
  PROVE  Unwrap!UnwrapInv'
<1>1. UNCHANGED <<text, writable, bundle, confirmed, staged, published, attempts>>
  BY DEF Unwrap!FailsToLoad, Unwrap!LoadSteamloader, Unwrap!GivesUp, Unwrap!Stops, Unwrap!guest,
         Unwrap!files
<1>2. CASE Unwrap!LoadSteamloader
  <2>1. /\ unwrap = "start" /\ unwrap' = "running" /\ shims'
        /\ cell' = Unwrap!Linked(LoaderCells, cell, TRUE)
        /\ cell = [c \in DOMAIN LoaderCells |-> Unwrap!Raw]
    BY <1>2 DEF Unwrap!LoadSteamloader, Unwrap!UnwrapInv, Unwrap!Fresh
  <2>2. Unwrap!IsRight(LoaderCells, cell', TRUE)
    BY <2>1, LinkedIsRight, UnwrapAssumed DEF Unwrap!UnwrapAssumption
  <2>3. published' = "none"
    BY <1>1, <2>1, NotDoneYet
  <2>4. Unwrap!UnwrapSound'
    BY <1>1, <2>1, <2>2, <2>3, Zenon DEF Unwrap!UnwrapInv, Unwrap!UnwrapSound
  <2>5. QED
    BY <1>1, <2>1, <2>4 DEF Unwrap!UnwrapInv, Unwrap!UnwrapTypeOK, Unwrap!LeftEncrypted, Unwrap!Fresh
<1>3. CASE Unwrap!FailsToLoad \/ Unwrap!GivesUp
  <2>1. /\ unwrap \in {"start", "refused"} /\ unwrap' = "failed" /\ UNCHANGED <<shims, cell>>
    BY <1>3 DEF Unwrap!FailsToLoad, Unwrap!GivesUp, Unwrap!Stops
  <2>2. ~ shims' /\ published' = "none"
    BY <1>1, <2>1, NotDoneYet DEF Unwrap!UnwrapInv, Unwrap!UnwrapSound
  <2>3. Unwrap!UnwrapSound'
    <3>1. bundle'.linked => Unwrap!IsRight(BundleCells, bundle'.cells, FALSE)
      BY <1>1 DEF Unwrap!UnwrapInv, Unwrap!UnwrapSound
    <3>2. unwrap' # "running"
      BY <2>1
    <3>3. QED
      BY <2>2, <3>1, <3>2 DEF Unwrap!UnwrapSound
  <2>4. QED
    BY <1>1, <2>1, <2>3 DEF Unwrap!UnwrapInv, Unwrap!UnwrapTypeOK, Unwrap!LeftEncrypted, Unwrap!Fresh
<1>4. QED
  BY <1>2, <1>3

\* What the decryptor does while it runs.
LEMMA RunKeeps ==
  ASSUME Unwrap!UnwrapInv,
         \/ \E p \in TextPages : Unwrap!ShimProtect(p) \/ Unwrap!Decrypts(p)
         \/ Unwrap!ShimCreateImage \/ Unwrap!ShimLink \/ Unwrap!ShimHandshake
  PROVE  Unwrap!UnwrapInv'
<1>1. /\ unwrap = "running" /\ UNCHANGED <<unwrap, cell, shims, staged, published, attempts>>
  BY DEF Unwrap!ShimProtect, Unwrap!Decrypts, Unwrap!ShimCreateImage, Unwrap!ShimLink,
         Unwrap!ShimHandshake, Unwrap!InGuest, Unwrap!files
<1>2. /\ text \in [TextPages -> {"cipher", "clear"}] /\ writable \subseteq TextPages
      /\ bundle \in [image : BOOLEAN, linked : BOOLEAN, cells : [DOMAIN BundleCells -> Unwrap!WordOf]]
      /\ (bundle.linked => Unwrap!IsRight(BundleCells, bundle.cells, FALSE))
      /\ (~ bundle.linked => bundle.cells = Unwrap!Unlinked.cells)
      /\ (~ confirmed => Unwrap!LeftEncrypted)
  BY DEF Unwrap!UnwrapInv, Unwrap!UnwrapTypeOK, Unwrap!UnwrapSound
<1>3. SUFFICES /\ text' \in [TextPages -> {"cipher", "clear"}] /\ writable' \subseteq TextPages
               /\ bundle' \in [image : BOOLEAN, linked : BOOLEAN,
                               cells : [DOMAIN BundleCells -> Unwrap!WordOf]]
               /\ (bundle'.linked => Unwrap!IsRight(BundleCells, bundle'.cells, FALSE))
               /\ (~ bundle'.linked => bundle'.cells = Unwrap!Unlinked.cells)
               /\ (~ confirmed' => Unwrap!LeftEncrypted')
  <2>1. Unwrap!UnwrapTypeOK'
    BY <1>1, <1>3 DEF Unwrap!UnwrapInv, Unwrap!UnwrapTypeOK
  <2>2. Unwrap!UnwrapSound'
    <3>1. published' = "none"
      BY <1>1, NotDoneYet
    <3>2. QED
      BY <1>1, <1>3, <3>1, Zenon DEF Unwrap!UnwrapInv, Unwrap!UnwrapSound
  <2>3. unwrap' # "start" /\ unwrap' # "written"
    BY <1>1
  <2>4. QED
    BY <1>1, <1>3, <2>1, <2>2, <2>3, Zenon DEF Unwrap!UnwrapInv
<1>4. CASE \E p \in TextPages : Unwrap!ShimProtect(p)
  <2>1. PICK p \in TextPages : Unwrap!ShimProtect(p)
    BY <1>4
  <2>2. writable' = writable \cup {p} /\ UNCHANGED <<text, bundle, confirmed>>
    BY <2>1 DEF Unwrap!ShimProtect
  <2>3. writable' \subseteq TextPages
    BY <1>2, <2>2
  <2>4. ~ confirmed' => Unwrap!LeftEncrypted'
    BY <1>2, <2>2, Zenon DEF Unwrap!LeftEncrypted
  <2>5. QED
    BY <1>2, <2>2, <2>3, <2>4, Zenon
<1>5. CASE \E p \in TextPages : Unwrap!Decrypts(p)
  <2>1. PICK p \in TextPages : Unwrap!Decrypts(p)
    BY <1>5
  <2>2. confirmed /\ text' = [text EXCEPT ![p] = "clear"] /\ UNCHANGED <<writable, bundle, confirmed>>
    BY <2>1 DEF Unwrap!Decrypts
  <2>3. text' \in [TextPages -> {"cipher", "clear"}]
    BY <1>2, <2>2
  <2>4. QED
    BY <1>2, <2>2, <2>3, Zenon
<1>6. CASE Unwrap!ShimHandshake
  BY <1>2, <1>6 DEF Unwrap!ShimHandshake, Unwrap!LeftEncrypted
<1>7. CASE Unwrap!ShimCreateImage
  <2>1. bundle' = [image |-> TRUE, linked |-> bundle.linked, cells |-> bundle.cells]
    BY <1>2, <1>7 DEF Unwrap!ShimCreateImage
  <2>2. UNCHANGED <<text, writable, confirmed>>
    BY <1>7 DEF Unwrap!ShimCreateImage
  <2>3. bundle'.linked = bundle.linked /\ bundle'.cells = bundle.cells
    BY <2>1
  <2>4. bundle' \in [image : BOOLEAN, linked : BOOLEAN, cells : [DOMAIN BundleCells -> Unwrap!WordOf]]
    BY <1>2, <2>1
  <2>5. QED
    BY <1>2, <2>2, <2>3, <2>4 DEF Unwrap!LeftEncrypted
<1>8. CASE Unwrap!ShimLink
  <2>1. UNCHANGED <<text, writable, confirmed>>
    BY <1>8 DEF Unwrap!ShimLink
  <2>2. CASE bundle.image /\ ~ bundle.linked
    <3>1. PICK new : new = Unwrap!Linked(BundleCells, bundle.cells, FALSE)
      OBVIOUS
    <3>2. bundle' = [image |-> TRUE, linked |-> TRUE, cells |-> new]
      BY <1>8, <2>2, <3>1, Zenon DEF Unwrap!ShimLink
    <3>3. bundle.cells = [c \in DOMAIN BundleCells |-> Unwrap!Raw]
      BY <1>2, <2>2 DEF Unwrap!Unlinked
    <3>4. Unwrap!IsRight(BundleCells, new, FALSE) /\ new \in [DOMAIN BundleCells -> Unwrap!WordOf]
      BY <3>1, <3>3, LinkedIsRight, UnwrapAssumed DEF Unwrap!UnwrapAssumption
    <3>5. bundle'.linked /\ bundle'.cells = new
      BY <3>2
    <3>6. bundle' \in [image : BOOLEAN, linked : BOOLEAN, cells : [DOMAIN BundleCells -> Unwrap!WordOf]]
      BY <3>2, <3>4
    <3>7. QED
      BY <1>2, <2>1, <3>4, <3>5, <3>6 DEF Unwrap!LeftEncrypted
  <2>3. CASE ~ (bundle.image /\ ~ bundle.linked)
    <3>1. bundle' = bundle
      BY <1>8, <2>3 DEF Unwrap!ShimLink
    <3>2. QED
      BY <1>2, <2>1, <3>1 DEF Unwrap!LeftEncrypted
  <2>4. QED
    BY <2>2, <2>3
<1>9. QED
  BY <1>4, <1>5, <1>6, <1>7, <1>8

\* The decryptor is left, and the file is written and published.
LEMMA LeaveKeeps ==
  ASSUME Unwrap!UnwrapInv,
         \/ Unwrap!LeavesGuest \/ Unwrap!GuestExits \/ Unwrap!GuestFaults
         \/ Unwrap!WriteImage \/ Unwrap!Publish
  PROVE  Unwrap!UnwrapInv'
<1>1. /\ UNCHANGED <<text, writable, bundle, confirmed, cell, attempts>>
      /\ unwrap' \in {"left", "refused", "written", "failed", "done"} /\ ~ shims'
      /\ unwrap # "done" /\ unwrap # "start"
  BY DEF Unwrap!LeavesGuest, Unwrap!GuestExits, Unwrap!GuestFaults, Unwrap!WriteImage,
         Unwrap!Publish, Unwrap!guest, Unwrap!files, Unwrap!UnwrapInv, Unwrap!UnwrapSound
<1>2. /\ published = "none"
      /\ Unwrap!LeftEncrypted' <=> Unwrap!LeftEncrypted
      /\ Unwrap!TextIs' = Unwrap!TextIs
  BY <1>1, NotDoneYet DEF Unwrap!LeftEncrypted, Unwrap!TextIs
<1>3. /\ Unwrap!TextIs \in {"retail", "mixed", "wrapped"}
      /\ ~ Unwrap!LeftEncrypted => Unwrap!TextIs \in {"retail", "mixed"}
  BY DEF Unwrap!TextIs, Unwrap!LeftEncrypted
<1>4. staged \in {"none", "short", "retail", "mixed", "wrapped"}
  BY DEF Unwrap!UnwrapInv, Unwrap!UnwrapTypeOK
<1>5. SUFFICES /\ staged' \in {"none", "short", "retail", "mixed", "wrapped"}
               /\ unwrap' = "written" => ~ Unwrap!LeftEncrypted /\ staged' = Unwrap!TextIs
               /\ \/ published' = "none"
                  \/ unwrap' = "done" /\ ~ Unwrap!LeftEncrypted /\ published' = Unwrap!TextIs
  <2>1. ~ confirmed => Unwrap!LeftEncrypted
    BY DEF Unwrap!UnwrapInv
  <2>2. Unwrap!UnwrapSound'
    <3>1. (bundle.linked => Unwrap!IsRight(BundleCells, bundle.cells, FALSE))'
      BY <1>1 DEF Unwrap!UnwrapInv, Unwrap!UnwrapSound
    <3>2. unwrap' # "running"
      BY <1>1
    <3>3. published' # "none" =>
            /\ unwrap' = "done" /\ confirmed' /\ ~ Unwrap!LeftEncrypted'
            /\ published' = Unwrap!TextIs' /\ published' \in {"retail", "mixed"}
      BY <1>1, <1>2, <1>3, <1>5, <2>1
    <3>4. QED
      BY <1>1, <3>1, <3>2, <3>3 DEF Unwrap!UnwrapSound
  <2>3. Unwrap!UnwrapTypeOK'
    BY <1>1, <1>3, <1>5 DEF Unwrap!UnwrapInv, Unwrap!UnwrapTypeOK
  <2>4. unwrap' = "written" => ~ Unwrap!LeftEncrypted' /\ staged' = Unwrap!TextIs'
    BY <1>2, <1>5
  <2>5. ~ confirmed' => Unwrap!LeftEncrypted'
    BY <1>1, <1>2, <2>1
  <2>6. QED
    BY <1>1, <2>2, <2>3, <2>4, <2>5 DEF Unwrap!UnwrapInv
<1>6. CASE Unwrap!LeavesGuest \/ Unwrap!GuestExits \/ Unwrap!GuestFaults
  BY <1>2, <1>4, <1>6 DEF Unwrap!LeavesGuest, Unwrap!GuestExits, Unwrap!GuestFaults, Unwrap!files
<1>7. CASE Unwrap!WriteImage
  BY <1>2, <1>3, <1>4, <1>7 DEF Unwrap!WriteImage
<1>8. CASE Unwrap!Publish
  BY <1>2, <1>8 DEF Unwrap!Publish, Unwrap!UnwrapInv
<1>9. QED
  BY <1>6, <1>7, <1>8

\* A new process starts over.
LEMMA RetryKeeps ==
  ASSUME Unwrap!UnwrapInv, Unwrap!Retry
  PROVE  Unwrap!UnwrapInv'
<1>1. /\ attempts < MaxAttempts /\ attempts' = attempts + 1 /\ unwrap = "refused" /\ unwrap' = "start"
      /\ text' = [p \in TextPages |-> "cipher"] /\ writable' = {} /\ confirmed' = FALSE
      /\ cell' = [c \in DOMAIN LoaderCells |-> Unwrap!Raw] /\ bundle' = Unwrap!Unlinked /\ shims' = FALSE
      /\ UNCHANGED <<staged, published>>
  BY DEF Unwrap!Retry
<1>2. /\ bundle'.linked = FALSE /\ bundle'.cells = Unwrap!Unlinked.cells
      /\ bundle' \in [image : BOOLEAN, linked : BOOLEAN, cells : [DOMAIN BundleCells -> Unwrap!WordOf]]
  BY <1>1 DEF Unwrap!Unlinked, Unwrap!Raw, Unwrap!WordOf
<1>3. Unwrap!Fresh' /\ Unwrap!LeftEncrypted'
  BY <1>1 DEF Unwrap!Fresh, Unwrap!Unlinked, Unwrap!LeftEncrypted
<1>4. Unwrap!UnwrapTypeOK'
  BY <1>1, UnwrapAssumed DEF Unwrap!UnwrapInv, Unwrap!UnwrapTypeOK, Unwrap!UnwrapAssumption
<1>5. Unwrap!UnwrapSound'
  <2>1. published' = "none"
    BY <1>1, NotDoneYet
  <2>2. QED
    BY <1>1, <1>2, <2>1 DEF Unwrap!UnwrapSound
<1>6. QED
  BY <1>1, <1>2, <1>3, <1>4, <1>5 DEF Unwrap!UnwrapInv

LEMMA UnwrapInvariant == Unwrap!UnwrapSpec => []Unwrap!UnwrapInv
<1>1. Unwrap!UnwrapInv /\ [Unwrap!UnwrapNext]_(Unwrap!unwrapVars) => Unwrap!UnwrapInv'
  <2> SUFFICES ASSUME Unwrap!UnwrapInv, [Unwrap!UnwrapNext]_(Unwrap!unwrapVars)
               PROVE  Unwrap!UnwrapInv'
    OBVIOUS
  <2>1. CASE Unwrap!UnwrapNext
    BY <2>1, LoadKeeps, RunKeeps, LeaveKeeps, RetryKeeps DEF Unwrap!UnwrapNext
  <2>2. CASE UNCHANGED Unwrap!unwrapVars
    BY <2>2 DEF Unwrap!unwrapVars, Unwrap!UnwrapInv, Unwrap!UnwrapTypeOK, Unwrap!Fresh,
                Unwrap!LeftEncrypted, Unwrap!TextIs, Unwrap!UnwrapSound
  <2>3. QED
    BY <2>1, <2>2
<1>2. QED
  BY <1>1, InitUnwrap, PTL DEF Unwrap!UnwrapSpec

\* What build.py publishes is the text of the attempt that succeeded, confirmed by
\* Steam and decrypted at least in part, however often Steam refused or a write came
\* up short before; and Valve's images run bound as dyld would have bound them
\* (steam_unwrap.c, build.py).
THEOREM ComponentUnwrapSound == Spec => []UnwrapSound
<1>1. Unwrap!UnwrapInv => UnwrapSound
  BY DEF Unwrap!UnwrapInv, UnwrapSound
<1>2. QED
  BY <1>1, UnwrapBehaves, UnwrapInvariant, PTL

-----------------------------------------------------------------------------
(* The tables *)

\* The first of what a table is searched for.
LEMMA LeastExists ==
  ASSUME NEW S \in SUBSET Nat, S # {}
  PROVE  \E s \in S : \A u \in S : s <= u
<1>1. PICK s \in S : \A u \in S : ~ (<<u, s>> \in OpToRel(<, Nat))
  BY NatLessThanWellFounded, WFMin, Zenon
<1>2. \A u \in S : ~ (u < s)
  BY <1>1 DEF OpToRel
<1> QED
  BY <1>2

-----------------------------------------------------------------------------
(* What runs once *)

LEMMA OnceAssumed == Once!OnceAssumption
BY ComponentsAssumption

LEMMA OnceBehaves == Spec => Once!OnceSpec
<1>1. Init => Once!OnceInit
  BY DEF Init
<1>2. [Next]_vars => [Once!OnceNext]_(Once!onceVars)
  BY DEF Next, Alone, vars, onceVars, Once!onceVars
<1>3. QED
  BY <1>1, <1>2, PTL DEF Spec, Once!OnceSpec

LEMMA OnceCounts == \A S : Once!Cardinality(S) = Cardinality(S) /\ (Once!IsFiniteSet(S) <=> IsFiniteSet(S))
BY DEF Once!Cardinality, Cardinality, Once!IsFiniteSet, IsFiniteSet

LEMMA InitOnce == Once!OnceInit => Once!OnceInv
<1> SUFFICES ASSUME Once!OnceInit PROVE Once!OnceInv
  OBVIOUS
<1>1. Once!IsFiniteSet({})
  BY OnceCounts, FS_EmptySet
<1>2. Once!OnceSound
  BY DEF Once!OnceInit, Once!OnceSound
<1>3. QED
  BY <1>1, <1>2, OnceAssumed DEF Once!OnceInit, Once!OnceInv, Once!OnceAssumption

\* What the guard does leaves the rest alone.
LEMMA GuardKeeps ==
  ASSUME Once!OnceInv, NEW t \in Guests,
         Once!GuardAcquire(t) \/ Once!GuardRelease(t) \/ Once!GuardAbort(t)
  PROVE  Once!OnceInv'
<1>1. UNCHANGED <<onceLock, completed, running, begun, finished, early>>
  BY DEF Once!GuardAcquire, Once!GuardRelease, Once!GuardAbort
<1>2. guard' \in [done : BOOLEAN, busy : BOOLEAN] /\ (guard'.busy => building' # {})
  <2>1. guard \in [done : BOOLEAN, busy : BOOLEAN]
    BY DEF Once!OnceInv
  <2>2. CASE Once!GuardAcquire(t)
    <3>1. guard' = [guard EXCEPT !.busy = TRUE] /\ building' # {}
      BY <2>2 DEF Once!GuardAcquire
    <3>2. QED
      BY <2>1, <3>1
  <2>3. CASE Once!GuardRelease(t)
    BY <2>3 DEF Once!GuardRelease
  <2>4. CASE Once!GuardAbort(t)
    <3>1. guard' = [guard EXCEPT !.busy = FALSE]
      BY <2>4 DEF Once!GuardAbort
    <3>2. QED
      BY <2>1, <3>1
  <2>5. QED
    BY <2>2, <2>3, <2>4
<1>3. Once!OnceSound'
  BY <1>1, <1>2 DEF Once!OnceInv, Once!OnceSound
<1>4. QED
  BY <1>1, <1>2, <1>3 DEF Once!OnceInv, Once!Within

\* A call that finds its control in the table returns at once: early only to the
\* thread that is in the initializer.
LEMMA SkipKeeps ==
  ASSUME Once!OnceInv, NEW t \in Guests, NEW c \in Controls, Once!Skips(t, c)
  PROVE  Once!OnceInv'
<1>1. /\ UNCHANGED <<onceLock, completed, running, begun, finished, guard, building>>
      /\ c \in completed /\ onceLock \in {t, None}
      /\ early' \in {early, early \cup {[thread |-> t, control |-> c]}}
      /\ c \in finished => early' = early
  BY DEF Once!Skips, Once!Takes
<1>2. c \notin finished => Once!Within(t, c)
  <2>1. ASSUME NEW u \in Guests, Once!Within(u, c) PROVE u = t
    BY <1>1, <2>1, OnceAssumed DEF Once!OnceInv, Once!Within, Once!OnceAssumption
  <2>2. QED
    BY <1>1, <2>1 DEF Once!OnceInv
<1>3. \A e \in early' : e.thread \in Guests
                          /\ (e.control \in finished \/ Once!Within(e.thread, e.control))
  BY <1>1, <1>2 DEF Once!OnceInv, Once!OnceSound, Once!Within
<1>4. Once!OnceSound'
  BY <1>1, <1>3 DEF Once!OnceInv, Once!OnceSound, Once!Within
<1>5. QED
  BY <1>1, <1>3, <1>4 DEF Once!OnceInv, Once!Within

\* Starting one: it is in the table, unless that is full, and on the stack.
LEMMA StartKeeps ==
  ASSUME Once!OnceInv, NEW t \in Guests, NEW c \in Controls, Once!Starts(t, c)
  PROVE  Once!OnceInv'
<1>1. /\ UNCHANGED <<finished, early, guard, building>>
      /\ c \notin completed /\ onceLock \in {t, None} /\ onceLock' = t
      /\ completed' = Once!Marks(c)
      /\ running' = [running EXCEPT ![t] = Append(running[t], c)]
      /\ begun' = [begun EXCEPT ![c] = IF begun[c] < 2 THEN begun[c] + 1 ELSE begun[c]]
  BY DEF Once!Starts, Once!Takes
<1>2. /\ completed \subseteq Controls /\ IsFiniteSet(completed) /\ Cardinality(completed) \in Nat
      /\ running \in [Guests -> Seq(Controls)] /\ begun \in [Controls -> 0 .. 2] /\ OnceCapacity \in Nat
  BY OnceCounts, OnceAssumed, FS_CardinalityType DEF Once!OnceInv, Once!OnceAssumption
<1>3. /\ completed' \subseteq Controls /\ IsFiniteSet(completed')
      /\ Cardinality(completed') < OnceCapacity =>
           Cardinality(completed) < OnceCapacity /\ completed' = completed \cup {c}
  <2>1. Cardinality(completed \cup {c}) = Cardinality(completed) + 1 /\ IsFiniteSet(completed \cup {c})
    BY <1>1, <1>2, FS_AddElement
  <2>2. completed' = IF Cardinality(completed) < OnceCapacity THEN completed \cup {c} ELSE completed
    BY <1>1, OnceCounts DEF Once!Marks
  <2>3. QED
    BY <1>2, <2>1, <2>2
<1>4. /\ running' \in [Guests -> Seq(Controls)] /\ begun' \in [Controls -> 0 .. 2]
      /\ running'[t] = Append(running[t], c) /\ \A u \in Guests \ {t} : running'[u] = running[u]
  BY <1>1, <1>2
<1>5. /\ \A u \in Guests : \A d : Once!Within(u, d) => Once!Within(u, d)'
      /\ Once!Within(t, c)'
  <2>1. ASSUME NEW u \in Guests, NEW d, Once!Within(u, d) PROVE Once!Within(u, d)'
    <3>1. PICK i \in DOMAIN running[u] : running[u][i] = d
      BY <2>1 DEF Once!Within
    <3>2. i \in DOMAIN running'[u] /\ running'[u][i] = d
      <4>1. CASE u = t
        <5>1. running[t] \in Seq(Controls) /\ running'[t] = Append(running[t], c) /\ i \in 1 .. Len(running[t])
          BY <1>2, <1>4, <3>1, <4>1
        <5>2. i \in DOMAIN Append(running[t], c) /\ Append(running[t], c)[i] = running[t][i]
          BY <1>2, <5>1
        <5>3. QED
          BY <3>1, <4>1, <5>1, <5>2
      <4>2. CASE u # t
        BY <1>4, <3>1, <4>2
      <4>3. QED
        BY <4>1, <4>2
    <3>3. QED
      BY <3>2 DEF Once!Within
  <2>2. Once!Within(t, c)'
    <3>1. Len(running'[t]) \in DOMAIN running'[t] /\ running'[t][Len(running'[t])] = c
      BY <1>2, <1>4
    <3>2. QED
      BY <3>1 DEF Once!Within
  <2>3. QED
    BY <2>1, <2>2
<1>6. \A u \in Guests : running'[u] # <<>> <=> onceLock' = u
  <2>1. \A u \in Guests \ {t} : running[u] = <<>>
    BY <1>1, OnceAssumed DEF Once!OnceInv, Once!OnceAssumption
  <2>2. running'[t] # <<>>
    BY <1>2, <1>4
  <2>3. QED
    BY <1>1, <1>4, <2>1, <2>2
<1>7. Cardinality(completed') < OnceCapacity =>
        /\ \A d \in Controls \ completed' : begun'[d] = 0
        /\ \A d \in Controls : begun'[d] <= 1
  <2>1. SUFFICES ASSUME Cardinality(completed') < OnceCapacity
                 PROVE  /\ \A d \in Controls \ completed' : begun'[d] = 0
                        /\ \A d \in Controls : begun'[d] <= 1
    OBVIOUS
  <2>2. Cardinality(completed) < OnceCapacity /\ completed' = completed \cup {c}
    BY <1>3, <2>1
  <2>3. (\A d \in Controls \ completed : begun[d] = 0) /\ \A d \in Controls : begun[d] <= 1
    BY <2>2, OnceCounts DEF Once!OnceInv, Once!OnceSound
  <2>4. QED
    BY <1>1, <1>2, <2>2, <2>3
<1>8. \A d \in completed' \ finished' : \E u \in Guests : Once!Within(u, d)'
  <2>1. \A d \in completed' : d = c \/ d \in completed
    BY <1>1 DEF Once!Marks
  <2>2. QED
    BY <1>1, <1>2, <1>5, <2>1 DEF Once!OnceInv
<1>9. \A e \in early' : e.thread \in Guests
                          /\ (e.control \in finished' \/ Once!Within(e.thread, e.control)')
  <2>1. \A e \in early : e.thread \in Guests
                            /\ (e.control \in finished \/ Once!Within(e.thread, e.control))
    BY DEF Once!OnceInv, Once!OnceSound, Once!Within
  <2>2. QED
    BY <1>1, <1>5, <2>1
<1>10. onceLock' # None <=> \E u \in Guests : running'[u] # <<>>
  BY <1>1, <1>4, <1>6, OnceAssumed DEF Once!OnceInv, Once!OnceAssumption
<1>11. Once!OnceSound'
  BY <1>1, <1>7, <1>9, <1>10, OnceCounts DEF Once!OnceInv, Once!OnceSound, Once!Within
<1>12. QED
  BY <1>1, <1>3, <1>4, <1>6, <1>7, <1>8, <1>9, <1>11, OnceCounts DEF Once!OnceInv

\* An initializer that ends leaves the stack and has ended for good.
LEMMA EndKeeps ==
  ASSUME Once!OnceInv, NEW t \in Guests, Once!Ends(t)
  PROVE  Once!OnceInv'
<1> DEFINE n == Len(running[t])
<1>1. /\ UNCHANGED <<completed, begun, early, guard, building>>
      /\ running[t] # <<>>
      /\ running' = [running EXCEPT ![t] = SubSeq(running[t], 1, n - 1)]
      /\ finished' = finished \cup {running[t][n]}
      /\ onceLock' = IF n = 1 THEN None ELSE onceLock
  BY DEF Once!Ends
<1>2. /\ running \in [Guests -> Seq(Controls)] /\ running[t] \in Seq(Controls)
      /\ n \in Nat \ {0} /\ DOMAIN running[t] = 1 .. n
      /\ onceLock = t
  BY <1>1 DEF Once!OnceInv
<1>3. /\ running' \in [Guests -> Seq(Controls)] /\ \A u \in Guests \ {t} : running'[u] = running[u]
      /\ running'[t] = SubSeq(running[t], 1, n - 1)
  BY <1>1, <1>2
<1>4. /\ DOMAIN running'[t] = 1 .. n - 1 /\ \A i \in 1 .. n - 1 : running'[t][i] = running[t][i]
      /\ running'[t] = <<>> <=> n = 1
  <2>1. /\ SubSeq(running[t], 1, n - 1) \in Seq(Controls) /\ Len(SubSeq(running[t], 1, n - 1)) = n - 1
        /\ \A i \in 1 .. n - 1 : SubSeq(running[t], 1, n - 1)[i] = running[t][i]
    BY <1>2
  <2>2. DOMAIN running'[t] = 1 .. n - 1 /\ Len(running'[t]) = n - 1 /\ running'[t] \in Seq(Controls)
    BY <1>3, <2>1
  <2>3. running'[t] = <<>> <=> n = 1
    <3>1. CASE n = 1
      BY <2>2, <3>1
    <3>2. CASE n # 1
      <4>1. Len(running'[t]) # 0
        <5>1. n \in Nat /\ n # 0 /\ n # 1 /\ Len(running'[t]) = n - 1
          BY <1>2, <2>2, <3>2
        <5> HIDE DEF n
        <5>2. QED
          BY <5>1
      <4>2. running'[t] # <<>>
        BY <4>1
      <4>3. QED
        BY <3>2, <4>2
    <3>3. QED
      BY <3>1, <3>2
  <2>4. QED
    BY <1>3, <2>1, <2>2, <2>3
<1>5. \A u \in Guests : \A d : Once!Within(u, d) => Once!Within(u, d)' \/ d \in finished'
  <2>1. ASSUME NEW u \in Guests, NEW d, Once!Within(u, d) PROVE Once!Within(u, d)' \/ d \in finished'
    <3>1. PICK i \in DOMAIN running[u] : running[u][i] = d
      BY <2>1 DEF Once!Within
    <3>2. CASE u = t /\ i = n
      BY <1>1, <3>1, <3>2
    <3>3. CASE u # t \/ i # n
      <4>1. i \in DOMAIN running'[u] /\ running'[u][i] = d
        <5>1. CASE u # t
          BY <1>3, <3>1, <5>1
        <5>2. CASE u = t
          BY <1>2, <1>4, <3>1, <3>3, <5>2
        <5>3. QED
          BY <5>1, <5>2
      <4>2. QED
        BY <4>1 DEF Once!Within
    <3>4. QED
      BY <3>2, <3>3
  <2>2. QED
    BY <2>1
<1>6. /\ \A u \in Guests : running'[u] # <<>> <=> onceLock' = u
      /\ onceLock' # None <=> \E u \in Guests : running'[u] # <<>>
      /\ onceLock' \in Guests \cup {None}
  <2>1. \A u \in Guests \ {t} : running'[u] = <<>>
    BY <1>2, <1>3 DEF Once!OnceInv
  <2>2. t # None
    BY OnceAssumed DEF Once!OnceAssumption
  <2>3. \A u \in Guests : u # None
    BY OnceAssumed DEF Once!OnceAssumption
  <2>4. onceLock' = IF n = 1 THEN None ELSE t
    BY <1>1, <1>2
  <2>5. QED
    BY <1>4, <2>1, <2>2, <2>3, <2>4
<1>7. \A d \in completed' \ finished' : \E u \in Guests : Once!Within(u, d)'
  BY <1>1, <1>5 DEF Once!OnceInv
<1>8. \A e \in early' : e.thread \in Guests
                          /\ (e.control \in finished' \/ Once!Within(e.thread, e.control)')
  <2>1. \A e \in early : e.thread \in Guests
                            /\ (e.control \in finished \/ Once!Within(e.thread, e.control))
    BY DEF Once!OnceInv, Once!OnceSound, Once!Within
  <2>2. finished \subseteq finished'
    BY <1>1
  <2>3. QED
    BY <1>1, <1>5, <2>1, <2>2
<1>9. Once!OnceSound'
  BY <1>1, <1>6, <1>8 DEF Once!OnceInv, Once!OnceSound, Once!Within
<1>10. QED
  BY <1>1, <1>3, <1>6, <1>7, <1>8, <1>9 DEF Once!OnceInv

LEMMA OnceInvariant == Once!OnceSpec => []Once!OnceInv
<1>1. Once!OnceInv /\ [Once!OnceNext]_(Once!onceVars) => Once!OnceInv'
  <2> SUFFICES ASSUME Once!OnceInv, [Once!OnceNext]_(Once!onceVars) PROVE Once!OnceInv'
    OBVIOUS
  <2>1. CASE UNCHANGED Once!onceVars
    BY <2>1 DEF Once!onceVars, Once!OnceInv, Once!OnceSound, Once!Within
  <2>2. CASE Once!OnceNext
    BY <2>2, GuardKeeps, SkipKeeps, StartKeeps, EndKeeps DEF Once!OnceNext
  <2>3. QED
    BY <2>1, <2>2
<1>2. QED
  BY <1>1, InitOnce, PTL DEF Once!OnceSpec

-----------------------------------------------------------------------------
(* The directories *)

LEMMA DirsAssumed == Directories!DirectoriesAssumption
BY ComponentsAssumption

LEMMA DirsBehave == Spec => Directories!DirsSpec
<1>1. Init => Directories!DirsInit
  BY DEF Init
<1>2. [Next]_vars => [Directories!DirsNext]_(Directories!dirVars)
  BY DEF Next, Alone, vars, dirVars, Directories!dirVars
<1>3. QED
  BY <1>1, <1>2, PTL DEF Spec, Directories!DirsSpec

LEMMA FirstFreeIs ==
  ASSUME Directories!FreeDirSlots # {}
  PROVE  Directories!FirstFree \in Directories!DirSlots /\ directory[Directories!FirstFree] = NoDir
<1>1. Directories!FreeDirSlots \in SUBSET Nat
  BY DirsAssumed DEF Directories!FreeDirSlots, Directories!DirSlots, Directories!DirectoriesAssumption
<1>2. \E s \in Directories!FreeDirSlots : \A u \in Directories!FreeDirSlots : s <= u
  BY <1>1, LeastExists
<1>3. Directories!FirstFree \in Directories!FreeDirSlots
  BY <1>2 DEF Directories!FirstFree
<1>4. QED
  BY <1>3 DEF Directories!FreeDirSlots

\* Where an open DIR may be.
Placed(d) ==
  \/ \E s \in Directories!DirSlots : directory[s] = d
  \/ \E t \in Guests : opening[t] = d \/ surplus[t] = d

LEMMA OpenArePlaced ==
  openDirs = ({directory[s] : s \in Directories!DirSlots} \cup {opening[t] : t \in Guests}
               \cup {surplus[t] : t \in Guests}) \ {NoDir}
  <=> \A d : d \in openDirs <=> d # NoDir /\ Placed(d)
BY DEF Placed

LEMMA OpenKnown ==
  ASSUME Directories!DirsInv
  PROVE  \A d : d \in openDirs <=> d # NoDir /\ Placed(d)
BY OpenArePlaced DEF Directories!DirsInv, Directories!DirectoriesSound

LEMMA InitDirs == Directories!DirsInit => Directories!DirsInv
<1> SUFFICES ASSUME Directories!DirsInit PROVE Directories!DirsInv
  OBVIOUS
<1>1. Directories!DirsTyped /\ Directories!DirsNumbered /\ Directories!OnePlace /\ Directories!HeldKnown
  BY DirsAssumed
  DEF Directories!DirsInit, Directories!Empty, Directories!DirectoriesAssumption, Directories!DirsTyped,
      Directories!DirsNumbered, Directories!OnePlace, Directories!HeldKnown
<1>2. Directories!DirectoriesSound
  BY DEF Directories!DirsInit, Directories!DirectoriesSound
<1>3. QED
  BY <1>1, <1>2 DEF Directories!DirsInv

\* The DIR that opendir returns is a new one.
LEMMA OpenDirKeeps ==
  ASSUME Directories!DirsInv, NEW t \in Guests, Directories!OpenDir(t)
  PROVE  Directories!DirsInv'
<1> DEFINE new == dirsOpened + 1
<1>1. /\ UNCHANGED <<directory, dirent, surplus, dirHeld, dirRead>>
      /\ opening[t] = NoDir /\ surplus[t] = NoDir
      /\ dirsOpened' = new /\ openDirs' = openDirs \cup {new}
      /\ opening' = [opening EXCEPT ![t] = new]
  BY DEF Directories!OpenDir, Directories!Ready
<1>2. /\ directory \in [Directories!DirSlots -> Nat \cup {NoDir}]
      /\ dirent \in [Directories!DirSlots -> Nat \cup {NoDir}]
      /\ opening \in [Guests -> Nat \cup {NoDir}] /\ surplus \in [Guests -> Nat \cup {NoDir}]
      /\ dirsOpened \in Nat /\ dirHeld \subseteq [slot : Directories!DirSlots, dir : Nat]
      /\ NoDir \notin Nat
  BY DirsAssumed DEF Directories!DirsInv, Directories!DirsTyped, Directories!DirectoriesAssumption
<1>3. new \in Nat /\ new > dirsOpened /\ new # NoDir
  BY <1>2
<1>4. /\ \A s \in Directories!DirSlots : directory[s] \in Nat => directory[s] <= dirsOpened
      /\ \A u \in Guests : /\ opening[u] \in Nat => opening[u] <= dirsOpened
                           /\ surplus[u] \in Nat => surplus[u] <= dirsOpened
  BY DEF Directories!DirsInv, Directories!DirsNumbered
<1>5. /\ \A s \in Directories!DirSlots : directory[s] # new
      /\ \A u \in Guests : opening[u] # new /\ surplus[u] # new
  BY <1>2, <1>3, <1>4
<1>6. /\ opening' \in [Guests -> Nat \cup {NoDir}] /\ opening'[t] = new
      /\ \A u \in Guests \ {t} : opening'[u] = opening[u]
  BY <1>1, <1>2, <1>3
<1> HIDE DEF new
<1>7. Directories!DirsTyped' /\ Directories!HeldKnown'
  BY <1>1, <1>2, <1>3, <1>6 DEF Directories!DirsInv, Directories!DirsTyped, Directories!HeldKnown
<1>8. Directories!DirsNumbered'
  BY <1>1, <1>2, <1>3, <1>4, <1>6 DEF Directories!DirsNumbered
<1>9. Directories!OnePlace'
  BY <1>1, <1>3, <1>5, <1>6 DEF Directories!DirsInv, Directories!OnePlace
<1>10. \A d : d \in openDirs' <=> d # NoDir /\ Placed(d)'
  <2>1. \A d : Placed(d)' /\ d # NoDir <=> (Placed(d) \/ d = new) /\ d # NoDir
    BY <1>1, <1>6 DEF Placed
  <2>2. QED
    BY <1>1, <1>3, <2>1, OpenKnown
<1>11. Directories!DirectoriesSound'
  BY <1>1, <1>10, OpenArePlaced DEF Directories!DirsInv, Directories!DirectoriesSound, Placed
<1>12. QED
  BY <1>7, <1>8, <1>9, <1>11 DEF Directories!DirsInv

LEMMA DirsAre ==
  ASSUME Directories!DirsInv
  PROVE  /\ directory \in [Directories!DirSlots -> Nat \cup {NoDir}]
         /\ dirent \in [Directories!DirSlots -> Nat \cup {NoDir}]
         /\ opening \in [Guests -> Nat \cup {NoDir}] /\ surplus \in [Guests -> Nat \cup {NoDir}]
         /\ dirsOpened \in Nat /\ dirHeld \subseteq [slot : Directories!DirSlots, dir : Nat]
         /\ NoDir \notin Nat
BY DirsAssumed DEF Directories!DirsInv, Directories!DirsTyped, Directories!DirectoriesAssumption

\* It goes to the first free slot, or stays with the thread that has to close it.
LEMMA RegisterDirKeeps ==
  ASSUME Directories!DirsInv, NEW t \in Guests, Directories!RegisterDir(t)
  PROVE  Directories!DirsInv'
<1> DEFINE mine == opening[t]
<1>1. /\ UNCHANGED <<openDirs, dirsOpened, dirRead>>
      /\ mine # NoDir /\ mine \in Nat /\ surplus[t] = NoDir
      /\ opening' = [opening EXCEPT ![t] = NoDir]
  BY DirsAre DEF Directories!RegisterDir, Directories!DirsInv, Directories!OnePlace
<1>2. /\ opening' \in [Guests -> Nat \cup {NoDir}] /\ opening'[t] = NoDir
      /\ \A u \in Guests \ {t} : opening'[u] = opening[u]
  BY <1>1, DirsAre
<1>3. CASE Directories!HasSlot
  <2> DEFINE f == Directories!FirstFree
  <2>1. f \in Directories!DirSlots /\ directory[f] = NoDir
    BY <1>3, FirstFreeIs DEF Directories!HasSlot
  <2> HIDE DEF f, mine
  <2>2. /\ directory' = [directory EXCEPT ![f] = mine]
        /\ dirent' = IF dirent[f] = NoDir THEN [dirent EXCEPT ![f] = Directories!Empty] ELSE dirent
        /\ dirHeld' = dirHeld \cup {[slot |-> f, dir |-> mine]}
        /\ UNCHANGED surplus
    BY <1>3 DEF Directories!RegisterDir, f, mine
  <2>3. /\ directory' \in [Directories!DirSlots -> Nat \cup {NoDir}] /\ directory'[f] = mine
        /\ \A s \in Directories!DirSlots \ {f} : directory'[s] = directory[s]
    BY <1>1, <2>1, <2>2, DirsAre
  <2>4. /\ dirent' \in [Directories!DirSlots -> Nat \cup {NoDir}] /\ dirent'[f] # NoDir
        /\ \A s \in Directories!DirSlots \ {f} : dirent'[s] = dirent[s]
    BY <2>1, <2>2, DirsAre DEF Directories!Empty
  <2>5. Directories!DirsTyped'
    BY <1>1, <1>2, <2>1, <2>2, <2>3, <2>4, DirsAre DEF Directories!DirsTyped
  <2>6. Directories!DirsNumbered'
    BY <1>1, <1>2, <2>2, <2>3, DirsAre DEF Directories!DirsInv, Directories!DirsNumbered, mine
  <2>7. Directories!OnePlace'
    BY <1>1, <1>2, <2>1, <2>2, <2>3 DEF Directories!DirsInv, Directories!OnePlace, mine
  <2>8. Directories!HeldKnown'
    <3> SUFFICES ASSUME NEW h \in dirHeld' PROVE directory'[h.slot] = h.dir
      BY DEF Directories!HeldKnown
    <3>1. CASE h = [slot |-> f, dir |-> mine]
      BY <2>3, <3>1
    <3>2. CASE h \in dirHeld
      <4>1. directory[h.slot] = h.dir /\ h.slot \in Directories!DirSlots /\ h.dir \in Nat
        BY <3>2, DirsAre DEF Directories!DirsInv, Directories!HeldKnown
      <4>2. h.slot # f
        BY <2>1, <4>1, DirsAre
      <4>3. QED
        BY <2>3, <4>1, <4>2
    <3>3. QED
      BY <2>2, <3>1, <3>2
  <2>9. \A d : d # NoDir => (Placed(d)' <=> Placed(d))
    BY <1>1, <1>2, <2>1, <2>2, <2>3 DEF Placed, mine
  <2>10. \A d : d \in openDirs' <=> d # NoDir /\ Placed(d)'
    BY <1>1, <2>9, OpenKnown
  <2>11. openDirs' = ({directory'[s] : s \in Directories!DirSlots} \cup {opening'[u] : u \in Guests}
                       \cup {surplus'[u] : u \in Guests}) \ {NoDir}
    BY <2>10 DEF Placed
  <2>12. \A s, u \in Directories!DirSlots : s # u /\ directory'[s] # NoDir => directory'[s] # directory'[u]
    BY <1>1, <2>1, <2>3 DEF Directories!DirsInv, Directories!OnePlace, Directories!DirectoriesSound, mine
  <2>13. dirRead'.got = dirRead'.wanted
         /\ \A s \in Directories!DirSlots : directory'[s] # NoDir => dirent'[s] # NoDir
    BY <1>1, <2>3, <2>4 DEF Directories!DirsInv, Directories!DirectoriesSound
  <2>14. QED
    BY <2>5, <2>6, <2>7, <2>8, <2>11, <2>12, <2>13 DEF Directories!DirsInv, Directories!DirectoriesSound
<1>4. CASE ~ Directories!HasSlot
  <2> HIDE DEF mine
  <2>1. surplus' = [surplus EXCEPT ![t] = mine] /\ UNCHANGED <<directory, dirent, dirHeld>>
    BY <1>4 DEF Directories!RegisterDir, mine
  <2>2. /\ surplus' \in [Guests -> Nat \cup {NoDir}] /\ surplus'[t] = mine
        /\ \A u \in Guests \ {t} : surplus'[u] = surplus[u]
    BY <1>1, <2>1, DirsAre
  <2>3. Directories!DirsTyped' /\ Directories!HeldKnown'
    BY <1>1, <1>2, <2>1, <2>2, DirsAre DEF Directories!DirsInv, Directories!DirsTyped, Directories!HeldKnown
  <2>4. Directories!DirsNumbered'
    BY <1>1, <1>2, <2>1, <2>2, DirsAre DEF Directories!DirsInv, Directories!DirsNumbered, mine
  <2>5. Directories!OnePlace'
    BY <1>1, <1>2, <2>1, <2>2 DEF Directories!DirsInv, Directories!OnePlace, mine
  <2>6. \A d : d # NoDir => (Placed(d)' <=> Placed(d))
    BY <1>1, <1>2, <2>1, <2>2 DEF Placed, mine
  <2>7. \A d : d \in openDirs' <=> d # NoDir /\ Placed(d)'
    BY <1>1, <2>6, OpenKnown
  <2>8. openDirs' = ({directory'[s] : s \in Directories!DirSlots} \cup {opening'[u] : u \in Guests}
                       \cup {surplus'[u] : u \in Guests}) \ {NoDir}
    BY <2>7 DEF Placed
  <2>9. QED
    BY <1>1, <2>1, <2>3, <2>4, <2>5, <2>8 DEF Directories!DirsInv, Directories!DirectoriesSound
<1>5. QED
  BY <1>3, <1>4

\* A DIR that found no slot is closed by the thread that opened it.
LEMMA CloseSurplusKeeps ==
  ASSUME Directories!DirsInv, NEW t \in Guests, Directories!CloseSurplus(t)
  PROVE  Directories!DirsInv'
<1>1. /\ UNCHANGED <<directory, dirent, opening, dirHeld, dirsOpened, dirRead>>
      /\ surplus[t] # NoDir /\ openDirs' = openDirs \ {surplus[t]}
      /\ surplus' = [surplus EXCEPT ![t] = NoDir]
  BY DEF Directories!CloseSurplus
<1>2. /\ surplus' \in [Guests -> Nat \cup {NoDir}] /\ surplus'[t] = NoDir
      /\ \A u \in Guests \ {t} : surplus'[u] = surplus[u]
  BY <1>1, DirsAre
<1>3. Directories!DirsTyped' /\ Directories!HeldKnown'
  BY <1>1, <1>2, DirsAre DEF Directories!DirsInv, Directories!DirsTyped, Directories!HeldKnown
<1>4. Directories!DirsNumbered'
  BY <1>1, <1>2, DirsAre DEF Directories!DirsInv, Directories!DirsNumbered
<1>5. Directories!OnePlace'
  BY <1>1, <1>2 DEF Directories!DirsInv, Directories!OnePlace
<1>6. \A d : d # NoDir => (Placed(d)' <=> Placed(d) /\ d # surplus[t])
  BY <1>1, <1>2 DEF Placed, Directories!DirsInv, Directories!OnePlace
<1>7. \A d : d \in openDirs' <=> d # NoDir /\ Placed(d)'
  BY <1>1, <1>6, OpenKnown
<1>8. openDirs' = ({directory'[s] : s \in Directories!DirSlots} \cup {opening'[u] : u \in Guests}
                    \cup {surplus'[u] : u \in Guests}) \ {NoDir}
  BY <1>7 DEF Placed
<1>9. QED
  BY <1>1, <1>3, <1>4, <1>5, <1>8 DEF Directories!DirsInv, Directories!DirectoriesSound

\* What a guest reads or closes is what its handle's slot holds.
LEMMA ReadDirKeeps ==
  ASSUME Directories!DirsInv, NEW t \in Guests, Directories!ReadDir(t)
  PROVE  Directories!DirsInv'
<1>1. UNCHANGED <<directory, openDirs, opening, surplus, dirHeld, dirsOpened>>
  BY DEF Directories!ReadDir
<1>2. PICK h \in dirHeld : /\ directory[h.slot] # NoDir
                           /\ dirent' = [dirent EXCEPT ![h.slot] = directory[h.slot]]
                           /\ dirRead' = [wanted |-> h.dir, got |-> directory[h.slot]]
  BY DEF Directories!ReadDir
<1>3. h.slot \in Directories!DirSlots /\ directory[h.slot] = h.dir /\ h.dir \in Nat
  BY DirsAre DEF Directories!DirsInv, Directories!HeldKnown
<1>4. /\ dirent' \in [Directories!DirSlots -> Nat \cup {NoDir}] /\ dirent'[h.slot] # NoDir
      /\ \A s \in Directories!DirSlots \ {h.slot} : dirent'[s] = dirent[s]
  BY <1>2, <1>3, DirsAre
<1>5. dirRead'.got = dirRead'.wanted
  BY <1>2, <1>3
<1>6. Directories!DirsTyped' /\ Directories!DirsNumbered' /\ Directories!OnePlace' /\ Directories!HeldKnown'
  BY <1>1, <1>4, DirsAre
  DEF Directories!DirsInv, Directories!DirsTyped, Directories!DirsNumbered, Directories!OnePlace,
      Directories!HeldKnown
<1>7. Directories!DirectoriesSound'
  BY <1>1, <1>4, <1>5 DEF Directories!DirsInv, Directories!DirectoriesSound
<1>8. QED
  BY <1>6, <1>7 DEF Directories!DirsInv

LEMMA CloseDirKeeps ==
  ASSUME Directories!DirsInv, NEW t \in Guests, Directories!CloseDir(t)
  PROVE  Directories!DirsInv'
<1>1. UNCHANGED <<dirent, opening, surplus, dirsOpened, dirRead>>
  BY DEF Directories!CloseDir
<1>2. PICK h \in dirHeld : /\ openDirs' = openDirs \ {directory[h.slot]}
                           /\ directory' = [directory EXCEPT ![h.slot] = NoDir]
                           /\ dirHeld' = dirHeld \ {h}
  BY DEF Directories!CloseDir
<1>3. h.slot \in Directories!DirSlots /\ directory[h.slot] = h.dir /\ h.dir \in Nat /\ h.dir # NoDir
  BY DirsAre DEF Directories!DirsInv, Directories!HeldKnown
<1>4. /\ directory' \in [Directories!DirSlots -> Nat \cup {NoDir}] /\ directory'[h.slot] = NoDir
      /\ \A s \in Directories!DirSlots \ {h.slot} : directory'[s] = directory[s]
  BY <1>2, <1>3, DirsAre
<1>5. Directories!DirsTyped'
  BY <1>1, <1>2, <1>4, DirsAre DEF Directories!DirsTyped
<1>6. Directories!DirsNumbered'
  BY <1>1, <1>4, DirsAre DEF Directories!DirsInv, Directories!DirsNumbered
<1>7. Directories!OnePlace'
  BY <1>1, <1>4 DEF Directories!DirsInv, Directories!OnePlace
<1>8. Directories!HeldKnown'
  <2> SUFFICES ASSUME NEW g \in dirHeld, g # h PROVE directory'[g.slot] = g.dir
    BY <1>2 DEF Directories!HeldKnown
  <2>1. directory[g.slot] = g.dir /\ g.slot \in Directories!DirSlots
    BY DirsAre DEF Directories!DirsInv, Directories!HeldKnown
  <2>2. g.slot # h.slot
    <3>1. g \in [slot : Directories!DirSlots, dir : Nat] /\ h \in [slot : Directories!DirSlots, dir : Nat]
      BY DirsAre
    <3>2. QED
      BY <1>3, <2>1, <3>1
  <2>3. QED
    BY <1>4, <2>1, <2>2
<1>9. \A d : d # NoDir => (Placed(d)' <=> Placed(d) /\ d # h.dir)
  BY <1>1, <1>3, <1>4
  DEF Placed, Directories!DirsInv, Directories!OnePlace, Directories!DirectoriesSound
<1>10. \A d : d \in openDirs' <=> d # NoDir /\ Placed(d)'
  BY <1>2, <1>3, <1>9, OpenKnown
<1>11. openDirs' = ({directory'[s] : s \in Directories!DirSlots} \cup {opening'[u] : u \in Guests}
                    \cup {surplus'[u] : u \in Guests}) \ {NoDir}
  BY <1>10 DEF Placed
<1>12. Directories!DirectoriesSound'
  BY <1>1, <1>4, <1>11 DEF Directories!DirsInv, Directories!DirectoriesSound
<1>13. QED
  BY <1>5, <1>6, <1>7, <1>8, <1>12 DEF Directories!DirsInv

LEMMA DirsInvariant == Directories!DirsSpec => []Directories!DirsInv
<1>1. Directories!DirsInv /\ [Directories!DirsNext]_(Directories!dirVars) => Directories!DirsInv'
  <2> SUFFICES ASSUME Directories!DirsInv, [Directories!DirsNext]_(Directories!dirVars)
               PROVE  Directories!DirsInv'
    OBVIOUS
  <2>1. CASE UNCHANGED Directories!dirVars
    BY <2>1 DEF Directories!dirVars, Directories!DirsInv, Directories!DirsTyped, Directories!DirsNumbered,
                Directories!OnePlace, Directories!HeldKnown, Directories!DirectoriesSound
  <2>2. CASE Directories!DirsNext
    BY <2>2, OpenDirKeeps, RegisterDirKeeps, CloseSurplusKeeps, ReadDirKeeps, CloseDirKeeps
    DEF Directories!DirsNext
  <2>3. QED
    BY <2>1, <2>2
<1>2. QED
  BY <1>1, InitDirs, PTL DEF Directories!DirsSpec

-----------------------------------------------------------------------------
(* The mutexes *)

LEMMA MutexesAssumed == Mutexes!MutexesAssumption
BY ComponentsAssumption

LEMMA MutexesBehave == Spec => Mutexes!MutexesSpec
<1>1. Init => Mutexes!MutexesInit
  BY DEF Init
<1>2. [Next]_vars => [Mutexes!MutexesNext]_(Mutexes!mutexVars)
  BY DEF Next, Alone, vars, mutexVars, Mutexes!mutexVars
<1>3. QED
  BY <1>1, <1>2, PTL DEF Spec, Mutexes!MutexesSpec

MutexEntry == [address : Addresses, mutex : HostMutexes]

LEMMA MutexesAre ==
  ASSUME Mutexes!MutexesInv
  PROVE  /\ mutexes \in Seq(MutexEntry) /\ Len(mutexes) \in Nat /\ DOMAIN mutexes = 1 .. Len(mutexes)
         /\ \A i \in DOMAIN mutexes : mutexes[i] \in MutexEntry
         /\ indexCache \in [0 .. CacheSize - 1 -> Nat]
         /\ recycled \in Seq(HostMutexes) /\ Len(recycled) \in Nat /\ DOMAIN recycled = 1 .. Len(recycled)
         /\ mallocs \subseteq HostMutexes
         /\ holder \in [HostMutexes -> Guests \cup {None}]
         /\ locking \in [Guests -> MutexEntry \cup {Mutexes!Idle}]
         /\ HostMutexes \subseteq Nat /\ 0 \notin HostMutexes /\ Addresses \subseteq Nat
         /\ CacheSize \in Nat \ {0} /\ None \notin Guests
<1>1. mutexes \in Seq(MutexEntry)
  BY DEF Mutexes!MutexesInv, Mutexes!MutexesTyped, MutexEntry
<1>2. locking \in [Guests -> MutexEntry \cup {Mutexes!Idle}]
  BY DEF Mutexes!MutexesInv, Mutexes!MutexesTyped, MutexEntry
<1>3. QED
  BY <1>1, <1>2, MutexesAssumed DEF Mutexes!MutexesInv, Mutexes!MutexesTyped, Mutexes!MutexesAssumption

\* What the invariant says without the count of the recycled ones.
TableApart ==
  /\ \A i, j \in DOMAIN mutexes : i # j =>
       mutexes[i].address # mutexes[j].address /\ mutexes[i].mutex # mutexes[j].mutex
  /\ \A i \in DOMAIN mutexes, j \in DOMAIN recycled : mutexes[i].mutex # recycled[j]
  /\ \A h : h \in mallocs <=> \/ \E i \in DOMAIN mutexes : mutexes[i].mutex = h
                              \/ \E i \in DOMAIN recycled : recycled[i] = h
  /\ \A i, j \in DOMAIN recycled : recycled[i] = recycled[j] => i = j
  /\ \A h \in HostMutexes : holder[h] # None => \E i \in DOMAIN mutexes : mutexes[i].mutex = h

LockingKnown ==
  \A t \in Guests : locking[t] # Mutexes!Idle => \E i \in DOMAIN mutexes : mutexes[i] = locking[t]

MutexesApart == TableApart /\ LockingKnown

LEMMA FreeCounted ==
  ASSUME recycled \in Seq(HostMutexes), Mutexes!RecycledApart
  PROVE  Mutexes!Cardinality(Mutexes!Free) = Len(recycled)
<1> DEFINE n == Len(recycled)
<1>1. n \in Nat /\ DOMAIN recycled = 1 .. n /\ recycled \in [1 .. n -> HostMutexes]
  OBVIOUS
<1>2. recycled \in Bijection(1 .. n, Mutexes!Free)
  <2>1. recycled \in [1 .. n -> Mutexes!Free]
    BY <1>1 DEF Mutexes!Free
  <2>2. \A i, j \in 1 .. n : recycled[i] = recycled[j] => i = j
    BY <1>1 DEF Mutexes!RecycledApart
  <2>3. \A h \in Mutexes!Free : \E i \in 1 .. n : recycled[i] = h
    BY <1>1 DEF Mutexes!Free
  <2>4. QED
    BY <2>1, <2>2, <2>3 DEF Bijection, Injection, Surjection, IsInjective
<1>3. ExistsBijection(1 .. n, Mutexes!Free)
  BY <1>2 DEF ExistsBijection
<1>4. Cardinality(Mutexes!Free) = n
  BY <1>1, <1>3, FS_CountingElements
<1>5. Mutexes!Cardinality(Mutexes!Free) = Cardinality(Mutexes!Free)
  BY DEF Mutexes!Cardinality, Cardinality
<1>6. QED
  BY <1>4, <1>5

LEMMA MutexesSplit == Mutexes!MutexesInv <=> Mutexes!MutexesTyped /\ MutexesApart
<1>1. Mutexes!MutexesInv => Mutexes!MutexesTyped /\ MutexesApart
  <2> SUFFICES ASSUME Mutexes!MutexesInv PROVE Mutexes!MutexesTyped /\ MutexesApart
    OBVIOUS
  <2>1. \A h : h \in mallocs <=> h \in Mutexes!InTable \/ h \in Mutexes!Free
    BY DEF Mutexes!MutexesInv, Mutexes!MutexesSound
  <2>2. \A i \in DOMAIN mutexes, j \in DOMAIN recycled : mutexes[i].mutex # recycled[j]
    BY DEF Mutexes!MutexesInv, Mutexes!MutexesSound, Mutexes!InTable, Mutexes!Free
  <2>3. QED
    BY <2>1, <2>2
    DEF Mutexes!MutexesInv, Mutexes!MutexesSound, Mutexes!RecycledApart, Mutexes!InTable, Mutexes!Free,
        MutexesApart, TableApart, LockingKnown
<1>2. Mutexes!MutexesTyped /\ MutexesApart => Mutexes!MutexesInv
  <2> SUFFICES ASSUME Mutexes!MutexesTyped, MutexesApart PROVE Mutexes!MutexesInv
    OBVIOUS
  <2>1. Mutexes!RecycledApart
    BY DEF MutexesApart, TableApart, Mutexes!RecycledApart
  <2>2. Mutexes!Cardinality(Mutexes!Free) = Len(recycled)
    BY <2>1, FreeCounted DEF Mutexes!MutexesTyped
  <2>3. \A h : h \in mallocs <=> h \in Mutexes!InTable \/ h \in Mutexes!Free
    BY DEF MutexesApart, TableApart, Mutexes!InTable, Mutexes!Free
  <2>4. Mutexes!InTable \cap Mutexes!Free = {} /\ Mutexes!InTable \cup Mutexes!Free = mallocs
    <3>1. Mutexes!InTable \cap Mutexes!Free = {}
      BY DEF MutexesApart, TableApart, Mutexes!InTable, Mutexes!Free
    <3>2. QED
      BY <2>3, <3>1
  <2>5. \A h \in HostMutexes : holder[h] # None => h \in Mutexes!InTable
    BY DEF MutexesApart, TableApart, Mutexes!InTable
  <2>6. QED
    BY <2>1, <2>2, <2>4, <2>5 DEF Mutexes!MutexesInv, Mutexes!MutexesSound, MutexesApart, TableApart, LockingKnown
<1>3. QED
  BY <1>1, <1>2

LEMMA InitMutexes == Mutexes!MutexesInit => Mutexes!MutexesInv
<1> SUFFICES ASSUME Mutexes!MutexesInit PROVE Mutexes!MutexesInv
  OBVIOUS
<1>1. Mutexes!MutexesTyped
  BY MutexesAssumed DEF Mutexes!MutexesInit, Mutexes!MutexesTyped, Mutexes!MutexesAssumption
<1>2. MutexesApart
  BY DEF Mutexes!MutexesInit, MutexesApart, TableApart, LockingKnown
<1>3. QED
  BY <1>1, <1>2, MutexesSplit

LEMMA FirstIs ==
  ASSUME Mutexes!MutexesInv, NEW a, Mutexes!Registered(a)
  PROVE  Mutexes!First(a) \in DOMAIN mutexes /\ mutexes[Mutexes!First(a)].address = a
<1>1. Mutexes!Positions(a) \in SUBSET Nat /\ Mutexes!Positions(a) # {}
  BY MutexesAre DEF Mutexes!Positions, Mutexes!Registered
<1>2. \E i \in Mutexes!Positions(a) : \A j \in Mutexes!Positions(a) : i <= j
  BY <1>1, LeastExists
<1>3. Mutexes!First(a) \in Mutexes!Positions(a)
  BY <1>2 DEF Mutexes!First
<1>4. QED
  BY <1>3 DEF Mutexes!Positions

LEMMA HitIs ==
  ASSUME NEW a, Mutexes!Hit(a)
  PROVE  Mutexes!Cached(a) \in DOMAIN mutexes /\ mutexes[Mutexes!Cached(a)].address = a
BY DEF Mutexes!Hit

\* A new host mutex is the last one recycled, or one that malloc has not given out.
LEMMA CreatedIs ==
  ASSUME Mutexes!MutexesInv, Mutexes!CanCreate
  PROVE  /\ Mutexes!Created \in HostMutexes
         /\ \/ recycled # <<>> /\ Mutexes!Created = recycled[1]
            \/ recycled = <<>> /\ Mutexes!Created \notin mallocs
<1>1. CASE recycled # <<>>
  <2>1. Mutexes!Created = recycled[1] /\ recycled[1] \in HostMutexes
    BY <1>1, MutexesAre DEF Mutexes!Created
  <2>2. QED
    BY <1>1, <2>1
<1>2. CASE recycled = <<>>
  <2>1. HostMutexes \ mallocs \in SUBSET Nat /\ HostMutexes \ mallocs # {}
    BY <1>2, MutexesAre DEF Mutexes!CanCreate
  <2>2. \E h \in HostMutexes \ mallocs : \A g \in HostMutexes \ mallocs : h <= g
    BY <2>1, LeastExists
  <2>3. Mutexes!Created \in HostMutexes \ mallocs
    BY <1>2, <2>2 DEF Mutexes!Created
  <2>4. QED
    BY <1>2, <2>3
<1>3. QED
  BY <1>1, <1>2

LEMMA CacheKeeps ==
  ASSUME Mutexes!MutexesInv, NEW a \in Addresses, NEW i \in Nat,
         indexCache' = [indexCache EXCEPT ![a % CacheSize] = i]
  PROVE  indexCache' \in [0 .. CacheSize - 1 -> Nat]
BY MutexesAre

\* Registering an address appends an entry with a host mutex that is nobody's.
LEMMA Registering ==
  ASSUME Mutexes!MutexesInv, NEW a \in Addresses, ~ Mutexes!Registered(a), Mutexes!CanCreate,
         Mutexes!Registers(a), UNCHANGED holder
  PROVE  /\ mutexes' \in Seq(MutexEntry) /\ indexCache' \in [0 .. CacheSize - 1 -> Nat]
         /\ recycled' \in Seq(HostMutexes) /\ mallocs' \subseteq HostMutexes
         /\ TableApart'
         /\ \A i \in DOMAIN mutexes : i \in DOMAIN mutexes' /\ mutexes'[i] = mutexes[i]
         /\ \E i \in DOMAIN mutexes' : mutexes'[i] = [address |-> a, mutex |-> Mutexes!Created]
         /\ [address |-> a, mutex |-> Mutexes!Created] \in MutexEntry
<1> DEFINE n == Len(mutexes)
           h == Mutexes!Created
           e == [address |-> a, mutex |-> h]
<1>1. /\ h \in HostMutexes
      /\ \/ recycled # <<>> /\ h = recycled[1]
         \/ recycled = <<>> /\ h \notin mallocs
  BY CreatedIs
<1> HIDE DEF h
<1>2. e \in MutexEntry /\ e.address = a /\ e.mutex = h
  BY <1>1 DEF MutexEntry
<1>3. /\ mutexes' = Append(mutexes, e)
      /\ indexCache' = [indexCache EXCEPT ![a % CacheSize] = n + 1]
      /\ mallocs' = mallocs \cup {h}
      /\ recycled' = IF recycled # <<>> THEN Tail(recycled) ELSE recycled
  BY DEF Mutexes!Registers, h
<1>4. n \in Nat /\ DOMAIN mutexes = 1 .. n /\ mutexes \in Seq(MutexEntry)
  BY MutexesAre
<1>5. TableApart
  BY MutexesSplit DEF MutexesApart
<1>6. \A i \in 1 .. n : mutexes[i].address # a
  BY <1>4 DEF Mutexes!Registered, Mutexes!Positions
<1>7. \A i \in 1 .. n : mutexes[i].mutex # h
  <2>1. CASE recycled # <<>>
    <3>1. 1 \in DOMAIN recycled
      BY <2>1, MutexesAre
    <3>2. QED
      BY <1>1, <1>4, <1>5, <2>1, <3>1 DEF TableApart
  <2>2. CASE recycled = <<>>
    BY <1>1, <1>4, <1>5, <2>2 DEF TableApart
  <2>3. QED
    BY <2>1, <2>2
<1> HIDE DEF e
<1>8. /\ mutexes' \in Seq(MutexEntry) /\ DOMAIN mutexes' = 1 .. n + 1
      /\ mutexes'[n + 1] = e /\ \A i \in 1 .. n : mutexes'[i] = mutexes[i]
  BY <1>2, <1>3, <1>4
<1>9. indexCache' \in [0 .. CacheSize - 1 -> Nat]
  <2>1. n + 1 \in Nat
    BY <1>4
  <2> HIDE DEF n
  <2>2. QED
    BY <1>3, <2>1, CacheKeeps
<1>10. /\ recycled' \in Seq(HostMutexes)
       /\ \A i \in DOMAIN recycled' :
            /\ IF recycled # <<>> THEN i + 1 \in DOMAIN recycled /\ recycled'[i] = recycled[i + 1]
               ELSE FALSE
            /\ i \in Nat /\ recycled'[i] # h
       /\ \A i \in DOMAIN recycled : recycled[i] = h \/ \E j \in DOMAIN recycled' : recycled'[j] = recycled[i]
  <2>1. CASE recycled = <<>>
    BY <1>3, <2>1, MutexesAre
  <2>2. CASE recycled # <<>>
    <3> DEFINE m == Len(recycled)
    <3>1. m \in Nat \ {0} /\ DOMAIN recycled = 1 .. m /\ recycled \in Seq(HostMutexes)
      BY <2>2, MutexesAre
    <3>2. recycled' = Tail(recycled) /\ h = recycled[1]
      BY <1>1, <1>3, <2>2
    <3>3. /\ Tail(recycled) \in Seq(HostMutexes) /\ DOMAIN Tail(recycled) = 1 .. m - 1
          /\ \A i \in 1 .. m - 1 : Tail(recycled)[i] = recycled[i + 1]
      BY <2>2, <3>1
    <3> HIDE DEF m
    <3>4. \A i \in 1 .. m - 1 : i \in Nat /\ i + 1 \in 1 .. m /\ i + 1 # 1
      BY <3>1
    <3>5. \A i \in 1 .. m - 1 : recycled[i + 1] # recycled[1]
      BY <1>5, <3>1, <3>4 DEF TableApart
    <3>6. \A i \in 1 .. m : i = 1 \/ (i - 1 \in 1 .. m - 1 /\ (i - 1) + 1 = i)
      BY <3>1
    <3>7. \A i \in 1 .. m : recycled[i] = h \/ \E j \in 1 .. m - 1 : recycled'[j] = recycled[i]
      BY <3>2, <3>3, <3>6
    <3>8. recycled' \in Seq(HostMutexes) /\ DOMAIN recycled' = 1 .. m - 1
      BY <3>2, <3>3
    <3>9. \A i \in 1 .. m - 1 :
            /\ i + 1 \in DOMAIN recycled /\ recycled'[i] = recycled[i + 1]
            /\ i \in Nat /\ recycled'[i] # h
      BY <3>1, <3>2, <3>3, <3>4, <3>5
    <3>10. \A i \in DOMAIN recycled : recycled[i] = h \/ \E j \in DOMAIN recycled' : recycled'[j] = recycled[i]
      BY <3>1, <3>7, <3>8
    <3>11. QED
      BY <2>2, <3>8, <3>9, <3>10
  <2>3. QED
    BY <2>1, <2>2
<1>11. \A i, j \in DOMAIN mutexes' : i # j =>
         mutexes'[i].address # mutexes'[j].address /\ mutexes'[i].mutex # mutexes'[j].mutex
  <2> SUFFICES ASSUME NEW i \in 1 .. n + 1, NEW j \in 1 .. n + 1, i # j
               PROVE  mutexes'[i].address # mutexes'[j].address /\ mutexes'[i].mutex # mutexes'[j].mutex
    BY <1>8
  <2>1. CASE i \in 1 .. n /\ j \in 1 .. n
    BY <1>4, <1>5, <1>8, <2>1 DEF TableApart
  <2>2. CASE i = n + 1
    <3>1. j \in 1 .. n
      BY <1>4, <2>2
    <3>2. QED
      BY <1>2, <1>6, <1>7, <1>8, <2>2, <3>1
  <2>3. CASE j = n + 1
    <3>1. i \in 1 .. n
      BY <1>4, <2>3
    <3>2. QED
      BY <1>2, <1>6, <1>7, <1>8, <2>3, <3>1
  <2>4. QED
    BY <1>4, <2>1, <2>2, <2>3
<1>12. \A i \in DOMAIN mutexes', j \in DOMAIN recycled' : mutexes'[i].mutex # recycled'[j]
  <2> SUFFICES ASSUME NEW i \in 1 .. n + 1, NEW j \in DOMAIN recycled' PROVE mutexes'[i].mutex # recycled'[j]
    BY <1>8
  <2>1. CASE i = n + 1
    BY <1>2, <1>8, <1>10, <2>1
  <2>2. CASE i \in 1 .. n
    <3>1. j + 1 \in DOMAIN recycled /\ recycled'[j] = recycled[j + 1] /\ mutexes'[i] = mutexes[i]
      BY <1>8, <1>10, <2>2
    <3>2. \A k \in DOMAIN mutexes, l \in DOMAIN recycled : mutexes[k].mutex # recycled[l]
      BY <1>5 DEF TableApart
    <3>3. QED
      BY <1>4, <2>2, <3>1, <3>2
  <2>3. QED
    BY <1>4, <2>1, <2>2
<1>13. \A g : g \in mallocs' <=> \/ \E i \in DOMAIN mutexes' : mutexes'[i].mutex = g
                                \/ \E i \in DOMAIN recycled' : recycled'[i] = g
  <2> SUFFICES ASSUME NEW g
               PROVE  g \in mallocs' <=> \/ \E i \in DOMAIN mutexes' : mutexes'[i].mutex = g
                                        \/ \E i \in DOMAIN recycled' : recycled'[i] = g
    OBVIOUS
  <2>1. g \in mallocs <=> \/ \E i \in 1 .. n : mutexes[i].mutex = g
                         \/ \E i \in DOMAIN recycled : recycled[i] = g
    BY <1>4, <1>5 DEF TableApart
  <2>2. (\E i \in DOMAIN mutexes' : mutexes'[i].mutex = g) <=> g = h \/ \E i \in 1 .. n : mutexes[i].mutex = g
    <3>1. (\E i \in 1 .. n + 1 : mutexes'[i].mutex = g)
            <=> mutexes'[n + 1].mutex = g \/ \E i \in 1 .. n : mutexes'[i].mutex = g
      BY <1>4
    <3>2. QED
      BY <1>2, <1>8, <3>1
  <2>3. g # h => ((\E i \in DOMAIN recycled' : recycled'[i] = g) <=> \E i \in DOMAIN recycled : recycled[i] = g)
    BY <1>10
  <2>4. QED
    BY <1>3, <2>1, <2>2, <2>3
<1>14. \A i, j \in DOMAIN recycled' : recycled'[i] = recycled'[j] => i = j
  <2> SUFFICES ASSUME NEW i \in DOMAIN recycled', NEW j \in DOMAIN recycled', recycled'[i] = recycled'[j]
               PROVE  i = j
    OBVIOUS
  <2>1. i \in Nat /\ j \in Nat /\ i + 1 \in DOMAIN recycled /\ j + 1 \in DOMAIN recycled
        /\ recycled[i + 1] = recycled[j + 1]
    BY <1>10
  <2>2. i + 1 = j + 1
    <3>1. \A k, l \in DOMAIN recycled : recycled[k] = recycled[l] => k = l
      BY <1>5 DEF TableApart
    <3>2. QED
      BY <2>1, <3>1
  <2>3. QED
    BY <2>1, <2>2
<1>15. \A g \in HostMutexes : holder'[g] # None => \E i \in DOMAIN mutexes' : mutexes'[i].mutex = g
  <2>1. \A g \in HostMutexes : holder[g] # None => \E i \in 1 .. n : mutexes[i].mutex = g
    BY <1>4, <1>5 DEF TableApart
  <2>2. \A i \in 1 .. n : i \in DOMAIN mutexes' /\ mutexes'[i] = mutexes[i]
    BY <1>4, <1>8
  <2>3. QED
    BY <2>1, <2>2
<1>16. TableApart'
  BY <1>11, <1>12, <1>13, <1>14, <1>15 DEF TableApart
<1>17. /\ \A i \in DOMAIN mutexes : i \in DOMAIN mutexes' /\ mutexes'[i] = mutexes[i]
       /\ n + 1 \in DOMAIN mutexes'
  BY <1>4, <1>8
<1>18. mallocs' \subseteq HostMutexes
  BY <1>1, <1>3, MutexesAre
<1>19. QED
  BY <1>2, <1>8, <1>9, <1>10, <1>16, <1>17, <1>18 DEF e, h

\* What each action keeps: the table as TableApart says, and what is looked up in it.
LEMMA MutexesMade ==
  ASSUME mutexes' \in Seq(MutexEntry), indexCache' \in [0 .. CacheSize - 1 -> Nat],
         recycled' \in Seq(HostMutexes), mallocs' \subseteq HostMutexes,
         holder' \in [HostMutexes -> Guests \cup {None}],
         locking' \in [Guests -> MutexEntry \cup {Mutexes!Idle}],
         TableApart', LockingKnown'
  PROVE  Mutexes!MutexesInv'
<1>1. Mutexes!MutexesTyped'
  BY DEF Mutexes!MutexesTyped, MutexEntry, Mutexes!Idle
<1>2. (Mutexes!MutexesInv <=> Mutexes!MutexesTyped /\ MutexesApart)'
  BY MutexesSplit, PTL
<1>3. QED
  BY <1>1, <1>2 DEF MutexesApart

LEMMA LookupKeeps ==
  ASSUME Mutexes!MutexesInv, NEW t \in Guests, NEW a \in Addresses, Mutexes!Lookup(t, a)
  PROVE  Mutexes!MutexesInv'
<1> DEFINE Found(i) == /\ i \in DOMAIN mutexes /\ mutexes[i].address = a
                       /\ locking' = [locking EXCEPT ![t] = [address |-> a, mutex |-> mutexes[i].mutex]]
                       /\ indexCache' \in [0 .. CacheSize - 1 -> Nat]
                       /\ UNCHANGED <<mutexes, recycled, mallocs>>
<1>1. UNCHANGED holder /\ TableApart /\ LockingKnown
  BY MutexesSplit DEF Mutexes!Lookup, MutexesApart
<1>2. \/ \E i \in DOMAIN mutexes : Found(i)
      \/ /\ ~ Mutexes!Registered(a) /\ Mutexes!CanCreate /\ Mutexes!Registers(a)
         /\ locking' = [locking EXCEPT ![t] = [address |-> a, mutex |-> Mutexes!Created]]
  <2>1. CASE Mutexes!Hit(a)
    <3>1. /\ locking' = [locking EXCEPT ![t] = [address |-> a, mutex |-> mutexes[Mutexes!Cached(a)].mutex]]
          /\ UNCHANGED <<mutexes, indexCache, recycled, mallocs>>
      BY <2>1 DEF Mutexes!Lookup
    <3>2. indexCache' \in [0 .. CacheSize - 1 -> Nat]
      BY <3>1, MutexesAre
    <3>3. Found(Mutexes!Cached(a))
      BY <2>1, <3>1, <3>2, HitIs
    <3>4. QED
      BY <2>1, <3>3, HitIs
  <2>2. CASE ~ Mutexes!Hit(a) /\ Mutexes!Registered(a)
    <3>1. /\ locking' = [locking EXCEPT ![t] = [address |-> a, mutex |-> mutexes[Mutexes!First(a)].mutex]]
          /\ indexCache' = [indexCache EXCEPT ![a % CacheSize] = Mutexes!First(a)]
          /\ UNCHANGED <<mutexes, recycled, mallocs>>
      BY <2>2 DEF Mutexes!Lookup
    <3>2. Mutexes!First(a) \in DOMAIN mutexes /\ mutexes[Mutexes!First(a)].address = a
      BY <2>2, FirstIs
    <3>3. Mutexes!First(a) \in Nat
      BY <3>2, MutexesAre
    <3>4. indexCache' \in [0 .. CacheSize - 1 -> Nat]
      BY <3>1, <3>3, CacheKeeps
    <3>5. Found(Mutexes!First(a))
      BY <3>1, <3>2, <3>4
    <3>6. QED
      BY <3>2, <3>5
  <2>3. CASE ~ Mutexes!Hit(a) /\ ~ Mutexes!Registered(a)
    BY <2>3 DEF Mutexes!Lookup
  <2>4. QED
    BY <2>1, <2>2, <2>3
<1>3. ASSUME NEW i \in DOMAIN mutexes, Found(i)
      PROVE  Mutexes!MutexesInv'
  <2>1. mutexes[i] \in MutexEntry /\ [address |-> a, mutex |-> mutexes[i].mutex] = mutexes[i]
    BY <1>3, MutexesAre DEF MutexEntry
  <2>2. locking' = [locking EXCEPT ![t] = mutexes[i]]
    BY <1>3, <2>1
  <2>3. locking' \in [Guests -> MutexEntry \cup {Mutexes!Idle}]
    BY <2>1, <2>2, MutexesAre
  <2>4. TableApart'
    BY <1>1, <1>3 DEF TableApart
  <2>5. LockingKnown'
    <3>1. \A u \in Guests : locking'[u] = locking[u] \/ locking'[u] = mutexes[i]
      BY <2>2, MutexesAre
    <3>2. QED
      BY <1>1, <1>3, <3>1 DEF LockingKnown, Mutexes!Idle
  <2>6. /\ mutexes' \in Seq(MutexEntry) /\ recycled' \in Seq(HostMutexes) /\ mallocs' \subseteq HostMutexes
        /\ holder' \in [HostMutexes -> Guests \cup {None}]
    BY <1>1, <1>3, MutexesAre
  <2>7. QED
    BY <1>3, <2>3, <2>4, <2>5, <2>6, MutexesMade
<1>4. CASE /\ ~ Mutexes!Registered(a) /\ Mutexes!CanCreate /\ Mutexes!Registers(a)
           /\ locking' = [locking EXCEPT ![t] = [address |-> a, mutex |-> Mutexes!Created]]
  <2> DEFINE e == [address |-> a, mutex |-> Mutexes!Created]
  <2>1. /\ mutexes' \in Seq(MutexEntry) /\ indexCache' \in [0 .. CacheSize - 1 -> Nat]
        /\ recycled' \in Seq(HostMutexes) /\ mallocs' \subseteq HostMutexes
        /\ TableApart'
        /\ \A i \in DOMAIN mutexes : i \in DOMAIN mutexes' /\ mutexes'[i] = mutexes[i]
        /\ \E i \in DOMAIN mutexes' : mutexes'[i] = e
        /\ e \in MutexEntry
    BY <1>1, <1>4, Registering
  <2>2. locking' = [locking EXCEPT ![t] = e]
    BY <1>4
  <2> HIDE DEF e
  <2>3. locking' \in [Guests -> MutexEntry \cup {Mutexes!Idle}]
    BY <2>1, <2>2, MutexesAre
  <2>4. LockingKnown'
    <3>1. \A u \in Guests : locking'[u] = locking[u] \/ locking'[u] = e
      BY <2>2, MutexesAre
    <3>2. \A u \in Guests : locking[u] # Mutexes!Idle => \E i \in DOMAIN mutexes' : mutexes'[i] = locking[u]
      BY <1>1, <2>1 DEF LockingKnown
    <3>3. QED
      BY <2>1, <3>1, <3>2 DEF LockingKnown, Mutexes!Idle
  <2>5. holder' \in [HostMutexes -> Guests \cup {None}]
    BY <1>1, MutexesAre
  <2>6. QED
    BY <2>1, <2>3, <2>4, <2>5, MutexesMade
<1>5. QED
  BY <1>2, <1>3, <1>4

\* A thread locks a host mutex of the table.
LEMMA LocksKeep ==
  ASSUME Mutexes!MutexesInv, NEW t \in Guests, Mutexes!Locks(t) \/ Mutexes!TryLockFails(t)
  PROVE  Mutexes!MutexesInv'
<1>1. TableApart /\ LockingKnown
  BY MutexesSplit DEF MutexesApart
<1>2. /\ locking[t] # Mutexes!Idle /\ locking' = [locking EXCEPT ![t] = Mutexes!Idle]
      /\ UNCHANGED <<mutexes, indexCache, recycled, mallocs>>
      /\ holder' = holder \/ holder' = [holder EXCEPT ![locking[t].mutex] = t]
  BY DEF Mutexes!Locks, Mutexes!TryLockFails
<1>3. locking' \in [Guests -> MutexEntry \cup {Mutexes!Idle}]
  BY <1>2, MutexesAre
<1>4. LockingKnown'
  <2>1. \A u \in Guests : locking'[u] = locking[u] \/ locking'[u] = Mutexes!Idle
    BY <1>2, MutexesAre
  <2>2. QED
    BY <1>1, <1>2, <2>1 DEF LockingKnown, Mutexes!Idle
<1>5. \E i \in DOMAIN mutexes : mutexes[i].mutex = locking[t].mutex
  BY <1>1, <1>2 DEF LockingKnown
<1>6. holder' \in [HostMutexes -> Guests \cup {None}]
  BY <1>2, MutexesAre
<1>7. \A h \in HostMutexes : holder'[h] # None => \E i \in DOMAIN mutexes : mutexes[i].mutex = h
  <2>1. \A h \in HostMutexes : holder'[h] = holder[h] \/ h = locking[t].mutex
    BY <1>2, MutexesAre
  <2>2. QED
    BY <1>1, <1>5, <2>1 DEF TableApart
<1>8. TableApart'
  BY <1>1, <1>2, <1>7 DEF TableApart
<1>9. QED
  BY <1>2, <1>3, <1>4, <1>6, <1>8, MutexesAre, MutexesMade

LEMMA UnlocksKeeps ==
  ASSUME Mutexes!MutexesInv, NEW t \in Guests, NEW a \in Addresses, Mutexes!Unlocks(t, a)
  PROVE  Mutexes!MutexesInv'
<1>1. TableApart /\ LockingKnown
  BY MutexesSplit DEF MutexesApart
<1>2. /\ Mutexes!Registered(a) /\ holder' = [holder EXCEPT ![Mutexes!MutexFor(a)] = None]
      /\ UNCHANGED <<mutexes, recycled, mallocs, locking>>
      /\ indexCache' = IF Mutexes!Hit(a) THEN indexCache
                       ELSE [indexCache EXCEPT ![a % CacheSize] = Mutexes!First(a)]
  BY DEF Mutexes!Unlocks
<1>3. indexCache' \in [0 .. CacheSize - 1 -> Nat]
  <2>1. Mutexes!First(a) \in Nat
    BY <1>2, FirstIs, MutexesAre
  <2>2. CASE Mutexes!Hit(a)
    BY <1>2, <2>2, MutexesAre
  <2>3. CASE ~ Mutexes!Hit(a)
    BY <1>2, <2>1, <2>3, CacheKeeps
  <2>4. QED
    BY <2>2, <2>3
<1>4. holder' \in [HostMutexes -> Guests \cup {None}]
  BY <1>2, MutexesAre
<1>5. \A h \in HostMutexes : holder'[h] # None => holder[h] # None
  BY <1>2, MutexesAre
<1>6. TableApart'
  BY <1>1, <1>2, <1>5 DEF TableApart
<1>7. LockingKnown'
  BY <1>1, <1>2 DEF LockingKnown, Mutexes!Idle
<1>8. QED
  BY <1>2, <1>3, <1>4, <1>6, <1>7, MutexesAre, MutexesMade

LEMMA InitializeKeeps ==
  ASSUME Mutexes!MutexesInv, NEW t \in Guests, NEW a \in Addresses, Mutexes!Initialize(t, a)
  PROVE  Mutexes!MutexesInv'
<1>1. TableApart /\ LockingKnown
  BY MutexesSplit DEF MutexesApart
<1>2. UNCHANGED <<holder, locking>>
  BY DEF Mutexes!Initialize
<1>3. CASE Mutexes!Registered(a)
  <2>1. UNCHANGED <<mutexes, indexCache, recycled, mallocs>>
    BY <1>3 DEF Mutexes!Initialize
  <2>2. TableApart' /\ LockingKnown'
    BY <1>1, <1>2, <2>1 DEF TableApart, LockingKnown, Mutexes!Idle
  <2>3. QED
    BY <1>2, <2>1, <2>2, MutexesAre, MutexesMade
<1>4. CASE ~ Mutexes!Registered(a)
  <2>1. Mutexes!CanCreate /\ Mutexes!Registers(a)
    BY <1>4 DEF Mutexes!Initialize
  <2>2. /\ mutexes' \in Seq(MutexEntry) /\ indexCache' \in [0 .. CacheSize - 1 -> Nat]
        /\ recycled' \in Seq(HostMutexes) /\ mallocs' \subseteq HostMutexes
        /\ TableApart'
        /\ \A i \in DOMAIN mutexes : i \in DOMAIN mutexes' /\ mutexes'[i] = mutexes[i]
    BY <1>2, <1>4, <2>1, Registering
  <2>3. LockingKnown'
    BY <1>1, <1>2, <2>2 DEF LockingKnown, Mutexes!Idle
  <2>4. QED
    BY <1>2, <2>2, <2>3, MutexesAre, MutexesMade
<1>5. QED
  BY <1>3, <1>4

\* A destroy moves the last entry into the gap and recycles a mutex nobody holds.
LEMMA DestroyKeeps ==
  ASSUME Mutexes!MutexesInv, NEW t \in Guests, NEW a \in Addresses, Mutexes!Destroy(t, a)
  PROVE  Mutexes!MutexesInv'
<1> DEFINE n == Len(mutexes)
           k == Mutexes!First(a)
           h == mutexes[k].mutex
           m == Len(recycled)
           From(i) == IF i = k THEN n ELSE i
<1>1. TableApart /\ LockingKnown
  BY MutexesSplit DEF MutexesApart
<1>2. /\ Mutexes!Undisturbed(a) /\ Mutexes!Registered(a) /\ holder[h] = None
      /\ recycled' = <<h>> \o recycled
      /\ mutexes' = SubSeq([mutexes EXCEPT ![k] = mutexes[n]], 1, n - 1)
      /\ UNCHANGED <<indexCache, mallocs, holder, locking>>
  BY DEF Mutexes!Destroy, Mutexes!LastMovedTo
<1>3. k \in 1 .. n /\ mutexes[k].address = a
  BY <1>2, FirstIs, MutexesAre
<1>4. /\ n \in Nat /\ DOMAIN mutexes = 1 .. n /\ mutexes \in Seq(MutexEntry)
      /\ m \in Nat /\ DOMAIN recycled = 1 .. m /\ recycled \in Seq(HostMutexes)
  BY MutexesAre
<1> HIDE DEF n, k, m
<1>5. h \in HostMutexes /\ mutexes[n] \in MutexEntry
  <2>1. \A i \in 1 .. n : mutexes[i] \in MutexEntry
    BY <1>4, MutexesAre
  <2>2. k \in 1 .. n /\ n \in 1 .. n
    BY <1>3, <1>4
  <2>3. QED
    BY <2>1, <2>2 DEF MutexEntry
<1> HIDE DEF h
<1>6. /\ mutexes' \in Seq(MutexEntry) /\ DOMAIN mutexes' = 1 .. n - 1
      /\ \A i \in 1 .. n - 1 : From(i) \in 1 .. n /\ From(i) # k /\ mutexes'[i] = mutexes[From(i)]
  <2> DEFINE moved == [mutexes EXCEPT ![k] = mutexes[n]]
  <2>1. moved \in Seq(MutexEntry) /\ Len(moved) = n /\ \A i \in 1 .. n : moved[i] = mutexes[From(i)]
    BY <1>3, <1>4, <1>5 DEF n
  <2> HIDE DEF moved
  <2>2. /\ SubSeq(moved, 1, n - 1) \in Seq(MutexEntry)
        /\ Len(SubSeq(moved, 1, n - 1)) = n - 1
        /\ \A i \in 1 .. n - 1 : SubSeq(moved, 1, n - 1)[i] = moved[i]
    BY <1>3, <1>4, <2>1
  <2>3. mutexes' = SubSeq(moved, 1, n - 1)
    BY <1>2 DEF moved
  <2>4. \A i \in 1 .. n - 1 : From(i) \in 1 .. n /\ From(i) # k /\ i \in 1 .. n
    BY <1>3, <1>4
  <2>5. DOMAIN mutexes' = 1 .. n - 1
    BY <2>2, <2>3
  <2> HIDE DEF From
  <2>6. QED
    BY <2>1, <2>2, <2>3, <2>4, <2>5
<1>7. \A i, j \in 1 .. n - 1 : i # j => From(i) # From(j)
  BY <1>3, <1>4
<1>8. \A i \in 1 .. n : i = k \/ \E j \in 1 .. n - 1 : From(j) = i
  <2>1. ASSUME NEW i \in 1 .. n, i # k PROVE \E j \in 1 .. n - 1 : From(j) = i
    <3>1. CASE i = n
      <4>1. k \in 1 .. n - 1 /\ From(k) = i
        BY <1>3, <1>4, <2>1, <3>1
      <4>2. QED
        BY <4>1
    <3>2. CASE i # n
      <4>1. i \in 1 .. n - 1 /\ From(i) = i
        BY <1>3, <1>4, <2>1, <3>2
      <4>2. QED
        BY <4>1
    <3>3. QED
      BY <3>1, <3>2
  <2>2. QED
    BY <2>1
<1> HIDE DEF From
<1>9. \A i \in 1 .. n : i = k \/ \E j \in 1 .. n - 1 : mutexes'[j] = mutexes[i]
  BY <1>6, <1>8
<1>10. /\ recycled' \in Seq(HostMutexes) /\ DOMAIN recycled' = 1 .. m + 1
       /\ recycled'[1] = h
       /\ \A i \in 1 .. m : i + 1 \in 1 .. m + 1 /\ recycled'[i + 1] = recycled[i]
       /\ \A i \in 1 .. m + 1 : i = 1 \/ (i - 1 \in 1 .. m /\ recycled'[i] = recycled[i - 1])
  <2>1. recycled' = <<h>> \o recycled /\ Len(recycled) = m
    BY <1>2 DEF m
  <2>2. <<h>> \in Seq(HostMutexes)
    BY <1>5
  <2>3. recycled' \in Seq(HostMutexes) /\ Len(recycled') = m + 1
    BY <1>4, <2>1, <2>2
  <2>4. \A i \in 1 .. m + 1 : recycled'[i] = IF i = 1 THEN h ELSE recycled[i - 1]
    BY <1>4, <2>1, <2>2
  <2>5. DOMAIN recycled' = 1 .. m + 1 /\ 1 \in 1 .. m + 1
    BY <1>4, <2>3
  <2>6. \A i \in 1 .. m : i + 1 \in 1 .. m + 1 /\ i + 1 # 1 /\ (i + 1) - 1 = i
    BY <1>4
  <2>7. \A i \in 1 .. m + 1 : i = 1 \/ i - 1 \in 1 .. m
    BY <1>4
  <2>8. QED
    BY <2>3, <2>4, <2>5, <2>6, <2>7
<1>11. \A i \in 1 .. m : recycled[i] # h
  BY <1>1, <1>3, <1>4 DEF TableApart, h
<1>12. \A i, j \in DOMAIN mutexes' : i # j =>
         mutexes'[i].address # mutexes'[j].address /\ mutexes'[i].mutex # mutexes'[j].mutex
  <2>1. \A i, j \in 1 .. n : i # j => mutexes[i].address # mutexes[j].address /\ mutexes[i].mutex # mutexes[j].mutex
    BY <1>1, <1>4 DEF TableApart
  <2>2. QED
    BY <1>6, <1>7, <2>1
<1>13. \A i \in DOMAIN mutexes', j \in DOMAIN recycled' : mutexes'[i].mutex # recycled'[j]
  <2> SUFFICES ASSUME NEW i \in 1 .. n - 1, NEW j \in 1 .. m + 1 PROVE mutexes'[i].mutex # recycled'[j]
    BY <1>6, <1>10
  <2>1. From(i) \in 1 .. n /\ From(i) # k /\ mutexes'[i] = mutexes[From(i)]
    BY <1>6
  <2>2. CASE j = 1
    <3>1. \A x, y \in 1 .. n : x # y => mutexes[x].mutex # mutexes[y].mutex
      BY <1>1, <1>4 DEF TableApart
    <3>2. mutexes[From(i)].mutex # h
      BY <1>3, <2>1, <3>1 DEF h
    <3>3. QED
      BY <1>10, <2>1, <2>2, <3>2
  <2>3. CASE j # 1
    <3>1. j - 1 \in 1 .. m /\ recycled'[j] = recycled[j - 1]
      BY <1>10, <2>3
    <3>2. \A x \in 1 .. n, y \in 1 .. m : mutexes[x].mutex # recycled[y]
      BY <1>1, <1>4 DEF TableApart
    <3>3. QED
      BY <2>1, <3>1, <3>2
  <2>4. QED
    BY <2>2, <2>3
<1>14. \A g : g \in mallocs' <=> \/ \E i \in DOMAIN mutexes' : mutexes'[i].mutex = g
                                 \/ \E i \in DOMAIN recycled' : recycled'[i] = g
  <2> SUFFICES ASSUME NEW g
               PROVE  g \in mallocs' <=> \/ \E i \in DOMAIN mutexes' : mutexes'[i].mutex = g
                                         \/ \E i \in DOMAIN recycled' : recycled'[i] = g
    OBVIOUS
  <2>1. g \in mallocs <=> \/ \E i \in 1 .. n : mutexes[i].mutex = g
                          \/ \E i \in 1 .. m : recycled[i] = g
    BY <1>1, <1>4 DEF TableApart
  <2>2. (\E i \in 1 .. n : mutexes[i].mutex = g) <=> g = h \/ \E i \in DOMAIN mutexes' : mutexes'[i].mutex = g
    BY <1>3, <1>6, <1>9 DEF h
  <2>3. (\E i \in DOMAIN recycled' : recycled'[i] = g) <=> g = h \/ \E i \in 1 .. m : recycled[i] = g
    <3>1. 1 \in 1 .. m + 1
      BY <1>4
    <3>2. QED
      BY <1>10, <3>1
  <2>4. QED
    BY <1>2, <2>1, <2>2, <2>3
<1>15. \A i, j \in DOMAIN recycled' : recycled'[i] = recycled'[j] => i = j
  <2> SUFFICES ASSUME NEW i \in 1 .. m + 1, NEW j \in 1 .. m + 1, recycled'[i] = recycled'[j] PROVE i = j
    BY <1>10
  <2>1. CASE i = 1 \/ j = 1
    BY <1>10, <1>11, <2>1
  <2>2. CASE i # 1 /\ j # 1
    <3>1. i - 1 \in 1 .. m /\ j - 1 \in 1 .. m /\ recycled[i - 1] = recycled[j - 1]
      BY <1>10, <2>2
    <3>2. i - 1 = j - 1
      BY <1>1, <1>4, <3>1 DEF TableApart
    <3>3. QED
      BY <1>4, <3>2
  <2>3. QED
    BY <2>1, <2>2
<1>16. \A g \in HostMutexes : holder'[g] # None => \E i \in DOMAIN mutexes' : mutexes'[i].mutex = g
  <2> SUFFICES ASSUME NEW g \in HostMutexes, holder[g] # None
               PROVE  \E i \in DOMAIN mutexes' : mutexes'[i].mutex = g
    BY <1>2
  <2>1. PICK i \in 1 .. n : mutexes[i].mutex = g
    BY <1>1, <1>4 DEF TableApart
  <2>2. i # k
    BY <1>2, <2>1 DEF h
  <2>3. QED
    BY <1>6, <1>9, <2>1, <2>2
<1>17. TableApart'
  BY <1>12, <1>13, <1>14, <1>15, <1>16 DEF TableApart
<1>18. LockingKnown'
  <2> SUFFICES ASSUME NEW u \in Guests, locking[u] # Mutexes!Idle
               PROVE  \E i \in DOMAIN mutexes' : mutexes'[i] = locking[u]
    BY <1>2 DEF LockingKnown, Mutexes!Idle
  <2>1. PICK i \in 1 .. n : mutexes[i] = locking[u]
    BY <1>1, <1>4 DEF LockingKnown
  <2>2. i # k
    BY <1>2, <1>3, <2>1 DEF Mutexes!Undisturbed
  <2>3. QED
    BY <1>6, <1>9, <2>1, <2>2
<1>19. QED
  BY <1>2, <1>6, <1>10, <1>17, <1>18, MutexesAre, MutexesMade

\* MutexesSound holds for every number of threads, addresses and host mutexes.
LEMMA MutexesInvariant == Spec => []Mutexes!MutexesSound
<1>1. Mutexes!MutexesInit => Mutexes!MutexesInv
  BY InitMutexes
<1>2. Mutexes!MutexesInv /\ [Mutexes!MutexesNext]_(Mutexes!mutexVars) => Mutexes!MutexesInv'
  <2> SUFFICES ASSUME Mutexes!MutexesInv, [Mutexes!MutexesNext]_(Mutexes!mutexVars) PROVE Mutexes!MutexesInv'
    OBVIOUS
  <2>1. CASE UNCHANGED Mutexes!mutexVars
    <3>1. TableApart /\ LockingKnown
      BY MutexesSplit DEF MutexesApart
    <3>2. TableApart' /\ LockingKnown'
      BY <2>1, <3>1 DEF Mutexes!mutexVars, TableApart, LockingKnown, Mutexes!Idle
    <3>3. QED
      BY <2>1, <3>2, MutexesAre, MutexesMade DEF Mutexes!mutexVars
  <2>2. CASE Mutexes!MutexesNext
    <3>1. PICK t \in Guests :
            \/ Mutexes!Locks(t) \/ Mutexes!TryLockFails(t)
            \/ \E a \in Addresses : \/ Mutexes!Lookup(t, a) \/ Mutexes!Unlocks(t, a)
                                     \/ Mutexes!Initialize(t, a) \/ Mutexes!Destroy(t, a)
      BY <2>2 DEF Mutexes!MutexesNext
    <3>2. QED
      BY <3>1, LocksKeep, LookupKeeps, UnlocksKeeps, InitializeKeeps, DestroyKeeps
  <2>3. QED
    BY <2>1, <2>2
<1>3. Mutexes!MutexesInv => Mutexes!MutexesSound
  BY DEF Mutexes!MutexesInv
<1>4. QED
  BY <1>1, <1>2, <1>3, MutexesBehave, PTL DEF Mutexes!MutexesSpec

-----------------------------------------------------------------------------
(* Cg *)

LEMMA CgAssumed == Cg!CgAssumption
BY ComponentsAssumption

LEMMA CgBehaves == Spec => Cg!CgSpec
<1>1. Init => Cg!CgInit
  BY DEF Init
<1>2. [Next]_vars => [Cg!CgNext]_(Cg!cgVars)
  BY DEF Next, Alone, vars, cgVars, Cg!cgVars
<1>3. QED
  BY <1>1, <1>2, PTL DEF Spec, Cg!CgSpec

Hosts == Buffers \cup {Context}
CgEntry == [host : Hosts, owner : Nat, guest : GuestBlocks \cup {0}, capacity : Nat]

\* A table s of strings, with the guest's copies c and what it has been given.
TableOf(s, c, had) ==
  /\ \A i, j \in DOMAIN s : s[i].host = s[j].host /\ s[i].owner = s[j].owner => i = j
  /\ \A i \in DOMAIN s : IF s[i].guest = 0 THEN s[i].capacity = 0 ELSE s[i].guest \in DOMAIN c
  /\ \A i, j \in DOMAIN s : i # j /\ s[i].guest # 0 => s[i].guest # s[j].guest
  /\ \A g \in had :
       /\ g.guest \in DOMAIN c /\ c[g.guest] = g.listing
       /\ \E i \in DOMAIN s : s[i].host = g.host /\ s[i].owner = g.owner /\ s[i].guest = g.guest

OwnersThere ==
  \A i \in DOMAIN cgStrings :
    /\ cgStrings[i].owner \in 0 .. Len(cgObjects)
    /\ cgStrings[i].owner # 0 => \/ cgObjects[cgStrings[i].owner] \in Cg!Live
                                 \/ \E t \in CgThreads : cgDropping[t] = cgStrings[i].owner

\* What is said of Cg's own state, of the handles and of who drops what.
ProgramsKept ==
  /\ cgObjects \in Seq(Programs)
  /\ Cg!Live \subseteq Programs /\ \A p \in Cg!Live : buffers[p] \subseteq Buffers
  /\ listing \in [Hosts -> Listings \cup {Cg!Nothing}]
  /\ cgDropping \in [CgThreads -> Nat]
  /\ \A p, q \in Cg!Live : p # q => buffers[p] \cap buffers[q] = {}
  /\ \A p \in Cg!Live : \A b \in buffers[p] : listing[b] \in Listings
  /\ \A i, j \in DOMAIN cgObjects : cgObjects[i] = cgObjects[j] => i = j

NotDropped == \A t \in CgThreads : cgDropping[t] # 0 => \A g \in cgGiven : g.owner # cgDropping[t]

LEMMA CgSplit ==
  Cg!CgInv <=>
    /\ cgStrings \in Seq(CgEntry) /\ DOMAIN copies \subseteq GuestBlocks
    /\ TableOf(cgStrings, copies, cgGiven) /\ OwnersThere /\ ProgramsKept /\ NotDropped
<1> DEFINE A == /\ cgStrings \in Seq(CgEntry) /\ DOMAIN copies \subseteq GuestBlocks
                /\ TableOf(cgStrings, copies, cgGiven) /\ OwnersThere /\ ProgramsKept /\ NotDropped
<1>1. ASSUME Cg!CgInv PROVE A
  <2>1. cgStrings \in Seq(CgEntry) /\ DOMAIN copies \subseteq GuestBlocks
    BY <1>1 DEF Cg!CgInv, Cg!CgTyped, CgEntry, Hosts
  <2>2. TableOf(cgStrings, copies, cgGiven)
    BY <1>1, Zenon DEF Cg!CgInv, Cg!EntriesApart, Cg!GivenKnown, Cg!CgSound, TableOf
  <2>3. OwnersThere
    BY <1>1 DEF Cg!CgInv, Cg!OwnersKnown, Cg!CgSound, OwnersThere
  <2>4. ProgramsKept
    BY <1>1 DEF Cg!CgInv, Cg!CgTyped, Cg!BuffersApart, Cg!CgSound, ProgramsKept, Hosts
  <2>5. NotDropped
    BY <1>1 DEF Cg!CgInv, Cg!GivenKnown, NotDropped
  <2>6. QED
    BY <2>1, <2>2, <2>3, <2>4, <2>5
<1>2. ASSUME A PROVE Cg!CgInv
  <2>1. Cg!CgTyped
    BY <1>2 DEF Cg!CgTyped, CgEntry, Hosts, ProgramsKept
  <2>2. Cg!BuffersApart
    BY <1>2 DEF Cg!BuffersApart, ProgramsKept
  <2>3. Cg!EntriesApart
    BY <1>2 DEF Cg!EntriesApart, TableOf
  <2>4. Cg!GivenKnown
    BY <1>2, Zenon DEF Cg!GivenKnown, TableOf, NotDropped
  <2>5. Cg!OwnersKnown
    BY <1>2 DEF Cg!OwnersKnown, OwnersThere
  <2>6. Cg!CgSound
    BY <1>2, Zenon DEF Cg!CgSound, TableOf, OwnersThere, ProgramsKept
  <2>7. QED
    BY <2>1, <2>2, <2>3, <2>4, <2>5, <2>6 DEF Cg!CgInv
<1>3. QED
  BY <1>1, <1>2

LEMMA CgIs ==
  ASSUME Cg!CgInv
  PROVE  /\ cgStrings \in Seq(CgEntry) /\ Len(cgStrings) \in Nat /\ DOMAIN cgStrings = 1 .. Len(cgStrings)
         /\ \A i \in DOMAIN cgStrings : cgStrings[i] \in CgEntry
         /\ cgObjects \in Seq(Programs) /\ Len(cgObjects) \in Nat /\ DOMAIN cgObjects = 1 .. Len(cgObjects)
         /\ DOMAIN copies \subseteq GuestBlocks /\ GuestBlocks \subseteq Nat \ {0}
         /\ Listings \subseteq [size : Nat \ {0}, text : Nat] /\ Cg!Nothing \notin Listings
         /\ Context \notin Buffers
<1>1. cgStrings \in Seq(CgEntry) /\ cgObjects \in Seq(Programs) /\ DOMAIN copies \subseteq GuestBlocks
  BY CgSplit DEF ProgramsKept
<1>2. /\ GuestBlocks \subseteq Nat \ {0} /\ Listings \subseteq [size : Nat \ {0}, text : Nat]
      /\ Context \notin Buffers
  BY CgAssumed DEF Cg!CgAssumption
<1>3. Cg!Nothing \notin Listings
  BY <1>2 DEF Cg!Nothing
<1>4. QED
  BY <1>1, <1>2, <1>3

LEMMA InitCg == Cg!CgInit => Cg!CgInv
<1> SUFFICES ASSUME Cg!CgInit PROVE Cg!CgInv
  OBVIOUS
<1>1. cgStrings = <<>> /\ copies = <<>> /\ cgGiven = {} /\ cgObjects = <<>> /\ buffers = <<>>
  BY DEF Cg!CgInit
<1>2. cgStrings \in Seq(CgEntry) /\ DOMAIN copies \subseteq GuestBlocks
  BY <1>1
<1>3. TableOf(cgStrings, copies, cgGiven) /\ OwnersThere
  BY <1>1 DEF TableOf, OwnersThere
<1>4. ProgramsKept
  BY <1>1 DEF Cg!CgInit, ProgramsKept, Cg!Live, Hosts
<1>5. NotDropped
  BY DEF Cg!CgInit, NotDropped
<1>6. QED
  BY <1>2, <1>3, <1>4, <1>5, CgSplit

\* An entry whose copy is made in the block it has or in one nobody has.
LEMMA Written ==
  ASSUME Cg!CgInv, NEW s \in Seq(CgEntry), NEW i \in DOMAIN s, TableOf(s, copies, cgGiven),
         NEW b \in GuestBlocks, b = s[i].guest \/ b \notin DOMAIN copies,
         Cg!Gives(s[i].host, s[i].owner, [old |-> s[i].guest, new |-> b]),
         DOMAIN cgStrings' = DOMAIN s,
         \A j \in DOMAIN s \ {i} : cgStrings'[j] = s[j],
         cgStrings'[i].host = s[i].host, cgStrings'[i].owner = s[i].owner, cgStrings'[i].guest = b
  PROVE  /\ TableOf(cgStrings', copies', cgGiven') /\ DOMAIN copies' \subseteq GuestBlocks
         /\ \A g \in cgGiven' : g \in cgGiven \/ g.owner = s[i].owner
<1> DEFINE o == s[i].guest
           e == [owner |-> s[i].owner, host |-> s[i].host, guest |-> b, listing |-> listing[s[i].host]]
<1>1. copies' = Cg!With(Cg!Without(copies, o), b, listing[s[i].host])
  BY DEF Cg!Gives
<1>2. cgGiven' = {g \in cgGiven : g.owner # s[i].owner \/ g.host # s[i].host} \cup {e}
  BY DEF Cg!Gives
<1>3. DOMAIN copies' = (DOMAIN copies \ {o}) \cup {b}
  BY <1>1 DEF Cg!With, Cg!Without
<1>4. copies'[b] = listing[s[i].host]
  BY <1>1 DEF Cg!With, Cg!Without
<1>5. \A x \in DOMAIN copies \ {o, b} : copies'[x] = copies[x]
  BY <1>1 DEF Cg!With, Cg!Without
<1>6. b # 0 /\ \A x \in DOMAIN copies : x # 0
  BY CgIs
<1>7. \A j \in DOMAIN s \ {i} : s[j].guest # 0 => s[j].guest \in DOMAIN copies \ {o, b}
  <2> SUFFICES ASSUME NEW j \in DOMAIN s \ {i}, s[j].guest # 0 PROVE s[j].guest \in DOMAIN copies \ {o, b}
    OBVIOUS
  <2>1. s[j].guest \in DOMAIN copies
    BY DEF TableOf
  <2>2. s[j].guest # s[i].guest
    BY DEF TableOf
  <2>3. QED
    BY <2>1, <2>2
<1> HIDE DEF o
<1>8. \A x \in DOMAIN s : cgStrings'[x].host = s[x].host /\ cgStrings'[x].owner = s[x].owner
  OBVIOUS
<1>9. \A x, y \in DOMAIN cgStrings' :
        cgStrings'[x].host = cgStrings'[y].host /\ cgStrings'[x].owner = cgStrings'[y].owner => x = y
  BY <1>8 DEF TableOf
<1>10. \A x \in DOMAIN cgStrings' :
         IF cgStrings'[x].guest = 0 THEN cgStrings'[x].capacity = 0 ELSE cgStrings'[x].guest \in DOMAIN copies'
  <2> SUFFICES ASSUME NEW x \in DOMAIN s
               PROVE  IF cgStrings'[x].guest = 0 THEN cgStrings'[x].capacity = 0
                      ELSE cgStrings'[x].guest \in DOMAIN copies'
    OBVIOUS
  <2>1. CASE x = i
    BY <1>3, <1>6, <2>1
  <2>2. CASE x # i
    <3>1. cgStrings'[x] = s[x]
      BY <2>2
    <3>2. s[x].guest = 0 => s[x].capacity = 0
      BY DEF TableOf
    <3>3. QED
      BY <1>3, <1>7, <2>2, <3>1, <3>2
  <2>3. QED
    BY <2>1, <2>2
<1>11. \A x, y \in DOMAIN cgStrings' :
         x # y /\ cgStrings'[x].guest # 0 => cgStrings'[x].guest # cgStrings'[y].guest
  <2>1. \A x, y \in DOMAIN s \ {i} : x # y /\ s[x].guest # 0 => s[x].guest # s[y].guest
    BY DEF TableOf
  <2>2. \A y \in DOMAIN s \ {i} : s[y].guest # b
    BY <1>6, <1>7
  <2>3. QED
    BY <2>1, <2>2
<1>12. \A g \in cgGiven' :
         /\ g.guest \in DOMAIN copies' /\ copies'[g.guest] = g.listing
         /\ \E x \in DOMAIN cgStrings' :
              cgStrings'[x].host = g.host /\ cgStrings'[x].owner = g.owner /\ cgStrings'[x].guest = g.guest
  <2>1. e.guest \in DOMAIN copies' /\ copies'[e.guest] = e.listing
    BY <1>3, <1>4
  <2>2. cgStrings'[i].host = e.host /\ cgStrings'[i].owner = e.owner /\ cgStrings'[i].guest = e.guest
    OBVIOUS
  <2>3. ASSUME NEW g \in cgGiven, g.owner # s[i].owner \/ g.host # s[i].host
        PROVE  /\ g.guest \in DOMAIN copies' /\ copies'[g.guest] = g.listing
               /\ \E x \in DOMAIN cgStrings' :
                    /\ cgStrings'[x].host = g.host /\ cgStrings'[x].owner = g.owner
                    /\ cgStrings'[x].guest = g.guest
    <3>1. PICK x \in DOMAIN s : s[x].host = g.host /\ s[x].owner = g.owner /\ s[x].guest = g.guest
      BY DEF TableOf
    <3>2. g.guest \in DOMAIN copies /\ copies[g.guest] = g.listing
      BY DEF TableOf
    <3>3. x # i
      BY <2>3, <3>1
    <3>4. g.guest \in DOMAIN copies \ {o, b}
      BY <1>6, <1>7, <3>1, <3>2, <3>3
    <3>5. cgStrings'[x] = s[x]
      BY <3>3
    <3>6. QED
      BY <1>3, <1>5, <3>1, <3>2, <3>4, <3>5
  <2> HIDE DEF e
  <2>4. QED
    BY <1>2, <2>1, <2>2, <2>3
<1>13. \A g \in cgGiven' : g \in cgGiven \/ g.owner = s[i].owner
  BY <1>2
<1>14. DOMAIN copies' \subseteq GuestBlocks
  BY <1>3, CgIs
<1>15. QED
  BY <1>9, <1>10, <1>11, <1>12, <1>13, <1>14 DEF TableOf

LEMMA FreshBlockIs ==
  ASSUME Cg!CgInv, DOMAIN copies # GuestBlocks
  PROVE  Cg!FreshBlock \in GuestBlocks /\ Cg!FreshBlock \notin DOMAIN copies
<1>1. GuestBlocks \ DOMAIN copies \in SUBSET Nat /\ GuestBlocks \ DOMAIN copies # {}
  BY CgIs
<1>2. \E g \in GuestBlocks \ DOMAIN copies : \A k \in GuestBlocks \ DOMAIN copies : g <= k
  BY <1>1, LeastExists
<1>3. QED
  BY <1>2 DEF Cg!FreshBlock

\* guest_cg_string_owned, with the entry found or appended.
LEMMA RefreshesKeeps ==
  ASSUME Cg!CgInv, NEW s \in Seq(CgEntry), NEW i \in DOMAIN s, TableOf(s, copies, cgGiven),
         listing[s[i].host] \in Listings, Cg!Refreshes(s, i)
  PROVE  /\ TableOf(cgStrings', copies', cgGiven') /\ DOMAIN copies' \subseteq GuestBlocks
         /\ cgStrings' \in Seq(CgEntry) /\ DOMAIN cgStrings' = DOMAIN s
         /\ \A j \in DOMAIN s : cgStrings'[j].owner = s[j].owner
         /\ \A g \in cgGiven' : g \in cgGiven \/ g.owner = s[i].owner
<1> DEFINE size == listing[s[i].host].size
<1>1. size \in Nat \ {0} /\ s[i] \in CgEntry
  BY CgIs
<1>2. s[i].guest \in GuestBlocks \cup {0} /\ s[i].capacity \in Nat
  BY <1>1 DEF CgEntry
<1> HIDE DEF size
<1>3. CASE /\ s[i].capacity >= size /\ cgStrings' = s
           /\ Cg!Gives(s[i].host, s[i].owner, [old |-> s[i].guest, new |-> s[i].guest])
  <2>1. s[i].guest # 0
    BY <1>1, <1>2, <1>3 DEF TableOf
  <2>2. s[i].guest \in GuestBlocks
    BY <1>2, <2>1
  <2>3. QED
    BY <1>3, <2>2, Written
<1>4. CASE /\ DOMAIN copies # GuestBlocks
           /\ cgStrings' = [s EXCEPT ![i] = [s[i] EXCEPT !.guest = Cg!FreshBlock, !.capacity = size]]
           /\ Cg!Gives(s[i].host, s[i].owner, [old |-> s[i].guest, new |-> Cg!FreshBlock])
  <2> DEFINE b == Cg!FreshBlock
             e == [s[i] EXCEPT !.guest = b, !.capacity = size]
  <2>1. b \in GuestBlocks /\ b \notin DOMAIN copies
    BY <1>4, FreshBlockIs
  <2>2. Cg!Gives(s[i].host, s[i].owner, [old |-> s[i].guest, new |-> b])
    BY <1>4
  <2>3. cgStrings' = [s EXCEPT ![i] = e]
    BY <1>4
  <2> HIDE DEF b
  <2>4. e \in CgEntry /\ e.host = s[i].host /\ e.owner = s[i].owner /\ e.guest = b
    BY <1>1, <2>1 DEF CgEntry
  <2> HIDE DEF e
  <2>5. /\ cgStrings' \in Seq(CgEntry) /\ DOMAIN cgStrings' = DOMAIN s
        /\ cgStrings'[i] = e /\ \A j \in DOMAIN s \ {i} : cgStrings'[j] = s[j]
    BY <2>3, <2>4
  <2>6. \A j \in DOMAIN s : cgStrings'[j].owner = s[j].owner
    BY <2>4, <2>5
  <2>7. /\ TableOf(cgStrings', copies', cgGiven') /\ DOMAIN copies' \subseteq GuestBlocks
        /\ \A g \in cgGiven' : g \in cgGiven \/ g.owner = s[i].owner
    BY <2>1, <2>2, <2>4, <2>5, Written
  <2>8. QED
    BY <2>5, <2>6, <2>7
<1>5. CASE cgStrings' = s /\ UNCHANGED <<copies, cgGiven>>
  BY <1>5, CgIs
<1>6. QED
  BY <1>3, <1>4, <1>5 DEF Cg!Refreshes, size

LEMMA GivesCopyKeeps ==
  ASSUME Cg!CgInv, NEW buffer \in Hosts, NEW owner \in Nat, listing[buffer] \in Listings,
         Cg!GivesCopy(buffer, owner)
  PROVE  /\ TableOf(cgStrings', copies', cgGiven') /\ DOMAIN copies' \subseteq GuestBlocks
         /\ cgStrings' \in Seq(CgEntry)
         /\ \A i \in DOMAIN cgStrings' :
              \/ cgStrings'[i].owner = owner
              \/ \E j \in DOMAIN cgStrings : cgStrings[j].owner = cgStrings'[i].owner
         /\ \A g \in cgGiven' : g \in cgGiven \/ g.owner = owner
<1> DEFINE found == Cg!Entry(buffer, owner)
<1>1. TableOf(cgStrings, copies, cgGiven)
  BY CgSplit
<1>2. CASE found # {}
  <2> DEFINE i == CHOOSE j \in found : \A k \in found : j <= k
  <2>1. found \in SUBSET Nat
    BY CgIs DEF Cg!Entry
  <2>2. \E j \in found : \A k \in found : j <= k
    BY <1>2, <2>1, LeastExists
  <2>3. i \in found
    BY <2>2
  <2>4. Cg!Refreshes(cgStrings, i)
    BY <1>2 DEF Cg!GivesCopy
  <2> HIDE DEF i
  <2>5. i \in DOMAIN cgStrings /\ cgStrings[i].host = buffer /\ cgStrings[i].owner = owner
    BY <2>3 DEF Cg!Entry
  <2>6. /\ TableOf(cgStrings', copies', cgGiven') /\ DOMAIN copies' \subseteq GuestBlocks
        /\ cgStrings' \in Seq(CgEntry) /\ DOMAIN cgStrings' = DOMAIN cgStrings
        /\ \A j \in DOMAIN cgStrings : cgStrings'[j].owner = cgStrings[j].owner
        /\ \A g \in cgGiven' : g \in cgGiven \/ g.owner = cgStrings[i].owner
    BY <1>1, <2>4, <2>5, CgIs, RefreshesKeeps
  <2>7. QED
    BY <2>5, <2>6
<1>3. CASE found = {}
  <2> DEFINE n == Len(cgStrings)
             e == Cg!NewEntry(buffer, owner)
             s == Append(cgStrings, e)
  <2>1. e \in CgEntry /\ e.host = buffer /\ e.owner = owner /\ e.guest = 0 /\ e.capacity = 0
    BY DEF CgEntry, Cg!NewEntry
  <2>2. n \in Nat /\ DOMAIN cgStrings = 1 .. n /\ cgStrings \in Seq(CgEntry)
    BY CgIs
  <2>3. Cg!Refreshes(s, n + 1)
    BY <1>3 DEF Cg!GivesCopy
  <2> HIDE DEF e
  <2>4. s \in Seq(CgEntry) /\ DOMAIN s = 1 .. n + 1 /\ s[n + 1] = e /\ \A i \in 1 .. n : s[i] = cgStrings[i]
    BY <2>1, <2>2
  <2>5. \A i \in 1 .. n : ~ (cgStrings[i].host = buffer /\ cgStrings[i].owner = owner)
    BY <1>3, <2>2 DEF Cg!Entry
  <2> HIDE DEF n, s
  <2>6. \A i \in 1 .. n + 1 : i = n + 1 \/ i \in 1 .. n
    BY <2>2
  <2>7. TableOf(s, copies, cgGiven)
    <3>1. \A i, j \in DOMAIN s : s[i].host = s[j].host /\ s[i].owner = s[j].owner => i = j
      BY <1>1, <2>1, <2>2, <2>4, <2>5, <2>6 DEF TableOf
    <3>2. \A i \in DOMAIN s : IF s[i].guest = 0 THEN s[i].capacity = 0 ELSE s[i].guest \in DOMAIN copies
      <4>1. \A i \in 1 .. n : IF cgStrings[i].guest = 0 THEN cgStrings[i].capacity = 0
                             ELSE cgStrings[i].guest \in DOMAIN copies
        BY <1>1, <2>2 DEF TableOf
      <4>2. QED
        BY <2>1, <2>4, <2>6, <4>1
    <3>3. \A i, j \in DOMAIN s : i # j /\ s[i].guest # 0 => s[i].guest # s[j].guest
      BY <1>1, <2>1, <2>2, <2>4, <2>6 DEF TableOf
    <3>4. \A g \in cgGiven :
            /\ g.guest \in DOMAIN copies /\ copies[g.guest] = g.listing
            /\ \E i \in DOMAIN s : s[i].host = g.host /\ s[i].owner = g.owner /\ s[i].guest = g.guest
      <4> SUFFICES ASSUME NEW g \in cgGiven
                   PROVE  /\ g.guest \in DOMAIN copies /\ copies[g.guest] = g.listing
                          /\ \E i \in DOMAIN s : /\ s[i].host = g.host /\ s[i].owner = g.owner
                                                 /\ s[i].guest = g.guest
        OBVIOUS
      <4>1. g.guest \in DOMAIN copies /\ copies[g.guest] = g.listing
        BY <1>1 DEF TableOf
      <4>2. PICK i \in 1 .. n : /\ cgStrings[i].host = g.host /\ cgStrings[i].owner = g.owner
                               /\ cgStrings[i].guest = g.guest
        BY <1>1, <2>2 DEF TableOf
      <4>3. i \in DOMAIN s /\ s[i] = cgStrings[i]
        BY <2>2, <2>4
      <4>4. QED
        BY <4>1, <4>2, <4>3
    <3>5. QED
      BY <3>1, <3>2, <3>3, <3>4 DEF TableOf
  <2>8. n + 1 \in DOMAIN s
    BY <2>2, <2>4
  <2>9. /\ TableOf(cgStrings', copies', cgGiven') /\ DOMAIN copies' \subseteq GuestBlocks
        /\ cgStrings' \in Seq(CgEntry) /\ DOMAIN cgStrings' = DOMAIN s
        /\ \A j \in DOMAIN s : cgStrings'[j].owner = s[j].owner
        /\ \A g \in cgGiven' : g \in cgGiven \/ g.owner = s[n + 1].owner
    <3>1. listing[s[n + 1].host] \in Listings
      BY <2>1, <2>4
    <3>2. QED
      BY <2>3, <2>4, <2>7, <2>8, <3>1, RefreshesKeeps
  <2>10. QED
    BY <2>1, <2>2, <2>4, <2>6, <2>9
<1>4. QED
  BY <1>2, <1>3

\* A program is put where none is, in buffers no program has.
LEMMA CreateProgramKeeps ==
  ASSUME Cg!CgInv, NEW t \in CgThreads, Cg!CreateProgram(t)
  PROVE  Cg!CgInv'
<1>1. UNCHANGED <<cgStrings, copies, cgDropping, cgGiven>>
  BY DEF Cg!CreateProgram
<1>2. PICK p \in Programs \ Cg!Live, B \in SUBSET (Buffers \ UNION {buffers[q] : q \in Cg!Live}), l \in Listings :
        /\ buffers' = [q \in Cg!Live \cup {p} |-> IF q = p THEN B ELSE buffers[q]]
        /\ listing' = [b \in DOMAIN listing |-> IF b \in B \cup {Context} THEN l ELSE listing[b]]
        /\ Cg!Registers(p)
  BY DEF Cg!CreateProgram
<1>3. ProgramsKept /\ OwnersThere /\ TableOf(cgStrings, copies, cgGiven) /\ NotDropped
  BY CgSplit
<1>4. /\ DOMAIN buffers' = Cg!Live \cup {p} /\ buffers'[p] = B
      /\ \A q \in Cg!Live : buffers'[q] = buffers[q]
  BY <1>2
<1>5. \A q \in Cg!Live : buffers[q] \cap B = {}
  BY <1>2
<1>6. /\ cgObjects' \in Seq(Programs) /\ Len(cgObjects') \in Nat /\ Len(cgObjects') >= Len(cgObjects)
      /\ \A i \in DOMAIN cgObjects : i \in DOMAIN cgObjects' /\ cgObjects'[i] = cgObjects[i]
      /\ \A i, j \in DOMAIN cgObjects' : cgObjects'[i] = cgObjects'[j] => i = j
  <2>1. CASE Cg!Positions(p) # {}
    <3>1. cgObjects' = cgObjects
      BY <1>2, <2>1 DEF Cg!Registers
    <3>2. QED
      BY <1>3, <3>1, CgIs DEF ProgramsKept
  <2>2. CASE Cg!Positions(p) = {}
    <3> DEFINE n == Len(cgObjects)
    <3>1. cgObjects' = Append(cgObjects, p)
      BY <1>2, <2>2 DEF Cg!Registers
    <3>2. n \in Nat /\ DOMAIN cgObjects = 1 .. n /\ cgObjects \in Seq(Programs)
      BY CgIs
    <3>3. /\ cgObjects' \in Seq(Programs) /\ Len(cgObjects') = n + 1 /\ DOMAIN cgObjects' = 1 .. n + 1
          /\ cgObjects'[n + 1] = p /\ \A i \in 1 .. n : cgObjects'[i] = cgObjects[i]
      BY <3>1, <3>2
    <3>4. \A i \in 1 .. n : cgObjects[i] # p
      BY <2>2, <3>2 DEF Cg!Positions
    <3>5. \A i, j \in 1 .. n : cgObjects[i] = cgObjects[j] => i = j
      BY <1>3, <3>2 DEF ProgramsKept
    <3> HIDE DEF n
    <3>6. \A i \in 1 .. n + 1 : i = n + 1 \/ i \in 1 .. n
      BY <3>2
    <3>7. \A i, j \in DOMAIN cgObjects' : cgObjects'[i] = cgObjects'[j] => i = j
      BY <3>3, <3>4, <3>5, <3>6
    <3>8. n + 1 >= n /\ n + 1 \in Nat /\ \A i \in 1 .. n : i \in 1 .. n + 1
      BY <3>2
    <3>9. QED
      BY <3>2, <3>3, <3>7, <3>8 DEF n
  <2>3. QED
    BY <2>1, <2>2
<1>7. listing' \in [Hosts -> Listings \cup {Cg!Nothing}]
  BY <1>2, <1>3 DEF ProgramsKept
<1>8. ProgramsKept'
  <2>1. Cg!Live' = Cg!Live \cup {p}
    BY <1>4 DEF Cg!Live
  <2>2. \A q \in Cg!Live' : buffers'[q] \subseteq Buffers
    BY <1>2, <1>3, <1>4, <2>1 DEF ProgramsKept
  <2>3. \A q, r \in Cg!Live' : q # r => buffers'[q] \cap buffers'[r] = {}
    <3>1. \A q, r \in Cg!Live : q # r => buffers[q] \cap buffers[r] = {}
      BY <1>3 DEF ProgramsKept
    <3>2. QED
      BY <1>4, <1>5, <2>1, <3>1
  <2>4. \A q \in Cg!Live' : \A b \in buffers'[q] : listing'[b] \in Listings
    <3> SUFFICES ASSUME NEW q \in Cg!Live', NEW b \in buffers'[q] PROVE listing'[b] \in Listings
      OBVIOUS
    <3>1. b \in Hosts /\ DOMAIN listing = Hosts
      BY <1>3, <2>2 DEF Hosts, ProgramsKept
    <3>2. listing'[b] = IF b \in B \cup {Context} THEN l ELSE listing[b]
      BY <1>2, <3>1
    <3>3. CASE q = p
      BY <1>4, <3>2, <3>3
    <3>4. CASE q \in Cg!Live
      BY <1>3, <1>4, <3>2, <3>4 DEF ProgramsKept
    <3>5. QED
      BY <2>1, <3>3, <3>4
  <2>5. Cg!Live' \subseteq Programs /\ cgDropping' \in [CgThreads -> Nat]
    BY <1>1, <1>2, <1>3, <2>1 DEF ProgramsKept
  <2>6. QED
    BY <1>6, <1>7, <2>2, <2>3, <2>4, <2>5 DEF ProgramsKept, Cg!Nothing
<1>9. OwnersThere'
  <2> SUFFICES ASSUME NEW i \in DOMAIN cgStrings
               PROVE  /\ cgStrings[i].owner \in 0 .. Len(cgObjects')
                      /\ cgStrings[i].owner # 0 =>
                           \/ cgObjects'[cgStrings[i].owner] \in DOMAIN buffers'
                           \/ \E u \in CgThreads : cgDropping[u] = cgStrings[i].owner
    BY <1>1 DEF OwnersThere, Cg!Live
  <2> DEFINE o == cgStrings[i].owner
  <2>1. /\ o \in 0 .. Len(cgObjects)
        /\ o # 0 => cgObjects[o] \in Cg!Live \/ \E u \in CgThreads : cgDropping[u] = o
    BY <1>3 DEF OwnersThere
  <2> HIDE DEF o
  <2>2. o \in 0 .. Len(cgObjects')
    BY <1>6, <2>1, CgIs
  <2>3. o # 0 => o \in DOMAIN cgObjects
    BY <2>1, CgIs
  <2>4. o # 0 => cgObjects'[o] \in DOMAIN buffers' \/ \E u \in CgThreads : cgDropping[u] = o
    BY <1>4, <1>6, <2>1, <2>3
  <2>5. QED
    BY <2>2, <2>4 DEF o
<1>10. TableOf(cgStrings, copies, cgGiven)' /\ NotDropped'
  BY <1>1, <1>3 DEF TableOf, NotDropped
<1>11. (cgStrings \in Seq(CgEntry) /\ DOMAIN copies \subseteq GuestBlocks)'
  <2>1. cgStrings \in Seq(CgEntry) /\ DOMAIN copies \subseteq GuestBlocks
    BY CgSplit
  <2>2. QED
    BY <1>1, <2>1 DEF CgEntry, Hosts
<1>12. QED
  <2>1. (Cg!CgInv <=>
           /\ cgStrings \in Seq(CgEntry) /\ DOMAIN copies \subseteq GuestBlocks
           /\ TableOf(cgStrings, copies, cgGiven) /\ OwnersThere /\ ProgramsKept /\ NotDropped)'
    BY CgSplit, PTL
  <2>2. QED
    BY <1>8, <1>9, <1>10, <1>11, <2>1

\* With one thread in Cg nothing is being destroyed when a string is asked for.
LEMMA GivesKeeps ==
  ASSUME Cg!CgInv, Cg!OneCgThread, NEW t \in CgThreads, cgDropping[t] = 0,
         NEW buffer \in Hosts, NEW owner \in Nat, listing[buffer] \in Listings,
         Cg!GivesCopy(buffer, owner), UNCHANGED <<cgObjects, buffers, listing, cgDropping>>,
         owner \in 0 .. Len(cgObjects), owner # 0 => cgObjects[owner] \in Cg!Live
  PROVE  Cg!CgInv'
<1>1. /\ TableOf(cgStrings', copies', cgGiven') /\ DOMAIN copies' \subseteq GuestBlocks
      /\ cgStrings' \in Seq(CgEntry)
      /\ \A i \in DOMAIN cgStrings' :
           \/ cgStrings'[i].owner = owner
           \/ \E j \in DOMAIN cgStrings : cgStrings[j].owner = cgStrings'[i].owner
  BY GivesCopyKeeps
<1>2. ProgramsKept /\ OwnersThere
  BY CgSplit
<1>3. ProgramsKept'
  BY <1>2 DEF ProgramsKept, Cg!Live, Cg!Nothing
<1>4. \A u \in CgThreads : cgDropping[u] = 0
  BY Zenon DEF Cg!OneCgThread
<1>5. NotDropped'
  BY <1>4 DEF NotDropped
<1>6. OwnersThere'
  <2>1. \A j \in DOMAIN cgStrings :
          /\ cgStrings[j].owner \in 0 .. Len(cgObjects)
          /\ cgStrings[j].owner # 0 => \/ cgObjects[cgStrings[j].owner] \in Cg!Live
                                       \/ \E u \in CgThreads : cgDropping[u] = cgStrings[j].owner
    BY <1>2 DEF OwnersThere
  <2>2. Cg!Live' = Cg!Live
    BY DEF Cg!Live
  <2>3. QED
    BY <1>1, <2>1, <2>2, Zenon DEF OwnersThere
<1>7. (Cg!CgInv <=>
         /\ cgStrings \in Seq(CgEntry) /\ DOMAIN copies \subseteq GuestBlocks
         /\ TableOf(cgStrings, copies, cgGiven) /\ OwnersThere /\ ProgramsKept /\ NotDropped)'
  BY CgSplit, PTL
<1>8. (cgStrings \in Seq(CgEntry))'
  BY <1>1 DEF CgEntry, Hosts
<1>9. TableOf(cgStrings, copies, cgGiven)'
  BY <1>1
<1>10. QED
  BY <1>1, <1>3, <1>5, <1>6, <1>7, <1>8, <1>9

LEMMA GetKeeps ==
  ASSUME Cg!CgInv, Cg!OneCgThread, NEW t \in CgThreads, Cg!GetProgramString(t) \/ Cg!GetLastListing(t)
  PROVE  Cg!CgInv'
<1>1. ProgramsKept
  BY CgSplit
<1>2. UNCHANGED <<cgObjects, buffers, listing, cgDropping>> /\ cgDropping[t] = 0
  BY DEF Cg!GetProgramString, Cg!GetLastListing
<1>3. CASE Cg!GetProgramString(t)
  <2>1. PICK h \in DOMAIN cgObjects : cgObjects[h] \in Cg!Live /\ \E b \in buffers[cgObjects[h]] : Cg!GivesCopy(b, h)
    BY <1>3 DEF Cg!GetProgramString
  <2>2. PICK b \in buffers[cgObjects[h]] : Cg!GivesCopy(b, h)
    BY <2>1
  <2>3. b \in Hosts /\ listing[b] \in Listings
    BY <1>1, <2>1, <2>2 DEF ProgramsKept, Hosts
  <2>4. h \in Nat /\ h \in 0 .. Len(cgObjects)
    BY CgIs
  <2>5. QED
    BY <1>2, <2>1, <2>2, <2>3, <2>4, GivesKeeps
<1>4. CASE Cg!GetLastListing(t)
  <2>1. Cg!GivesCopy(Context, 0) /\ listing[Context] # Cg!Nothing
    BY <1>4 DEF Cg!GetLastListing
  <2>2. Context \in Hosts
    BY DEF Hosts
  <2>3. listing[Context] \in Listings
    BY <1>1, <2>1, <2>2 DEF ProgramsKept
  <2>4. 0 \in Nat /\ 0 \in 0 .. Len(cgObjects)
    BY CgIs
  <2>5. QED
    BY <1>2, <2>1, <2>2, <2>3, <2>4, GivesKeeps
<1>5. QED
  BY <1>3, <1>4

LEMMA DestroyProgramKeeps ==
  ASSUME Cg!CgInv, NEW t \in CgThreads, Cg!DestroyProgram(t)
  PROVE  Cg!CgInv'
<1>1. UNCHANGED <<cgObjects, cgStrings, copies>>
  BY DEF Cg!DestroyProgram
<1>2. PICK h \in DOMAIN cgObjects :
        /\ cgObjects[h] \in Cg!Live
        /\ buffers' = Cg!Without(buffers, cgObjects[h])
        /\ listing' = [b \in DOMAIN listing |-> IF b \in buffers[cgObjects[h]] THEN Cg!Nothing ELSE listing[b]]
        /\ cgDropping' = [cgDropping EXCEPT ![t] = h]
        /\ cgGiven' = {g \in cgGiven : g.owner # h}
  BY DEF Cg!DestroyProgram
<1>3. ProgramsKept /\ OwnersThere /\ TableOf(cgStrings, copies, cgGiven) /\ NotDropped /\ cgDropping[t] = 0
  BY CgSplit DEF Cg!DestroyProgram
<1>4. h \in Nat \ {0}
  BY CgIs
<1>5. Cg!Live' = Cg!Live \ {cgObjects[h]} /\ \A p \in Cg!Live' : buffers'[p] = buffers[p]
  BY <1>2 DEF Cg!Live, Cg!Without
<1>6. cgDropping' \in [CgThreads -> Nat] /\ cgDropping'[t] = h
      /\ \A u \in CgThreads \ {t} : cgDropping'[u] = cgDropping[u]
  BY <1>2, <1>3, <1>4 DEF ProgramsKept
<1>7. ProgramsKept'
  <2>1. listing' \in [Hosts -> Listings \cup {Cg!Nothing}]
    BY <1>2, <1>3 DEF ProgramsKept
  <2>2. \A p \in Cg!Live' : \A b \in buffers'[p] : listing'[b] \in Listings
    <3> SUFFICES ASSUME NEW p \in Cg!Live', NEW b \in buffers'[p] PROVE listing'[b] \in Listings
      OBVIOUS
    <3>1. p \in Cg!Live /\ b \in buffers[p] /\ p # cgObjects[h]
      BY <1>5
    <3>2. b \notin buffers[cgObjects[h]]
      BY <1>2, <1>3, <3>1 DEF ProgramsKept
    <3>3. b \in DOMAIN listing /\ listing[b] \in Listings
      BY <1>3, <3>1 DEF ProgramsKept, Hosts
    <3>4. QED
      BY <1>2, <3>2, <3>3
  <2>3. /\ Cg!Live' \subseteq Programs /\ \A p \in Cg!Live' : buffers'[p] \subseteq Buffers
        /\ \A p, q \in Cg!Live' : p # q => buffers'[p] \cap buffers'[q] = {}
    BY <1>3, <1>5 DEF ProgramsKept
  <2>4. QED
    BY <1>1, <1>3, <1>6, <2>1, <2>2, <2>3 DEF ProgramsKept, Cg!Nothing
<1>8. OwnersThere'
  <2> SUFFICES ASSUME NEW i \in DOMAIN cgStrings
               PROVE  /\ cgStrings[i].owner \in 0 .. Len(cgObjects)
                      /\ cgStrings[i].owner # 0 =>
                           \/ cgObjects[cgStrings[i].owner] \in Cg!Live'
                           \/ \E u \in CgThreads : cgDropping'[u] = cgStrings[i].owner
    BY <1>1 DEF OwnersThere
  <2> DEFINE o == cgStrings[i].owner
  <2>1. /\ o \in 0 .. Len(cgObjects)
        /\ o # 0 => cgObjects[o] \in Cg!Live \/ \E u \in CgThreads : cgDropping[u] = o
    BY <1>3 DEF OwnersThere
  <2> HIDE DEF o
  <2>2. o # 0 => o \in DOMAIN cgObjects
    BY <2>1, CgIs
  <2>3. o # 0 /\ cgObjects[o] = cgObjects[h] => o = h
    BY <1>3, <2>2 DEF ProgramsKept
  <2>4. o # 0 => cgObjects[o] \in Cg!Live' \/ \E u \in CgThreads : cgDropping'[u] = o
    <3>1. CASE o # 0 /\ cgObjects[o] \in Cg!Live
      BY <1>5, <1>6, <2>3, <3>1
    <3>2. CASE o # 0 /\ \E u \in CgThreads : cgDropping[u] = o
      BY <1>3, <1>6, <3>2
    <3>3. QED
      BY <2>1, <3>1, <3>2
  <2>5. QED
    BY <2>1, <2>4 DEF o
<1>9. TableOf(cgStrings, copies, cgGiven)'
  BY <1>1, <1>2, <1>3 DEF TableOf
<1>10. NotDropped'
  <2>1. \A g \in cgGiven' : g \in cgGiven /\ g.owner # h
    BY <1>2
  <2>2. QED
    BY <1>3, <1>6, <2>1 DEF NotDropped
<1>11. (cgStrings \in Seq(CgEntry) /\ DOMAIN copies \subseteq GuestBlocks)'
  <2>1. cgStrings \in Seq(CgEntry) /\ DOMAIN copies \subseteq GuestBlocks
    BY CgSplit
  <2>2. QED
    BY <1>1, <2>1 DEF CgEntry, Hosts
<1>12. QED
  <2>1. (Cg!CgInv <=>
           /\ cgStrings \in Seq(CgEntry) /\ DOMAIN copies \subseteq GuestBlocks
           /\ TableOf(cgStrings, copies, cgGiven) /\ OwnersThere /\ ProgramsKept /\ NotDropped)'
    BY CgSplit, PTL
  <2>2. QED
    BY <1>7, <1>8, <1>9, <1>10, <1>11, <2>1

\* The release keeps the entries of other owners and no more, each once.
LEMMA KeptIs ==
  ASSUME Cg!CgInv, NEW h
  PROVE  \E n \in Nat : \E f \in [1 .. n -> DOMAIN cgStrings] :
           /\ Cg!Kept(h) = [i \in 1 .. n |-> cgStrings[f[i]]]
           /\ \A i, j \in 1 .. n : f[i] = f[j] => i = j
           /\ \A i \in 1 .. n : cgStrings[f[i]].owner # h
           /\ \A k \in DOMAIN cgStrings : cgStrings[k].owner # h => \E i \in 1 .. n : f[i] = k
<1> DEFINE left == DOMAIN cgStrings \ Cg!Mine(h)
           n == Cardinality(left)
           Apart(f) == \A i, j \in DOMAIN f : f[i] = f[j] => i = j
           order == CHOOSE f \in [1 .. Cg!Cardinality(left) -> left] : Apart(f)
<1>1. IsFiniteSet(left) /\ n \in Nat /\ ExistsBijection(1 .. n, left)
  <2>1. Len(cgStrings) \in Nat /\ DOMAIN cgStrings = 1 .. Len(cgStrings)
    BY CgIs
  <2>2. IsFiniteSet(1 .. Len(cgStrings))
    BY <2>1, FS_Interval
  <2>3. IsFiniteSet(left)
    BY <2>1, <2>2, FS_Subset
  <2>4. QED
    BY <2>3, FS_CardinalityType
<1>2. Cg!Cardinality(left) = n
  BY DEF Cg!Cardinality, Cardinality
<1>3. Cg!Kept(h) = [i \in DOMAIN order |-> cgStrings[order[i]]]
  BY Zenon DEF Cg!Kept
<1>4. \A k : k \in left <=> k \in DOMAIN cgStrings /\ cgStrings[k].owner # h
  BY DEF Cg!Mine
<1> HIDE DEF left, n
<1>5. order \in [1 .. n -> left] /\ Apart(order)
  <2>1. \E f \in [1 .. n -> left] : Apart(f)
    BY <1>1 DEF ExistsBijection, Bijection, Injection, IsInjective
  <2> HIDE DEF Apart
  <2>2. QED
    BY <1>2, <2>1
<1> HIDE DEF order
<1>6. order \in Injection(1 .. n, left)
  BY <1>5 DEF Injection, IsInjective
<1>7. IsFiniteSet(1 .. n) /\ Cardinality(1 .. n) = n
  BY <1>1, FS_Interval
<1>8. order \in Surjection(1 .. n, left)
  BY <1>1, <1>6, <1>7, FS_Injection DEF n
<1>9. \A k \in left : \E i \in 1 .. n : order[i] = k
  BY <1>8 DEF Surjection
<1>10. order \in [1 .. n -> DOMAIN cgStrings] /\ DOMAIN order = 1 .. n
  BY <1>4, <1>5
<1>11. \A i \in 1 .. n : cgStrings[order[i]].owner # h
  BY <1>4, <1>5
<1>12. \A i, j \in 1 .. n : order[i] = order[j] => i = j
  BY <1>5
<1> HIDE DEF Apart
<1>13. QED
  BY <1>1, <1>3, <1>4, <1>9, <1>10, <1>11, <1>12

LEMMA ReleasesKeeps ==
  ASSUME Cg!CgInv, NEW t \in CgThreads, Cg!Releases(t)
  PROVE  Cg!CgInv'
<1> DEFINE h == cgDropping[t]
<1>1. /\ UNCHANGED <<cgObjects, buffers, listing, cgGiven>> /\ h # 0
      /\ cgStrings' = Cg!Kept(h)
      /\ copies' = [g \in {cgStrings'[i].guest : i \in DOMAIN cgStrings'} \ {0} |-> copies[g]]
      /\ cgDropping' = [cgDropping EXCEPT ![t] = 0]
  BY DEF Cg!Releases
<1>2. ProgramsKept /\ OwnersThere /\ TableOf(cgStrings, copies, cgGiven) /\ NotDropped
  BY CgSplit
<1>3. PICK n \in Nat : \E f \in [1 .. n -> DOMAIN cgStrings] :
        /\ Cg!Kept(h) = [i \in 1 .. n |-> cgStrings[f[i]]]
        /\ \A i, j \in 1 .. n : f[i] = f[j] => i = j
        /\ \A i \in 1 .. n : cgStrings[f[i]].owner # h
        /\ \A k \in DOMAIN cgStrings : cgStrings[k].owner # h => \E i \in 1 .. n : f[i] = k
  BY KeptIs, Zenon
<1>4. PICK f \in [1 .. n -> DOMAIN cgStrings] :
        /\ cgStrings' = [i \in 1 .. n |-> cgStrings[f[i]]]
        /\ \A i, j \in 1 .. n : f[i] = f[j] => i = j
        /\ \A i \in 1 .. n : cgStrings[f[i]].owner # h
        /\ \A k \in DOMAIN cgStrings : cgStrings[k].owner # h => \E i \in 1 .. n : f[i] = k
  BY <1>1, <1>3, Zenon
<1>5. \A k \in DOMAIN cgStrings : cgStrings[k] \in CgEntry
  BY CgIs
<1>6. cgStrings' \in Seq(CgEntry)
  BY <1>4, <1>5
<1>7. /\ DOMAIN cgStrings' = 1 .. n
      /\ \A i \in 1 .. n : f[i] \in DOMAIN cgStrings /\ cgStrings'[i] = cgStrings[f[i]] /\ cgStrings'[i].owner # h
  BY <1>4
<1>8. /\ \A x \in DOMAIN copies' : copies'[x] = copies[x]
      /\ \A i \in 1 .. n : cgStrings'[i].guest # 0 => cgStrings'[i].guest \in DOMAIN copies'
      /\ \A x \in DOMAIN copies' : x # 0 /\ \E i \in 1 .. n : cgStrings'[i].guest = x
  BY <1>1, <1>7
<1>9. DOMAIN copies' \subseteq GuestBlocks
  BY <1>5, <1>7, <1>8 DEF CgEntry
<1>10. TableOf(cgStrings', copies', cgGiven')
  <2>1. \A i, j \in 1 .. n : cgStrings'[i].host = cgStrings'[j].host /\ cgStrings'[i].owner = cgStrings'[j].owner => i = j
    <3>1. \A k, l \in DOMAIN cgStrings :
            cgStrings[k].host = cgStrings[l].host /\ cgStrings[k].owner = cgStrings[l].owner => k = l
      BY <1>2 DEF TableOf
    <3>2. QED
      BY <1>4, <1>7, <3>1
  <2>2. \A i \in 1 .. n : IF cgStrings'[i].guest = 0 THEN cgStrings'[i].capacity = 0
                         ELSE cgStrings'[i].guest \in DOMAIN copies'
    <3>1. \A k \in DOMAIN cgStrings : cgStrings[k].guest = 0 => cgStrings[k].capacity = 0
      BY <1>2 DEF TableOf
    <3>2. QED
      BY <1>7, <1>8, <3>1
  <2>3. \A i, j \in 1 .. n : i # j /\ cgStrings'[i].guest # 0 => cgStrings'[i].guest # cgStrings'[j].guest
    <3>1. \A k, l \in DOMAIN cgStrings : k # l /\ cgStrings[k].guest # 0 => cgStrings[k].guest # cgStrings[l].guest
      BY <1>2 DEF TableOf
    <3>2. QED
      BY <1>4, <1>7, <3>1
  <2>4. ASSUME NEW g \in cgGiven
        PROVE  /\ g.guest \in DOMAIN copies' /\ copies'[g.guest] = g.listing
               /\ \E i \in 1 .. n : /\ cgStrings'[i].host = g.host /\ cgStrings'[i].owner = g.owner
                                    /\ cgStrings'[i].guest = g.guest
    <3>1. PICK k \in DOMAIN cgStrings : /\ cgStrings[k].host = g.host /\ cgStrings[k].owner = g.owner
                                        /\ cgStrings[k].guest = g.guest
      BY <1>2 DEF TableOf
    <3>2. g.guest \in DOMAIN copies /\ copies[g.guest] = g.listing
      BY <1>2 DEF TableOf
    <3>3. g.owner # h
      BY <1>1, <1>2 DEF NotDropped
    <3>4. PICK i \in 1 .. n : f[i] = k
      BY <1>4, <3>1, <3>3
    <3>5. cgStrings'[i] = cgStrings[k]
      BY <1>7, <3>4
    <3>6. g.guest # 0
      BY <3>2, CgIs
    <3>7. g.guest \in DOMAIN copies'
      BY <1>8, <3>1, <3>5, <3>6
    <3>8. QED
      BY <1>8, <3>1, <3>2, <3>5, <3>7
  <2>5. DOMAIN cgStrings' = 1 .. n /\ cgGiven' = cgGiven
    BY <1>1, <1>7
  <2>6. \A g \in cgGiven' :
          /\ g.guest \in DOMAIN copies' /\ copies'[g.guest] = g.listing
          /\ \E i \in DOMAIN cgStrings' : /\ cgStrings'[i].host = g.host /\ cgStrings'[i].owner = g.owner
                                          /\ cgStrings'[i].guest = g.guest
    BY <2>4, <2>5
  <2>7. QED
    BY <2>1, <2>2, <2>3, <2>5, <2>6 DEF TableOf
<1>11. cgDropping' \in [CgThreads -> Nat] /\ cgDropping'[t] = 0
       /\ \A u \in CgThreads \ {t} : cgDropping'[u] = cgDropping[u]
  BY <1>1, <1>2 DEF ProgramsKept
<1>12. OwnersThere'
  <2> SUFFICES ASSUME NEW i \in 1 .. n
               PROVE  /\ cgStrings'[i].owner \in 0 .. Len(cgObjects)
                      /\ cgStrings'[i].owner # 0 =>
                           \/ cgObjects[cgStrings'[i].owner] \in Cg!Live
                           \/ \E u \in CgThreads : cgDropping'[u] = cgStrings'[i].owner
    BY <1>1, <1>7 DEF OwnersThere, Cg!Live
  <2>1. f[i] \in DOMAIN cgStrings /\ cgStrings'[i] = cgStrings[f[i]] /\ cgStrings'[i].owner # h
    BY <1>7
  <2>2. /\ cgStrings'[i].owner \in 0 .. Len(cgObjects)
        /\ cgStrings'[i].owner # 0 => \/ cgObjects[cgStrings'[i].owner] \in Cg!Live
                                      \/ \E u \in CgThreads : cgDropping[u] = cgStrings'[i].owner
    BY <1>2, <2>1 DEF OwnersThere
  <2>3. \A u \in CgThreads : cgDropping[u] = cgStrings'[i].owner => cgDropping'[u] = cgStrings'[i].owner
    BY <1>11, <2>1
  <2>4. QED
    BY <2>2, <2>3
<1>13. ProgramsKept'
  BY <1>1, <1>2, <1>11 DEF ProgramsKept, Cg!Live, Cg!Nothing
<1>14. NotDropped'
  BY <1>1, <1>2, <1>11 DEF NotDropped
<1>15. QED
  <2>1. (Cg!CgInv <=>
           /\ cgStrings \in Seq(CgEntry) /\ DOMAIN copies \subseteq GuestBlocks
           /\ TableOf(cgStrings, copies, cgGiven) /\ OwnersThere /\ ProgramsKept /\ NotDropped)'
    BY CgSplit, PTL
  <2>2. (cgStrings \in Seq(CgEntry))'
    BY <1>6 DEF CgEntry, Hosts
  <2>3. TableOf(cgStrings, copies, cgGiven)'
    BY <1>10
  <2>4. QED
    BY <1>9, <1>12, <1>13, <1>14, <2>1, <2>2, <2>3

\* CgSound, where one thread uses Cg.
LEMMA CgInvariant == Cg!OneCgThread => (Spec => []Cg!CgSound)
<1> SUFFICES ASSUME Cg!OneCgThread PROVE Spec => []Cg!CgSound
  OBVIOUS
<1>1. Cg!CgInit => Cg!CgInv
  BY InitCg
<1>2. Cg!CgInv /\ [Cg!CgNext]_(Cg!cgVars) => Cg!CgInv'
  <2> SUFFICES ASSUME Cg!CgInv, [Cg!CgNext]_(Cg!cgVars) PROVE Cg!CgInv'
    OBVIOUS
  <2>1. CASE UNCHANGED Cg!cgVars
    <3>1. (Cg!CgInv <=>
             /\ cgStrings \in Seq(CgEntry) /\ DOMAIN copies \subseteq GuestBlocks
             /\ TableOf(cgStrings, copies, cgGiven) /\ OwnersThere /\ ProgramsKept /\ NotDropped)'
      BY CgSplit, PTL
    <3>2. /\ cgStrings \in Seq(CgEntry) /\ DOMAIN copies \subseteq GuestBlocks
          /\ TableOf(cgStrings, copies, cgGiven) /\ OwnersThere /\ ProgramsKept /\ NotDropped
      BY CgSplit
    <3>3. (/\ cgStrings \in Seq(CgEntry) /\ DOMAIN copies \subseteq GuestBlocks
           /\ TableOf(cgStrings, copies, cgGiven) /\ OwnersThere /\ ProgramsKept /\ NotDropped)'
      BY <2>1, <3>2
      DEF Cg!cgVars, CgEntry, Hosts, TableOf, OwnersThere, ProgramsKept, NotDropped, Cg!Live, Cg!Nothing
    <3>4. QED
      BY <3>1, <3>3
  <2>2. CASE Cg!CgNext
    <3>1. PICK t \in CgThreads :
            \/ Cg!CreateProgram(t) \/ Cg!GetProgramString(t) \/ Cg!GetLastListing(t)
            \/ Cg!DestroyProgram(t) \/ Cg!Releases(t)
      BY <2>2 DEF Cg!CgNext
    <3>2. QED
      BY <3>1, CreateProgramKeeps, GetKeeps, DestroyProgramKeeps, ReleasesKeeps
  <2>3. QED
    BY <2>1, <2>2
<1>3. Cg!CgInv => Cg!CgSound
  BY DEF Cg!CgInv
<1>4. QED
  BY <1>1, <1>2, <1>3, CgBehaves, PTL DEF Cg!CgSpec

\* Each table gives out what its key stands for, whatever its size and whoever
\* shares it; for Cg's, where one thread uses Cg: with two, a program could be made
\* again under the handle that another thread is still dropping the strings of.
THEOREM ComponentTablesSound == Cg!OneCgThread => (Spec => []TablesSound)
<1> SUFFICES ASSUME Cg!OneCgThread PROVE Spec => []TablesSound
  OBVIOUS
<1>1. Mutexes!MutexesSound /\ Directories!DirectoriesSound /\ Cg!CgSound /\ Once!OnceSound => TablesSound
  BY Zenon DEF TablesSound
<1>2. Directories!DirsInv => Directories!DirectoriesSound
  BY DEF Directories!DirsInv
<1>3. Once!OnceInv => Once!OnceSound
  BY DEF Once!OnceInv
<1>4. Spec => []Cg!CgSound
  BY CgInvariant
<1>5. QED
  BY <1>1, <1>2, <1>3, <1>4, MutexesInvariant, DirsBehave, DirsInvariant, OnceBehaves, OnceInvariant, PTL

-----------------------------------------------------------------------------
(* The strings *)

LEMMA StringsAssumed == Strings!StringsAssumption
BY ComponentsAssumption

LEMMA StringsBehave == Spec => Strings!StringsSpec
<1>1. Init => Strings!StringsInit
  BY DEF Init
<1>2. [Next]_vars => [Strings!StringsNext]_(Strings!stringVars)
  BY DEF Next, Alone, vars, stringVars, Strings!stringVars
<1>3. QED
  BY <1>1, <1>2, PTL DEF Spec, Strings!StringsSpec

\* As long as the bridge has not overwritten a copy.
Intact == Strings!StringsInv /\ ~ copyErased

LEMMA StringsAre ==
  ASSUME Intact
  PROVE  /\ rep \in [Strings!Objects -> Reps \cup {Null}] /\ refs \in [Reps -> Int] /\ live \subseteq Reps
         /\ disposal \in [StringThreads ->
              [at : {"none", "read", "write", "free"}, of : Reps \cup {Null}, seen : Int]]
         /\ dropErased \subseteq live /\ Null \notin Reps
         /\ IsFiniteSet(Strings!Objects) /\ IsFiniteSet(StringThreads)
         /\ \A o \in Strings!Objects : OwnerOf[o] \in StringThreads
<1>1. IsFiniteSet(Strings!Objects) /\ IsFiniteSet(StringThreads)
  BY StringsAssumed DEF Strings!StringsAssumption, Strings!Objects, Strings!IsFiniteSet, IsFiniteSet
<1>2. QED
  BY <1>1, StringsAssumed DEF Intact, Strings!StringsInv, Strings!StringsTyped,
                              Strings!StringsAssumption, Strings!Objects

\* The count of one representation.
CountOf(r) ==
  \/ r \in dropErased /\ refs[r] >= Strings!Shares(r)
  \/ r \notin dropErased /\ Strings!LastDropped(r)
  \/ r \notin dropErased /\ refs[r] = Strings!Shares(r) - 1 /\ Strings!Shares(r) >= 1

LEMMA CountsOf == Strings!CountsMatch <=> \A r \in live : CountOf(r)
BY DEF Strings!CountsMatch, CountOf

LEMMA SharesAre ==
  ASSUME Intact, NEW r
  PROVE  /\ IsFiniteSet(Strings!Having(r)) /\ IsFiniteSet(Strings!Disposing(r))
         /\ Cardinality(Strings!Having(r)) \in Nat /\ Cardinality(Strings!Disposing(r)) \in Nat
         /\ Strings!Shares(r) = Cardinality(Strings!Having(r)) + Cardinality(Strings!Disposing(r))
<1>1. Strings!Having(r) \in SUBSET Strings!Objects /\ Strings!Disposing(r) \in SUBSET StringThreads
  BY DEF Strings!Having, Strings!Disposing
<1>2. IsFiniteSet(Strings!Having(r)) /\ IsFiniteSet(Strings!Disposing(r))
  BY <1>1, StringsAre, FS_Subset
<1>3. Strings!Shares(r) = Cardinality(Strings!Having(r)) + Cardinality(Strings!Disposing(r))
  BY DEF Strings!Shares, Strings!Cardinality, Cardinality
<1>4. QED
  BY <1>2, <1>3, FS_CardinalityType

LEMMA SharesAfter ==
  ASSUME NEW r
  PROVE  Strings!Shares(r)' = Cardinality(Strings!Having(r)') + Cardinality(Strings!Disposing(r)')
BY DEF Strings!Shares, Strings!Cardinality, Cardinality

LEMMA CountNext ==
  ASSUME NEW S, NEW x, IsFiniteSet(S)
  PROVE  /\ x \notin S => Cardinality(S \cup {x}) = Cardinality(S) + 1
         /\ x \in S => Cardinality(S \ {x}) = Cardinality(S) - 1 /\ Cardinality(S) >= 1
         /\ Cardinality(S) = 0 => S = {}
         /\ Cardinality(S) = 1 /\ x \in S => S = {x}
<1>1. Cardinality(S) \in Nat
  BY FS_CardinalityType
<1>2. x \notin S => Cardinality(S \cup {x}) = Cardinality(S) + 1
  BY FS_AddElement
<1>3. x \in S => Cardinality(S \ {x}) = Cardinality(S) - 1
  BY FS_RemoveElement
<1>4. Cardinality(S) = 0 <=> S = {}
  BY FS_EmptySet
<1>5. x \in S => Cardinality(S) >= 1
  BY <1>1, <1>4
<1>6. Cardinality(S) = 1 => \E y : S = {y}
  BY FS_Singleton
<1>7. QED
  BY <1>2, <1>3, <1>4, <1>5, <1>6

\* What nothing changes of a representation, and how far one that is disposed of gets.
LEMMA CountKept ==
  ASSUME NEW r, CountOf(r), Strings!Having(r)' = Strings!Having(r),
         Strings!Disposing(r)' = Strings!Disposing(r), refs'[r] = refs[r],
         r \in dropErased' <=> r \in dropErased,
         refs[r] = -1 => \A u \in Strings!Disposing(r) :
           disposal[u].at \in {"read", "free"} => disposal'[u].at \in {"read", "free"}
  PROVE  CountOf(r)'
<1>1. Strings!Shares(r)' = Strings!Shares(r)
  BY DEF Strings!Shares, Strings!Cardinality
<1>2. CASE r \notin dropErased /\ Strings!LastDropped(r)
  <2>1. PICK t \in StringThreads : Strings!Disposing(r) = {t} /\ disposal[t].at \in {"read", "free"}
    BY <1>2 DEF Strings!LastDropped
  <2>2. refs'[r] = -1 /\ Strings!Having(r)' = {}
    BY <1>2 DEF Strings!LastDropped
  <2>3. disposal'[t].at \in {"read", "free"} /\ Strings!Disposing(r)' = {t}
    BY <1>2, <2>1 DEF Strings!LastDropped
  <2>4. Strings!LastDropped(r)'
    BY <2>2, <2>3 DEF Strings!LastDropped
  <2>5. QED
    BY <1>2, <2>4 DEF CountOf
<1>3. CASE ~ (r \notin dropErased /\ Strings!LastDropped(r))
  BY <1>1, <1>3 DEF CountOf
<1>4. QED
  BY <1>2, <1>3

\* And what moves with those that share it; when one leaves inline, others stay.
LEMMA CountMoves ==
  ASSUME NEW r, NEW d \in {-1, 0, 1}, ~ Strings!LastDropped(r), CountOf(r), refs[r] \in Int,
         Strings!Shares(r) \in Int, r \in dropErased' <=> r \in dropErased,
         refs'[r] = refs[r] + d, Strings!Shares(r)' = Strings!Shares(r) + d,
         d = -1 => refs[r] > 0
  PROVE  CountOf(r)'
BY DEF CountOf

\* A representation that an object has, or that nobody has dropped inline, is counted.
LEMMA Counted ==
  ASSUME Intact, NEW o \in Strings!Objects, rep[o] # Null
  PROVE  /\ rep[o] \in live /\ o \in Strings!Having(rep[o])
         /\ CountOf(rep[o]) /\ ~ Strings!LastDropped(rep[o])
         /\ \A u \in StringThreads : disposal[u].of = rep[o] => disposal[u].at # "free"
<1>1. rep[o] \in live /\ o \in Strings!Having(rep[o])
  BY DEF Intact, Strings!StringsInv, Strings!StringsStayAlive, Strings!Having
<1>2. CountOf(rep[o]) /\ ~ Strings!LastDropped(rep[o])
  BY <1>1, CountsOf DEF Intact, Strings!StringsInv, Strings!LastDropped
<1>3. \A u \in StringThreads : disposal[u].of = rep[o] => disposal[u].at # "free"
  BY <1>1 DEF Intact, Strings!StringsInv, Strings!DisposalsMatch
<1>4. QED
  BY <1>1, <1>2, <1>3

\* A calm thread disposes of nothing.
LEMMA CalmDisposesNothing ==
  ASSUME Intact, NEW t \in StringThreads
  PROVE  /\ Strings!Calm(t) => disposal[t].of = Null /\ disposal[t].at = "none"
         /\ disposal[t].at # "none" => disposal[t].of \in live
         /\ disposal[t].of \in Reps => disposal[t].at # "none"
<1>1. /\ disposal[t].at = "none" => disposal[t] = Strings!NoDisposal
      /\ disposal[t].at # "none" => disposal[t].of \in live
  BY DEF Intact, Strings!StringsInv, Strings!DisposalsMatch
<1>2. QED
  BY <1>1, StringsAssumed DEF Strings!Calm, Strings!NoDisposal, Strings!StringsAssumption

\* What is not allocated is nobody's.
LEMMA FreeIsNobodys ==
  ASSUME Intact, NEW r \in Reps \ live
  PROVE  Strings!Having(r) = {} /\ Strings!Disposing(r) = {}
<1>1. Strings!Having(r) = {}
  BY StringsAre DEF Intact, Strings!StringsInv, Strings!StringsStayAlive, Strings!Having
<1>2. Strings!Disposing(r) = {}
  BY CalmDisposesNothing DEF Strings!Disposing
<1>3. QED
  BY <1>1, <1>2

MatchOf(t) ==
  /\ disposal[t].at = "none" => disposal[t] = Strings!NoDisposal
  /\ disposal[t].at # "none" => disposal[t].of \in live
  /\ disposal[t].at = "write" => disposal[t].seen > 0
  /\ disposal[t].at = "free" =>
       /\ Strings!Having(disposal[t].of) = {} /\ Strings!Disposing(disposal[t].of) = {t}
       /\ disposal[t].of \notin dropErased

OneWriter ==
  \A t, u \in StringThreads : disposal[t].at = "write" /\ disposal[u].at = "write" => u = t

LEMMA MatchesOf == Strings!DisposalsMatch <=> OneWriter /\ \A t \in StringThreads : MatchOf(t)
BY DEF Strings!DisposalsMatch, OneWriter, MatchOf

LEMMA Matched ==
  ASSUME Intact
  PROVE  /\ OneWriter /\ \A t \in StringThreads : MatchOf(t)
         /\ \A r \in live : CountOf(r)
         /\ \A o \in Strings!Objects : rep[o] # Null => rep[o] \in live
BY MatchesOf, CountsOf DEF Intact, Strings!StringsInv, Strings!StringsStayAlive

\* A thread whose representation others leave alone keeps what its disposal says.
LEMMA MatchKept ==
  ASSUME NEW t \in StringThreads, MatchOf(t), disposal'[t] = disposal[t],
         disposal[t].at # "none" => disposal[t].of \in live',
         disposal[t].at = "free" =>
           /\ \A o \in Strings!Objects : rep'[o] = disposal[t].of => rep[o] = disposal[t].of
           /\ \A u \in StringThreads : disposal'[u].of = disposal[t].of => disposal[u].of = disposal[t].of
           /\ disposal[t].of \in dropErased' => disposal[t].of \in dropErased
  PROVE  MatchOf(t)'
<1>1. disposal[t].at = "none" => disposal'[t] = Strings!NoDisposal
  BY DEF MatchOf
<1>2. disposal[t].at = "write" => disposal'[t].seen > 0
  BY DEF MatchOf
<1>3. ASSUME disposal[t].at = "free"
      PROVE  /\ {o \in Strings!Objects : rep'[o] = disposal'[t].of} = {}
             /\ {u \in StringThreads : disposal'[u].of = disposal'[t].of} = {t}
             /\ disposal'[t].of \notin dropErased'
  <2>1. Strings!Having(disposal[t].of) = {} /\ Strings!Disposing(disposal[t].of) = {t}
    BY <1>3 DEF MatchOf
  <2>2. \A o \in Strings!Objects : rep[o] # disposal[t].of
    BY <2>1 DEF Strings!Having
  <2>3. \A u \in StringThreads : disposal[u].of = disposal[t].of => u = t
    BY <2>1 DEF Strings!Disposing
  <2>4. disposal'[t].of \notin dropErased'
    BY <1>3 DEF MatchOf
  <2>5. QED
    BY <1>3, <2>2, <2>3, <2>4
<1>4. QED
  BY <1>1, <1>2, <1>3 DEF MatchOf, Strings!Having, Strings!Disposing, Strings!NoDisposal, Strings!Objects

\* The invariant is made of the counts and the disposals.
LEMMA StringsMade ==
  ASSUME rep' \in [Strings!Objects -> Reps \cup {Null}], refs' \in [Reps -> Int], live' \subseteq Reps,
         disposal' \in [StringThreads ->
           [at : {"none", "read", "write", "free"}, of : Reps \cup {Null}, seen : Int]],
         dropErased' \subseteq live',
         \A r \in live' : CountOf(r)',
         OneWriter', \A t \in StringThreads : MatchOf(t)',
         \A o \in Strings!Objects : rep'[o] # Null => rep'[o] \in live'
  PROVE  Strings!StringsInv'
<1>1. Strings!CountsMatch'
  BY DEF Strings!CountsMatch, CountOf
<1>2. Strings!DisposalsMatch'
  BY DEF Strings!DisposalsMatch, OneWriter, MatchOf
<1>3. Strings!StringsStayAlive'
  BY DEF Strings!StringsStayAlive, Strings!Objects
<1>4. QED
  BY <1>1, <1>2, <1>3 DEF Strings!StringsInv, Strings!StringsTyped, Strings!Objects

LEMMA FreshIs ==
  ASSUME Intact, live # Reps
  PROVE  Strings!Fresh \in Reps /\ Strings!Fresh \notin live
BY StringsAre DEF Strings!Fresh

LEMMA InitStrings == Strings!StringsInit => Strings!StringsInv
<1> SUFFICES ASSUME Strings!StringsInit PROVE Strings!StringsInv
  OBVIOUS
<1>1. /\ rep \in [Strings!Objects -> Reps \cup {Null}] /\ refs \in [Reps -> Int] /\ live \subseteq Reps
      /\ disposal \in [StringThreads ->
           [at : {"none", "read", "write", "free"}, of : Reps \cup {Null}, seen : Int]]
  BY DEF Strings!StringsInit, Strings!NoDisposal
<1>2. Strings!CountsMatch /\ dropErased \subseteq live /\ Strings!StringsStayAlive
  BY DEF Strings!StringsInit, Strings!CountsMatch, Strings!StringsStayAlive
<1>3. \A t \in StringThreads : disposal[t] = Strings!NoDisposal /\ disposal[t].at = "none"
  BY DEF Strings!StringsInit, Strings!NoDisposal
<1>4. Strings!DisposalsMatch
  BY <1>3 DEF Strings!DisposalsMatch
<1>5. QED
  BY <1>1, <1>2, <1>4 DEF Strings!StringsInv, Strings!StringsTyped

LEMMA ConstructKeeps ==
  ASSUME Intact, NEW t \in StringThreads, NEW o \in Strings!Objects, Strings!Construct(t, o)
  PROVE  Strings!StringsInv'
<1>1. /\ rep[o] = Null /\ UNCHANGED <<disposal, dropErased>>
      /\ Strings!Made(o)
  BY DEF Strings!Construct, Strings!history
<1>2. PICK f \in Reps :
        /\ f \notin live /\ live' = live \cup {f}
        /\ refs' = [refs EXCEPT ![f] = 0] /\ rep' = [rep EXCEPT ![o] = f]
  BY <1>1, FreshIs DEF Strings!Made
<1>3. /\ rep' \in [Strings!Objects -> Reps \cup {Null}] /\ refs' \in [Reps -> Int] /\ live' \subseteq Reps
      /\ rep'[o] = f /\ \A p \in Strings!Objects \ {o} : rep'[p] = rep[p]
      /\ refs'[f] = 0 /\ \A r \in Reps \ {f} : refs'[r] = refs[r]
  BY <1>1, <1>2, StringsAre
<1>4. Strings!Having(f) = {} /\ Strings!Disposing(f) = {}
  BY <1>2, FreeIsNobodys
<1>5. \A r \in live' : CountOf(r)'
  <2>1. ASSUME NEW r \in live PROVE CountOf(r)'
    <3>1. r # f /\ r \in Reps /\ r # Null
      BY <1>2, StringsAre
    <3>2. Strings!Having(r)' = Strings!Having(r)
      BY <1>1, <1>3, <3>1 DEF Strings!Having
    <3>3. Strings!Disposing(r)' = Strings!Disposing(r)
      BY <1>1 DEF Strings!Disposing
    <3>4. QED
      BY <1>1, <1>3, <3>1, <3>2, <3>3, CountKept, Matched
  <2>2. CountOf(f)'
    <3>1. Strings!Having(f)' = {o}
      BY <1>3, <1>4 DEF Strings!Having
    <3>2. Strings!Disposing(f)' = {}
      BY <1>1, <1>4 DEF Strings!Disposing
    <3>3. Cardinality({o}) = 1 /\ Cardinality({}) = 0
      BY FS_Singleton, FS_EmptySet
    <3>4. Strings!Shares(f)' = 1
      <4>1. Strings!Shares(f)' = Cardinality(Strings!Having(f)') + Cardinality(Strings!Disposing(f)')
        BY SharesAfter
      <4>2. QED
        BY <3>1, <3>2, <3>3, <4>1
    <3>5. f \notin dropErased'
      BY <1>1, <1>2, StringsAre
    <3>6. QED
      BY <1>3, <3>4, <3>5 DEF CountOf
  <2>3. QED
    BY <1>2, <2>1, <2>2
<1>6. \A u \in StringThreads : MatchOf(u)'
  <2> SUFFICES ASSUME NEW u \in StringThreads PROVE MatchOf(u)'
    OBVIOUS
  <2>1. disposal[u].at # "none" => disposal[u].of \in live
    BY Matched DEF MatchOf
  <2>2. disposal[u].at # "none" => disposal[u].of \in live' /\ disposal[u].of # f /\ disposal[u].of \in Reps
    BY <1>2, <2>1, StringsAre
  <2>3. disposal[u].at # "none" =>
          \A p \in Strings!Objects : rep'[p] = disposal[u].of => rep[p] = disposal[u].of
    BY <1>3, <2>2
  <2>4. QED
    BY <1>1, <2>2, <2>3, Matched, MatchKept
<1>7. OneWriter'
  BY <1>1, Matched DEF OneWriter
<1>8. \A p \in Strings!Objects : rep'[p] # Null => rep'[p] \in live'
  BY <1>2, <1>3, Matched
<1>9. dropErased' \subseteq live'
  BY <1>1, <1>2, StringsAre
<1>10. QED
  BY <1>1, <1>3, <1>5, <1>6, <1>7, <1>8, <1>9, StringsMade, StringsAre

\* The object lets go of its representation as the thread starts to dispose of it:
\* its count stays what it was.
LEMMA LetsGoKeeps ==
  ASSUME Intact, NEW t \in StringThreads, NEW o \in Strings!Objects,
         Strings!Assign(t, o) \/ Strings!Destruct(t, o)
  PROVE  Strings!StringsInv'
<1>1. /\ Strings!Calm(t) /\ rep[o] # Null /\ Strings!Goes(t, "read", rep[o], 0)
      /\ UNCHANGED dropErased
  BY DEF Strings!Assign, Strings!Destruct, Strings!history
<1>2. PICK g \in Reps \cup {Null} :
        /\ rep' = [rep EXCEPT ![o] = g] /\ g \notin live
        /\ \/ g = Null /\ live' = live /\ refs' = refs
           \/ g \in Reps /\ live' = live \cup {g} /\ refs' = [refs EXCEPT ![g] = 0]
  <2>1. CASE Strings!Assign(t, o)
    <3>1. Strings!Made(o)
      BY <2>1 DEF Strings!Assign
    <3>2. QED
      BY <3>1, FreshIs DEF Strings!Made
  <2>2. CASE Strings!Destruct(t, o)
    <3>1. Null \notin live
      BY StringsAre
    <3>2. QED
      BY <2>2, <3>1 DEF Strings!Destruct
  <2>3. QED
    BY <2>1, <2>2
<1> DEFINE old == rep[o]
<1>3. /\ old \in live /\ old \in Reps /\ o \in Strings!Having(old) /\ refs[old] \in Int
      /\ CountOf(old) /\ ~ Strings!LastDropped(old)
      /\ \A u \in StringThreads : disposal[u].of = old => disposal[u].at # "free"
  BY <1>1, Counted, StringsAre
<1>4. disposal' = [disposal EXCEPT ![t] = [at |-> "read", of |-> old, seen |-> 0]]
  BY <1>1 DEF Strings!Goes
<1>5. /\ rep' \in [Strings!Objects -> Reps \cup {Null}] /\ refs' \in [Reps -> Int] /\ live' \subseteq Reps
      /\ rep'[o] = g /\ \A p \in Strings!Objects \ {o} : rep'[p] = rep[p]
      /\ \A r \in live : refs'[r] = refs[r] /\ r \in live' /\ r # g
  BY <1>2, StringsAre
<1>6. /\ disposal' \in [StringThreads ->
           [at : {"none", "read", "write", "free"}, of : Reps \cup {Null}, seen : Int]]
      /\ disposal'[t] = [at |-> "read", of |-> old, seen |-> 0]
      /\ \A u \in StringThreads \ {t} : disposal'[u] = disposal[u]
  BY <1>3, <1>4, StringsAre
<1>7. disposal[t].of = Null /\ disposal[t].at = "none"
  BY <1>1, CalmDisposesNothing
<1>8. ASSUME NEW r \in live PROVE CountOf(r)'
  <2>1. r # Null /\ r \in Reps
    BY StringsAre
  <2>2. CASE r # old
    <3>1. Strings!Having(r)' = Strings!Having(r)
      BY <1>5, <2>2 DEF Strings!Having
    <3>2. Strings!Disposing(r)' = Strings!Disposing(r)
      BY <1>6, <1>7, <2>1, <2>2 DEF Strings!Disposing
    <3>3. \A u \in Strings!Disposing(r) : disposal'[u] = disposal[u]
      BY <1>6, <1>7, <2>1 DEF Strings!Disposing
    <3>4. QED
      BY <1>1, <1>5, <3>1, <3>2, <3>3, CountKept, Matched
  <2>3. CASE r = old
    <3>1. Strings!Having(r)' = Strings!Having(r) \ {o}
      BY <1>5, <2>3 DEF Strings!Having
    <3>2. Strings!Disposing(r)' = Strings!Disposing(r) \cup {t} /\ t \notin Strings!Disposing(r)
      BY <1>6, <1>7, <2>1, <2>3 DEF Strings!Disposing
    <3>3. /\ Cardinality(Strings!Having(r) \ {o}) = Cardinality(Strings!Having(r)) - 1
          /\ Cardinality(Strings!Disposing(r) \cup {t}) = Cardinality(Strings!Disposing(r)) + 1
          /\ Cardinality(Strings!Having(r)) >= 1
      BY <1>3, <2>3, <3>2, SharesAre, CountNext
    <3>4. Strings!Shares(r)' = Strings!Shares(r) + 0 /\ Strings!Shares(r) \in Int
      <4>1. Strings!Shares(r)' = Cardinality(Strings!Having(r)') + Cardinality(Strings!Disposing(r)')
        BY SharesAfter
      <4>2. QED
        BY <3>1, <3>2, <3>3, <4>1, SharesAre
    <3>5. refs'[r] = refs[r] + 0
      BY <1>3, <1>5, <2>3
    <3>6. QED
      BY <1>1, <1>3, <2>3, <3>4, <3>5, CountMoves
  <2>4. QED
    BY <2>2, <2>3
<1>9. ASSUME g \in Reps PROVE CountOf(g)'
  <2>1. Strings!Having(g) = {} /\ Strings!Disposing(g) = {}
    BY <1>2, <1>9, FreeIsNobodys
  <2>2. Strings!Having(g)' = {o}
    BY <1>5, <2>1 DEF Strings!Having
  <2>3. Strings!Disposing(g)' = {}
    <3>1. g # old
      BY <1>2, <1>3
    <3>2. QED
      BY <1>6, <2>1, <3>1 DEF Strings!Disposing
  <2>4. Strings!Shares(g)' = 1
    <3>1. Strings!Shares(g)' = Cardinality(Strings!Having(g)') + Cardinality(Strings!Disposing(g)')
      BY SharesAfter
    <3>2. Cardinality({o}) = 1 /\ Cardinality({}) = 0
      BY FS_Singleton, FS_EmptySet
    <3>3. QED
      BY <2>2, <2>3, <3>1, <3>2
  <2>5. refs'[g] = 0 /\ g \notin dropErased'
    BY <1>1, <1>2, <1>9, StringsAre
  <2>6. QED
    BY <2>4, <2>5 DEF CountOf
<1>10. \A r \in live' : CountOf(r)'
  <2>1. \A r \in live' : r \in live \/ (g \in Reps /\ r = g)
    BY <1>2
  <2>2. QED
    BY <1>8, <1>9, <2>1
<1>11. \A u \in StringThreads : MatchOf(u)'
  <2>1. ASSUME NEW u \in StringThreads \ {t} PROVE MatchOf(u)'
    <3>1. disposal[u].at # "none" => disposal[u].of \in live
      BY Matched DEF MatchOf
    <3>2. disposal[u].at # "none" =>
            \A p \in Strings!Objects : rep'[p] = disposal[u].of => rep[p] = disposal[u].of
      BY <1>5, <3>1
    <3>3. disposal[u].at = "free" =>
            \A v \in StringThreads : disposal'[v].of = disposal[u].of => disposal[v].of = disposal[u].of
      BY <1>3, <1>6
    <3>4. QED
      BY <1>1, <1>5, <1>6, <3>1, <3>2, <3>3, Matched, MatchKept
  <2>2. MatchOf(t)'
    <3>1. disposal'[t].at = "read" /\ disposal'[t].of \in live'
      BY <1>3, <1>5, <1>6
    <3>2. QED
      BY <3>1 DEF MatchOf
  <2>3. QED
    BY <2>1, <2>2
<1>12. OneWriter'
  BY <1>6, Matched DEF OneWriter
<1>13. \A p \in Strings!Objects : rep'[p] # Null => rep'[p] \in live'
  <2>1. \A p \in Strings!Objects \ {o} : rep[p] # Null => rep[p] \in live'
    BY <1>5, Matched
  <2>2. g # Null => g \in live'
    BY <1>2
  <2>3. QED
    BY <1>5, <2>1, <2>2
<1>14. dropErased' \subseteq live'
  BY <1>1, <1>5, StringsAre
<1>15. QED
  BY <1>5, <1>6, <1>10, <1>11, <1>12, <1>13, <1>14, StringsMade

\* What is freed is the last one's, and what is lowered is not.
LEMMA DisposeReadsKeeps ==
  ASSUME Intact, NEW t \in StringThreads, Strings!DisposeReads(t)
  PROVE  Strings!StringsInv'
<1> DEFINE r == disposal[t].of
<1>1. /\ disposal[t].at = "read" /\ ~ Strings!Locked /\ UNCHANGED <<rep, refs, live, dropErased>>
      /\ IF r \notin live THEN Strings!Goes(t, "none", Null, 0)
         ELSE IF Strings!Shared(refs[r]) THEN Strings!Goes(t, "write", r, refs[r])
         ELSE Strings!Goes(t, "free", r, 0)
  BY DEF Strings!DisposeReads, Strings!history
<1>2. r \in live /\ r \in Reps /\ refs[r] \in Int
  BY <1>1, CalmDisposesNothing, StringsAre
<1>3. \A u \in StringThreads : disposal[u].at # "write"
  BY <1>1 DEF Strings!Locked
<1>4. PICK at \in {"write", "free"}, seen \in Int :
        /\ disposal' = [disposal EXCEPT ![t] = [at |-> at, of |-> r, seen |-> seen]]
        /\ at = "write" => seen = refs[r] /\ refs[r] > 0
        /\ at = "free" => refs[r] <= 0
  <2>1. CASE Strings!Shared(refs[r])
    BY <1>1, <1>2, <2>1 DEF Strings!Goes, Strings!Shared
  <2>2. CASE ~ Strings!Shared(refs[r])
    BY <1>1, <1>2, <2>2 DEF Strings!Goes, Strings!Shared
  <2>3. QED
    BY <2>1, <2>2
<1>5. /\ disposal' \in [StringThreads ->
           [at : {"none", "read", "write", "free"}, of : Reps \cup {Null}, seen : Int]]
      /\ disposal'[t] = [at |-> at, of |-> r, seen |-> seen]
      /\ \A u \in StringThreads \ {t} : disposal'[u] = disposal[u]
      /\ \A u \in StringThreads : disposal'[u].of = disposal[u].of
  BY <1>2, <1>4, StringsAre
<1>6. /\ \A q : Strings!Having(q)' = Strings!Having(q)
      /\ \A q : Strings!Disposing(q)' = Strings!Disposing(q)
  BY <1>1, <1>5 DEF Strings!Having, Strings!Disposing
<1>7. \A q \in live' : CountOf(q)'
  <2> SUFFICES ASSUME NEW q \in live PROVE CountOf(q)'
    BY <1>1
  <2>1. refs[q] = -1 => \A u \in Strings!Disposing(q) :
          disposal[u].at \in {"read", "free"} => disposal'[u].at \in {"read", "free"}
    BY <1>4, <1>5 DEF Strings!Disposing
  <2>2. Strings!Having(q)' = Strings!Having(q) /\ Strings!Disposing(q)' = Strings!Disposing(q)
    BY <1>6
  <2>3. QED
    BY <1>1, <2>1, <2>2, CountKept, Matched
<1>8. at = "free" =>
        Strings!Having(r) = {} /\ Strings!Disposing(r) = {t} /\ r \notin dropErased
  <2> SUFFICES ASSUME at = "free"
               PROVE  Strings!Having(r) = {} /\ Strings!Disposing(r) = {t} /\ r \notin dropErased
    OBVIOUS
  <2>1. refs[r] <= 0 /\ t \in Strings!Disposing(r)
    BY <1>4 DEF Strings!Disposing
  <2>2. CASE r \notin dropErased /\ Strings!LastDropped(r)
    BY <2>1, <2>2 DEF Strings!LastDropped
  <2>3. /\ Cardinality(Strings!Having(r)) \in Nat /\ Cardinality(Strings!Disposing(r)) \in Nat
        /\ IsFiniteSet(Strings!Having(r)) /\ IsFiniteSet(Strings!Disposing(r))
        /\ Strings!Shares(r) = Cardinality(Strings!Having(r)) + Cardinality(Strings!Disposing(r))
    BY SharesAre
  <2>4. Cardinality(Strings!Disposing(r)) >= 1
    BY <2>1, <2>3, CountNext
  <2>5. CASE r \notin dropErased /\ refs[r] = Strings!Shares(r) - 1
    <3>1. Cardinality(Strings!Disposing(r)) = 1 /\ Cardinality(Strings!Having(r)) = 0
      BY <1>2, <2>1, <2>3, <2>4, <2>5
    <3>2. QED
      BY <2>1, <2>3, <2>5, <3>1, CountNext
  <2>6. CASE refs[r] >= Strings!Shares(r)
    BY <1>2, <2>1, <2>3, <2>4, <2>6
  <2>7. CountOf(r)
    BY <1>2, Matched
  <2>8. QED
    BY <2>2, <2>5, <2>6, <2>7 DEF CountOf
<1>9. \A u \in StringThreads : MatchOf(u)'
  <2>1. ASSUME NEW u \in StringThreads \ {t} PROVE MatchOf(u)'
    <3>1. disposal[u].at # "none" => disposal[u].of \in live
      BY Matched DEF MatchOf
    <3>2. QED
      BY <1>1, <1>5, <3>1, Matched, MatchKept
  <2>2. MatchOf(t)'
    <3>1. CASE at = "write"
      BY <1>1, <1>2, <1>4, <1>5, <3>1 DEF MatchOf
    <3>2. CASE at = "free"
      <4>1. disposal'[t].at = "free" /\ disposal'[t].of = r
        BY <1>5, <3>2
      <4>2. {o \in Strings!Objects : rep'[o] = r} = {} /\ {u \in StringThreads : disposal'[u].of = r} = {t}
        BY <1>1, <1>5, <1>8, <3>2 DEF Strings!Having, Strings!Disposing
      <4>3. QED
        BY <1>1, <1>2, <1>8, <3>2, <4>1, <4>2 DEF MatchOf, Strings!Having, Strings!Disposing, Strings!Objects
    <3>3. QED
      BY <1>4, <3>1, <3>2
  <2>3. QED
    BY <2>1, <2>2
<1>10. OneWriter'
  BY <1>3, <1>5 DEF OneWriter
<1>11. QED
  BY <1>1, <1>5, <1>7, <1>9, <1>10, StringsMade, StringsAre, Matched

\* What is written is at least one less than what is there, unless a copy is overwritten.
LEMMA DisposeWritesKeeps ==
  ASSUME Intact, NEW t \in StringThreads, Strings!DisposeWrites(t), ~ copyErased'
  PROVE  Strings!StringsInv'
<1> DEFINE r == disposal[t].of
           seen == disposal[t].seen
<1>1. /\ disposal[t].at = "write" /\ UNCHANGED <<rep, live>>
      /\ refs' = [refs EXCEPT ![r] = seen - 1]
      /\ disposal' = [disposal EXCEPT ![t] = Strings!NoDisposal]
      /\ dropErased' = dropErased \cup (IF refs[r] < seen THEN {r} ELSE {})
      /\ ~ (refs[r] > seen)
  BY DEF Strings!DisposeWrites, Strings!Goes, Strings!NoDisposal
<1>2. r \in live /\ r \in Reps /\ refs[r] \in Int /\ r # Null /\ seen \in Int
  BY <1>1, CalmDisposesNothing, StringsAre
<1>3. seen > 0
  BY <1>1, Matched DEF MatchOf
<1>4. /\ refs' \in [Reps -> Int] /\ refs'[r] = seen - 1 /\ \A q \in Reps \ {r} : refs'[q] = refs[q]
  BY <1>1, <1>2, StringsAre
<1>5. /\ disposal' \in [StringThreads ->
           [at : {"none", "read", "write", "free"}, of : Reps \cup {Null}, seen : Int]]
      /\ disposal'[t] = Strings!NoDisposal
      /\ \A u \in StringThreads \ {t} : disposal'[u] = disposal[u]
  BY <1>1, StringsAre DEF Strings!NoDisposal
<1>6. Strings!NoDisposal.of = Null /\ Strings!NoDisposal.at = "none"
  BY DEF Strings!NoDisposal
<1>7. CountOf(r) /\ ~ Strings!LastDropped(r)
  <2>1. CountOf(r)
    BY <1>2, Matched
  <2>2. t \in Strings!Disposing(r) /\ disposal[t].at \notin {"read", "free"}
    BY <1>1 DEF Strings!Disposing
  <2>3. QED
    BY <2>1, <2>2 DEF Strings!LastDropped
<1>8. ASSUME NEW q \in live PROVE CountOf(q)'
  <2>1. q # Null /\ q \in Reps
    BY StringsAre
  <2>2. Strings!Having(q)' = Strings!Having(q)
    BY <1>1 DEF Strings!Having
  <2>3. CASE q # r
    <3>1. Strings!Disposing(q)' = Strings!Disposing(q)
      BY <1>5, <1>6, <2>1, <2>3 DEF Strings!Disposing
    <3>2. \A u \in Strings!Disposing(q) : disposal'[u] = disposal[u]
      BY <1>5, <2>3 DEF Strings!Disposing
    <3>3. q \in dropErased' <=> q \in dropErased
      BY <1>1, <2>3
    <3>4. QED
      BY <1>4, <2>1, <2>2, <2>3, <3>1, <3>2, <3>3, CountKept, Matched
  <2>4. CASE q = r
    <3>1. Strings!Disposing(q)' = Strings!Disposing(q) \ {t} /\ t \in Strings!Disposing(q)
      BY <1>5, <1>6, <2>1, <2>4 DEF Strings!Disposing
    <3>2. /\ Cardinality(Strings!Disposing(q) \ {t}) = Cardinality(Strings!Disposing(q)) - 1
          /\ Cardinality(Strings!Disposing(q)) >= 1
      BY <3>1, SharesAre, CountNext
    <3>3. /\ Strings!Shares(q)' = Strings!Shares(q) - 1
          /\ Strings!Shares(q) \in Int /\ Strings!Shares(q) >= 1
      <4>1. Strings!Shares(q)' = Cardinality(Strings!Having(q)') + Cardinality(Strings!Disposing(q)')
        BY SharesAfter
      <4>2. QED
        BY <2>2, <3>1, <3>2, <4>1, SharesAre
    <3>4. /\ CountOf(q) /\ ~ Strings!LastDropped(q) /\ refs[q] \in Int
          /\ refs'[q] = seen - 1 /\ refs[q] <= seen
          /\ dropErased' = dropErased \cup (IF refs[q] < seen THEN {q} ELSE {})
      BY <1>1, <1>2, <1>4, <1>7, <2>4
    <3>5. refs[q] >= Strings!Shares(q) - 1
      BY <3>3, <3>4 DEF CountOf
    <3>6. CASE refs[q] < seen
      <4>1. q \in dropErased'
        BY <3>4, <3>6
      <4>2. refs'[q] >= Strings!Shares(q)'
        BY <1>2, <3>3, <3>4, <3>5, <3>6
      <4>3. QED
        BY <4>1, <4>2 DEF CountOf
    <3>7. CASE refs[q] = seen
      <4>1. dropErased' = dropErased
        BY <1>2, <3>4, <3>7
      <4>2. refs'[q] = refs[q] + (-1) /\ Strings!Shares(q)' = Strings!Shares(q) + (-1)
        BY <3>3, <3>4, <3>7
      <4>3. refs[q] > 0
        BY <1>3, <3>7
      <4>4. QED
        BY <3>3, <3>4, <4>1, <4>2, <4>3, CountMoves
    <3>8. QED
      BY <1>2, <3>4, <3>6, <3>7
  <2>5. QED
    BY <2>3, <2>4
<1>9. \A u \in StringThreads : MatchOf(u)'
  <2>1. ASSUME NEW u \in StringThreads \ {t} PROVE MatchOf(u)'
    <3>1. disposal[u].at # "none" => disposal[u].of \in live
      BY Matched DEF MatchOf
    <3>2. disposal[u].at = "free" =>
            /\ \A v \in StringThreads : disposal'[v].of = disposal[u].of => disposal[v].of = disposal[u].of
            /\ disposal[u].of \in dropErased' => disposal[u].of \in dropErased
      <4>1. disposal[u].at = "free" => disposal[u].of # Null
        BY <3>1, StringsAre
      <4>2. disposal[u].at = "free" => disposal[u].of # r
        <5>1. disposal[u].at = "free" => Strings!Disposing(disposal[u].of) = {u}
          BY Matched DEF MatchOf
        <5>2. QED
          BY <5>1 DEF Strings!Disposing
      <4>3. QED
        BY <1>1, <1>5, <1>6, <4>1, <4>2
    <3>3. QED
      BY <1>1, <1>5, <3>1, <3>2, Matched, MatchKept
  <2>2. MatchOf(t)'
    BY <1>5, <1>6 DEF MatchOf, Strings!NoDisposal
  <2>3. QED
    BY <2>1, <2>2
<1>10. OneWriter'
  BY <1>1, <1>5, <1>6, Matched DEF OneWriter
<1>11. dropErased' \subseteq live'
  BY <1>1, <1>2, StringsAre
<1>12. QED
  BY <1>1, <1>4, <1>5, <1>8, <1>9, <1>10, <1>11, StringsMade, StringsAre, Matched

LEMMA DisposeFreesKeeps ==
  ASSUME Intact, NEW t \in StringThreads, Strings!DisposeFrees(t)
  PROVE  Strings!StringsInv'
<1> DEFINE r == disposal[t].of
<1>1. /\ disposal[t].at = "free" /\ UNCHANGED <<rep, dropErased>> /\ live' = live \ {r}
      /\ refs' = [refs EXCEPT ![r] = 0]
      /\ disposal' = [disposal EXCEPT ![t] = Strings!NoDisposal]
  BY DEF Strings!DisposeFrees, Strings!history, Strings!Goes, Strings!NoDisposal
<1>2. r \in live /\ r \in Reps /\ r # Null
  BY <1>1, CalmDisposesNothing, StringsAre
<1>3. /\ \A o \in Strings!Objects : rep[o] # r
      /\ \A u \in StringThreads \ {t} : disposal[u].of # r
      /\ r \notin dropErased
  <2>1. Strings!Having(r) = {} /\ Strings!Disposing(r) = {t} /\ r \notin dropErased
    BY <1>1, Matched DEF MatchOf
  <2>2. QED
    BY <2>1 DEF Strings!Having, Strings!Disposing
<1>4. refs' \in [Reps -> Int] /\ \A q \in Reps \ {r} : refs'[q] = refs[q]
  BY <1>1, <1>2, StringsAre
<1>5. /\ disposal' \in [StringThreads ->
           [at : {"none", "read", "write", "free"}, of : Reps \cup {Null}, seen : Int]]
      /\ disposal'[t] = Strings!NoDisposal
      /\ \A u \in StringThreads \ {t} : disposal'[u] = disposal[u]
  BY <1>1, StringsAre DEF Strings!NoDisposal
<1>6. Strings!NoDisposal.of = Null /\ Strings!NoDisposal.at = "none"
  BY DEF Strings!NoDisposal
<1>7. ASSUME NEW q \in live' PROVE CountOf(q)'
  <2>1. q \in live /\ q # r /\ q # Null /\ q \in Reps
    BY <1>1, StringsAre
  <2>2. Strings!Having(q)' = Strings!Having(q)
    BY <1>1 DEF Strings!Having
  <2>3. Strings!Disposing(q)' = Strings!Disposing(q)
    BY <1>5, <1>6, <2>1 DEF Strings!Disposing
  <2>4. \A u \in Strings!Disposing(q) : disposal'[u] = disposal[u]
    BY <1>5, <2>1 DEF Strings!Disposing
  <2>5. QED
    BY <1>1, <1>4, <2>1, <2>2, <2>3, <2>4, CountKept, Matched
<1>8. \A u \in StringThreads : MatchOf(u)'
  <2>1. ASSUME NEW u \in StringThreads \ {t} PROVE MatchOf(u)'
    <3>1. disposal[u].at # "none" => disposal[u].of \in live /\ disposal[u].of # r /\ disposal[u].of # Null
      BY <1>3, Matched, StringsAre DEF MatchOf
    <3>2. disposal[u].at # "none" => disposal[u].of \in live'
      BY <1>1, <3>1
    <3>3. disposal[u].at = "free" =>
            \A v \in StringThreads : disposal'[v].of = disposal[u].of => disposal[v].of = disposal[u].of
      BY <1>5, <1>6, <3>1
    <3>4. QED
      BY <1>1, <1>5, <3>2, <3>3, Matched, MatchKept
  <2>2. MatchOf(t)'
    BY <1>5, <1>6 DEF MatchOf, Strings!NoDisposal
  <2>3. QED
    BY <2>1, <2>2
<1>9. OneWriter'
  BY <1>5, <1>6, Matched DEF OneWriter
<1>10. \A o \in Strings!Objects : rep'[o] # Null => rep'[o] \in live'
  BY <1>1, <1>3, Matched
<1>11. dropErased' \subseteq live'
  BY <1>1, <1>3, StringsAre
<1>12. QED
  BY <1>1, <1>4, <1>5, <1>7, <1>8, <1>9, <1>10, <1>11, StringsMade, StringsAre

LEMMA GuestCopiesKeeps ==
  ASSUME Intact, NEW t \in StringThreads, NEW o \in Strings!Objects,
         NEW p \in Strings!Objects \ {o}, Strings!GuestCopies(t, o, p)
  PROVE  Strings!StringsInv'
<1> DEFINE r == rep[p]
<1>1. /\ rep[o] = Null /\ r # Null /\ UNCHANGED <<live, disposal, dropErased>>
      /\ refs' = [refs EXCEPT ![r] = refs[r] + 1] /\ rep' = [rep EXCEPT ![o] = r]
  BY DEF Strings!GuestCopies, Strings!history
<1>2. /\ r \in live /\ r \in Reps /\ refs[r] \in Int
      /\ CountOf(r) /\ ~ Strings!LastDropped(r)
      /\ \A u \in StringThreads : disposal[u].of = r => disposal[u].at # "free"
  BY <1>1, Counted, StringsAre
<1>3. /\ rep' \in [Strings!Objects -> Reps \cup {Null}] /\ refs' \in [Reps -> Int]
      /\ rep'[o] = r /\ \A q \in Strings!Objects \ {o} : rep'[q] = rep[q]
      /\ refs'[r] = refs[r] + 1 /\ \A q \in Reps \ {r} : refs'[q] = refs[q]
  BY <1>1, <1>2, StringsAre
<1>4. ASSUME NEW q \in live PROVE CountOf(q)'
  <2>1. q # Null /\ q \in Reps
    BY StringsAre
  <2>2. Strings!Disposing(q)' = Strings!Disposing(q)
    BY <1>1 DEF Strings!Disposing
  <2>3. CASE q # r
    <3>1. Strings!Having(q)' = Strings!Having(q)
      BY <1>1, <1>3, <2>1, <2>3 DEF Strings!Having
    <3>2. QED
      BY <1>1, <1>3, <2>1, <2>2, <2>3, <3>1, CountKept, Matched
  <2>4. CASE q = r
    <3>1. Strings!Having(q)' = Strings!Having(q) \cup {o} /\ o \notin Strings!Having(q)
      BY <1>1, <1>3, <2>1, <2>4 DEF Strings!Having
    <3>2. Cardinality(Strings!Having(q) \cup {o}) = Cardinality(Strings!Having(q)) + 1
      BY <3>1, SharesAre, CountNext
    <3>3. Strings!Shares(q)' = Strings!Shares(q) + 1
      <4>1. Strings!Shares(q)' = Cardinality(Strings!Having(q)') + Cardinality(Strings!Disposing(q)')
        BY SharesAfter
      <4>2. QED
        BY <2>2, <3>1, <3>2, <4>1, SharesAre
    <3>4. Strings!Shares(q) \in Int
      BY SharesAre
    <3>5. QED
      BY <1>1, <1>2, <1>3, <2>4, <3>3, <3>4, CountMoves
  <2>5. QED
    BY <2>3, <2>4
<1>5. \A u \in StringThreads : MatchOf(u)'
  <2> SUFFICES ASSUME NEW u \in StringThreads PROVE MatchOf(u)'
    OBVIOUS
  <2>1. disposal[u].at # "none" => disposal[u].of \in live /\ disposal[u].of \in Reps
    BY Matched, StringsAre DEF MatchOf
  <2>2. disposal[u].at = "free" =>
          \A q \in Strings!Objects : rep'[q] = disposal[u].of => rep[q] = disposal[u].of
    BY <1>2, <1>3
  <2>3. QED
    BY <1>1, <1>3, <2>1, <2>2, Matched, MatchKept
<1>6. OneWriter'
  BY <1>1, Matched DEF OneWriter
<1>7. \A q \in Strings!Objects : rep'[q] # Null => rep'[q] \in live'
  BY <1>1, <1>2, <1>3, Matched
<1>8. dropErased' \subseteq live'
  BY <1>1, StringsAre
<1>9. QED
  BY <1>1, <1>3, <1>4, <1>5, <1>6, <1>7, <1>8, StringsMade, StringsAre

\* The last to drop one inline takes it off the count and then disposes of it.
LEMMA GuestDropsKeeps ==
  ASSUME Intact, NEW t \in StringThreads, NEW o \in Strings!Objects, Strings!GuestDrops(t, o)
  PROVE  Strings!StringsInv'
<1> DEFINE r == rep[o]
<1>1. /\ Strings!Calm(t) /\ r # Null /\ UNCHANGED <<live, dropErased>>
      /\ refs' = [refs EXCEPT ![r] = refs[r] - 1] /\ rep' = [rep EXCEPT ![o] = Null]
      /\ IF refs[r] > 0 THEN UNCHANGED disposal
         ELSE disposal' = [disposal EXCEPT ![t] = [at |-> "read", of |-> r, seen |-> 0]]
  BY DEF Strings!GuestDrops, Strings!Goes, Strings!history
<1>2. /\ r \in live /\ r \in Reps /\ refs[r] \in Int
      /\ CountOf(r) /\ ~ Strings!LastDropped(r)
      /\ o \in Strings!Having(r)
      /\ \A u \in StringThreads : disposal[u].of = r => disposal[u].at # "free"
  BY <1>1, Counted, StringsAre
<1>3. /\ rep' \in [Strings!Objects -> Reps \cup {Null}] /\ refs' \in [Reps -> Int]
      /\ rep'[o] = Null /\ \A q \in Strings!Objects \ {o} : rep'[q] = rep[q]
      /\ refs'[r] = refs[r] - 1 /\ \A q \in Reps \ {r} : refs'[q] = refs[q]
  BY <1>1, <1>2, StringsAre
<1>4. disposal[t].of = Null /\ disposal[t].at = "none"
  BY <1>1, CalmDisposesNothing
<1>5. /\ disposal' \in [StringThreads ->
           [at : {"none", "read", "write", "free"}, of : Reps \cup {Null}, seen : Int]]
      /\ \A u \in StringThreads \ {t} : disposal'[u] = disposal[u]
      /\ \/ refs[r] > 0 /\ disposal'[t] = disposal[t]
         \/ refs[r] <= 0 /\ disposal'[t] = [at |-> "read", of |-> r, seen |-> 0]
  BY <1>1, <1>2, StringsAre
<1>6. /\ Cardinality(Strings!Having(r)) \in Nat /\ Cardinality(Strings!Disposing(r)) \in Nat
      /\ IsFiniteSet(Strings!Having(r)) /\ IsFiniteSet(Strings!Disposing(r))
      /\ Strings!Shares(r) = Cardinality(Strings!Having(r)) + Cardinality(Strings!Disposing(r))
      /\ Cardinality(Strings!Having(r)) >= 1
  BY <1>2, SharesAre, CountNext
<1>7. ASSUME NEW q \in live PROVE CountOf(q)'
  <2>1. q # Null /\ q \in Reps
    BY StringsAre
  <2>2. CASE q # r
    <3>1. Strings!Having(q)' = Strings!Having(q)
      BY <1>3, <2>1, <2>2 DEF Strings!Having
    <3>2. Strings!Disposing(q)' = Strings!Disposing(q)
      BY <1>4, <1>5, <2>1, <2>2 DEF Strings!Disposing
    <3>3. \A u \in Strings!Disposing(q) : disposal'[u] = disposal[u]
      BY <1>4, <1>5, <2>1 DEF Strings!Disposing
    <3>4. QED
      BY <1>1, <1>3, <2>1, <2>2, <3>1, <3>2, <3>3, CountKept, Matched
  <2>3. CASE q = r
    <3>1. Strings!Having(q)' = Strings!Having(q) \ {o}
      BY <1>1, <1>3, <2>3 DEF Strings!Having
    <3>2. CASE refs[r] > 0
      <4>1. Strings!Disposing(q)' = Strings!Disposing(q)
        BY <1>2, <1>5, <3>2 DEF Strings!Disposing
      <4>2. Cardinality(Strings!Having(q) \ {o}) = Cardinality(Strings!Having(q)) - 1
        BY <1>2, <1>6, <2>3, CountNext
      <4>3. Strings!Shares(q)' = Strings!Shares(q) - 1
        <5>1. Strings!Shares(q)' = Cardinality(Strings!Having(q)') + Cardinality(Strings!Disposing(q)')
          BY SharesAfter
        <5>2. QED
          BY <1>6, <2>3, <3>1, <4>1, <4>2, <5>1
      <4>4. Strings!Shares(q) \in Int
        BY SharesAre
      <4>5. refs'[q] = refs[q] + (-1) /\ Strings!Shares(q)' = Strings!Shares(q) + (-1)
        BY <1>2, <1>3, <2>3, <4>3, <4>4
      <4>6. QED
        BY <1>1, <1>2, <2>3, <3>2, <4>4, <4>5, CountMoves
    <3>3. CASE refs[r] <= 0
      <4>1. /\ Cardinality(Strings!Having(r)) = 1 /\ Cardinality(Strings!Disposing(r)) = 0 /\ refs[r] = 0
            /\ r \notin dropErased
        BY <1>2, <1>6, <3>3 DEF CountOf
      <4>2. Strings!Having(r) = {o} /\ Strings!Disposing(r) = {}
        BY <1>2, <1>6, <4>1, CountNext
      <4>3. refs'[q] = -1 /\ Strings!Having(q)' = {}
        BY <1>3, <2>3, <3>1, <4>1, <4>2
      <4>4. disposal'[t] = [at |-> "read", of |-> r, seen |-> 0]
        BY <1>5, <3>3, <4>1
      <4>5. Strings!Disposing(q)' = {t}
        BY <1>5, <2>3, <4>2, <4>4 DEF Strings!Disposing
      <4>6. Strings!LastDropped(q)'
        BY <4>3, <4>4, <4>5 DEF Strings!LastDropped
      <4>7. QED
        BY <1>1, <2>3, <4>1, <4>6 DEF CountOf
    <3>4. QED
      BY <1>2, <3>2, <3>3
  <2>4. QED
    BY <2>2, <2>3
<1>8. \A u \in StringThreads : MatchOf(u)'
  <2>1. ASSUME NEW u \in StringThreads, disposal'[u] = disposal[u] PROVE MatchOf(u)'
    <3>1. disposal[u].at # "none" => disposal[u].of \in live /\ disposal[u].of \in Reps /\ disposal[u].of # Null
      BY Matched, StringsAre DEF MatchOf
    <3>2. disposal[u].at = "free" =>
            /\ \A q \in Strings!Objects : rep'[q] = disposal[u].of => rep[q] = disposal[u].of
            /\ \A v \in StringThreads : disposal'[v].of = disposal[u].of => disposal[v].of = disposal[u].of
      BY <1>2, <1>3, <1>5, <3>1
    <3>3. QED
      BY <1>1, <1>3, <2>1, <3>1, <3>2, Matched, MatchKept
  <2>2. ASSUME disposal'[t] = [at |-> "read", of |-> r, seen |-> 0] PROVE MatchOf(t)'
    <3>1. disposal'[t].at = "read" /\ disposal'[t].of \in live'
      BY <1>1, <1>2, <2>2
    <3>2. QED
      BY <3>1 DEF MatchOf
  <2>3. QED
    BY <1>5, <2>1, <2>2
<1>9. OneWriter'
  BY <1>4, <1>5, Matched DEF OneWriter
<1>10. \A q \in Strings!Objects : rep'[q] # Null => rep'[q] \in live'
  BY <1>1, <1>3, Matched
<1>11. dropErased' \subseteq live'
  BY <1>1, StringsAre
<1>12. QED
  BY <1>1, <1>3, <1>5, <1>7, <1>8, <1>9, <1>10, <1>11, StringsMade, StringsAre

LEMMA CountSet ==
  ASSUME NEW f \in [Reps -> Int], NEW r, NEW c \in Int
  PROVE  [f EXCEPT ![r] = c] \in [Reps -> Int]
OBVIOUS

\* The types hold whatever the counts say.
LEMMA StringsTypesKept ==
  ASSUME Strings!StringsTyped, NEW t \in StringThreads,
         \/ Strings!DisposeReads(t) \/ Strings!DisposeWrites(t) \/ Strings!DisposeFrees(t)
         \/ \E o \in Strings!Objects :
              \/ Strings!Construct(t, o) \/ Strings!Assign(t, o) \/ Strings!Destruct(t, o)
              \/ Strings!GuestDrops(t, o)
              \/ \E p \in Strings!Objects \ {o} : Strings!GuestCopies(t, o, p)
  PROVE  Strings!StringsTyped'
<1> DEFINE Rec == [at : {"none", "read", "write", "free"}, of : Reps \cup {Null}, seen : Int]
<1>1. /\ rep \in [Strings!Objects -> Reps \cup {Null}] /\ refs \in [Reps -> Int] /\ live \subseteq Reps
      /\ disposal \in [StringThreads -> Rec]
  BY DEF Strings!StringsTyped
<1>2. ASSUME rep' \in [Strings!Objects -> Reps \cup {Null}], refs' \in [Reps -> Int],
             live' \subseteq Reps, disposal' \in [StringThreads -> Rec]
      PROVE  Strings!StringsTyped'
  BY <1>2 DEF Strings!StringsTyped, Strings!Objects
<1>3. ASSUME NEW at \in {"none", "read", "write", "free"}, NEW r \in Reps \cup {Null}, NEW seen \in Int,
             Strings!Goes(t, at, r, seen)
      PROVE  disposal' \in [StringThreads -> Rec]
  BY <1>1, <1>3 DEF Strings!Goes
<1>4. ASSUME NEW o \in Strings!Objects, Strings!Made(o)
      PROVE  /\ rep' \in [Strings!Objects -> Reps \cup {Null}] /\ refs' \in [Reps -> Int]
             /\ live' \subseteq Reps
  <2>1. Strings!Fresh \in Reps
    BY <1>1, <1>4 DEF Strings!Fresh, Strings!Made
  <2>2. QED
    BY <1>1, <1>4, <2>1 DEF Strings!Made
<1>5. disposal[t].of \in Reps \cup {Null} /\ disposal[t].seen \in Int
  BY <1>1
<1> HIDE DEF Rec
<1>6. CASE Strings!DisposeReads(t)
  <2>1. UNCHANGED <<rep, refs, live>>
    BY <1>6 DEF Strings!DisposeReads
  <2>2. \/ Strings!Goes(t, "none", Null, 0)
        \/ disposal[t].of \in live /\ Strings!Goes(t, "write", disposal[t].of, refs[disposal[t].of])
        \/ Strings!Goes(t, "free", disposal[t].of, 0)
    BY <1>6 DEF Strings!DisposeReads
  <2>3. disposal[t].of \in live => refs[disposal[t].of] \in Int
    BY <1>1
  <2>4. disposal' \in [StringThreads -> Rec]
    BY <1>3, <1>5, <2>2, <2>3
  <2>5. QED
    BY <1>1, <1>2, <2>1, <2>4
<1>7. CASE Strings!DisposeWrites(t)
  <2>1. /\ UNCHANGED <<rep, live>> /\ Strings!Goes(t, "none", Null, 0)
        /\ refs' = [refs EXCEPT ![disposal[t].of] = disposal[t].seen - 1]
    BY <1>7 DEF Strings!DisposeWrites
  <2>2. disposal' \in [StringThreads -> Rec]
    BY <1>3, <2>1
  <2>3. refs' \in [Reps -> Int]
    <3>1. disposal[t].seen - 1 \in Int
      BY <1>5
    <3>2. QED
      BY <1>1, <2>1, <3>1, CountSet, Zenon
  <2>4. QED
    BY <1>1, <1>2, <2>1, <2>2, <2>3
<1>8. CASE Strings!DisposeFrees(t)
  <2>1. /\ UNCHANGED rep /\ Strings!Goes(t, "none", Null, 0) /\ live' = live \ {disposal[t].of}
        /\ refs' = [refs EXCEPT ![disposal[t].of] = 0]
    BY <1>8 DEF Strings!DisposeFrees
  <2>2. disposal' \in [StringThreads -> Rec]
    BY <1>3, <2>1
  <2>3. refs' \in [Reps -> Int] /\ live' \subseteq Reps
    <3>1. 0 \in Int
      OBVIOUS
    <3>2. refs' \in [Reps -> Int]
      BY <1>1, <2>1, <3>1, CountSet, Zenon
    <3>3. QED
      BY <1>1, <2>1, <3>2, Zenon
  <2>4. QED
    BY <1>1, <1>2, <2>1, <2>2, <2>3
<1>9. ASSUME NEW o \in Strings!Objects,
             \/ Strings!Construct(t, o) \/ Strings!Assign(t, o) \/ Strings!Destruct(t, o)
             \/ Strings!GuestDrops(t, o)
             \/ \E p \in Strings!Objects \ {o} : Strings!GuestCopies(t, o, p)
      PROVE  Strings!StringsTyped'
  <2>1. rep[o] \in Reps \cup {Null}
    BY <1>1
  <2>2. CASE Strings!Construct(t, o)
    BY <1>1, <1>2, <1>4, <2>2 DEF Strings!Construct
  <2>3. CASE Strings!Assign(t, o)
    BY <1>1, <1>2, <1>3, <1>4, <2>1, <2>3 DEF Strings!Assign
  <2>4. CASE Strings!Destruct(t, o)
    BY <1>1, <1>2, <1>3, <2>1, <2>4 DEF Strings!Destruct
  <2>5. CASE Strings!GuestDrops(t, o)
    <3>1. /\ rep[o] # Null /\ live' = live /\ rep' = [rep EXCEPT ![o] = Null]
          /\ refs' = [refs EXCEPT ![rep[o]] = refs[rep[o]] - 1]
          /\ disposal' = disposal \/ Strings!Goes(t, "read", rep[o], 0)
      BY <2>5 DEF Strings!GuestDrops
    <3>2. refs[rep[o]] \in Int
      BY <1>1, <2>1, <3>1
    <3>3. QED
      BY <1>1, <1>2, <1>3, <2>1, <3>1, <3>2
  <2>6. CASE \E p \in Strings!Objects \ {o} : Strings!GuestCopies(t, o, p)
    <3>1. PICK p \in Strings!Objects : Strings!GuestCopies(t, o, p)
      BY <2>6
    <3>2. /\ rep[p] \in Reps /\ UNCHANGED <<live, disposal>> /\ rep' = [rep EXCEPT ![o] = rep[p]]
          /\ refs' = [refs EXCEPT ![rep[p]] = refs[rep[p]] + 1]
      BY <1>1, <3>1 DEF Strings!GuestCopies
    <3>3. QED
      BY <1>1, <1>2, <3>2
  <2>7. QED
    BY <1>9, <2>2, <2>3, <2>4, <2>5, <2>6
<1>10. QED
  BY <1>6, <1>7, <1>8, <1>9

LEMMA StringsInvariant == Spec => []Strings!StringsInv
<1>1. Strings!StringsInit => Strings!StringsInv
  BY InitStrings
<1>2. Strings!StringsInv /\ [Strings!StringsNext]_(Strings!stringVars) => Strings!StringsInv'
  <2> SUFFICES ASSUME Strings!StringsInv, [Strings!StringsNext]_(Strings!stringVars) PROVE Strings!StringsInv'
    OBVIOUS
  <2>1. CASE UNCHANGED Strings!stringVars
    BY <2>1 DEF Strings!stringVars, Strings!StringsInv, Strings!StringsTyped, Strings!CountsMatch,
                Strings!DisposalsMatch, Strings!StringsStayAlive, Strings!LastDropped,
                Strings!Having, Strings!Disposing, Strings!Shares
  <2>2. CASE Strings!StringsNext
    <3>1. PICK t \in StringThreads :
            \/ Strings!DisposeReads(t) \/ Strings!DisposeWrites(t) \/ Strings!DisposeFrees(t)
            \/ \E o \in Strings!Objects :
                 \/ Strings!Construct(t, o) \/ Strings!Assign(t, o) \/ Strings!Destruct(t, o)
                 \/ Strings!GuestDrops(t, o)
                 \/ \E p \in Strings!Objects \ {o} : Strings!GuestCopies(t, o, p)
      BY <2>2 DEF Strings!StringsNext
    <3>2. Strings!StringsTyped'
      BY <3>1, StringsTypesKept DEF Strings!StringsInv
    <3>3. CASE copyErased'
      BY <3>2, <3>3 DEF Strings!StringsInv
    <3>4. CASE ~ copyErased'
      <4>1. ~ copyErased
        BY <3>1, <3>4 DEF Strings!DisposeReads, Strings!DisposeWrites, Strings!DisposeFrees,
                          Strings!Construct, Strings!Assign, Strings!Destruct, Strings!GuestDrops,
                          Strings!GuestCopies, Strings!history
      <4>2. Intact
        BY <4>1 DEF Intact
      <4>3. QED
        BY <3>1, <3>4, <4>2, DisposeReadsKeeps, DisposeWritesKeeps, DisposeFreesKeeps, ConstructKeeps,
           LetsGoKeeps, GuestDropsKeeps, GuestCopiesKeeps
    <3>5. QED
      BY <3>3, <3>4
  <2>3. QED
    BY <2>1, <2>2
<1>3. QED
  BY <1>1, <1>2, StringsBehave, PTL DEF Strings!StringsSpec

\* What is counted, or last dropped, is somebody's.
LEMMA CountedIsSomebodys ==
  ASSUME Intact, NEW r \in live \ dropErased
  PROVE  \/ \E o \in Strings!Objects : rep[o] = r
         \/ \E t \in StringThreads : disposal[t].of = r
<1>1. CountOf(r)
  BY Matched
<1>2. CASE Strings!LastDropped(r)
  BY <1>2 DEF Strings!LastDropped, Strings!Disposing
<1>3. CASE Strings!Shares(r) >= 1
  <2>1. ASSUME Strings!Having(r) = {}, Strings!Disposing(r) = {} PROVE FALSE
    <3>1. Strings!Shares(r) = Cardinality({}) + Cardinality({})
      BY <2>1, SharesAre
    <3>2. QED
      BY <1>3, <3>1, FS_EmptySet
  <2>2. QED
    BY <2>1 DEF Strings!Having, Strings!Disposing
<1>4. QED
  BY <1>1, <1>2, <1>3 DEF CountOf

\* As long as the bridge has not overwritten a copy counted inline, no representation
\* is freed under a string, and only one of which a drop was overwritten stays behind,
\* for every number of threads, objects and representations
\* (guest_string_dispose_rep, which no lock keeps from the guest's additions).
THEOREM ComponentStringsSound == Spec => []StringsSound
<1>1. Strings!StringsInv => StringsSound
  <2> SUFFICES ASSUME Intact PROVE Strings!StringsSound
    BY DEF StringsSound, Strings!StringsSound, Intact
  <2>1. Strings!StringsStayAlive
    BY DEF Intact, Strings!StringsInv
  <2>2. QED
    BY <2>1, CountedIsSomebodys DEF Strings!StringsSound
<1>2. QED
  BY <1>1, StringsInvariant, PTL

-----------------------------------------------------------------------------
(* The cloud *)

LEMMA CloudAssumed == Cloud!CloudAssumption
BY ComponentsAssumption

LEMMA CloudBehaves == Spec => Cloud!CloudSpec
<1>1. Init => Cloud!CloudInit
  BY DEF Init
<1>2. [Next]_vars => [Cloud!CloudNext]_(Cloud!cloudVars)
  BY DEF Next, Alone, vars, cloudVars, Cloud!cloudVars
<1>3. QED
  BY <1>1, <1>2, PTL DEF Spec, Cloud!CloudSpec

\* A file's sizes add up read as what it is.
LEMMA FitsItself ==
  ASSUME NEW c \in Contents, NEW form \in Cloud!Forms
  PROVE  LET file_ == [form |-> form, content |-> c] IN Cloud!Fits(file_, form)
<1>1. c.count \in Nat /\ c.tail \in Nat
  BY CloudAssumed DEF Cloud!CloudAssumption
<1>2. CASE form = "mac"
  BY <1>1, <1>2 DEF Cloud!Fits, Cloud!SizeOf, Cloud!Stride
<1>3. CASE form # "mac"
  BY <1>1, <1>3 DEF Cloud!Fits, Cloud!SizeOf, Cloud!Stride
<1>4. QED
  BY <1>2, <1>3

\* A conversion that answers keeps the content.
LEMMA ConvertedIs ==
  ASSUME NEW c \in Contents, NEW form \in Cloud!Forms, NEW to \in Cloud!Forms,
         Cloud!Converted([form |-> form, content |-> c], to) # NoFile
  PROVE  Cloud!Converted([form |-> form, content |-> c], to) = [form |-> to, content |-> c]
<1> DEFINE saved == [form |-> form, content |-> c]
<1>1. saved \in Cloud!Files /\ saved.form = form /\ saved.content = c
  BY DEF Cloud!Files
<1>2. saved # Garbage
  BY <1>1, CloudAssumed DEF Cloud!CloudAssumption
<1>3. Cloud!Fits(saved, form)
  BY FitsItself
<1> HIDE DEF saved
<1>4. ~ Cloud!IsAmbiguous(saved) /\ ~ Cloud!IsLossy(saved, to)
  BY DEF Cloud!Converted, saved
<1>5. c.count = 0 \/ \E f \in Cloud!Forms : ~ Cloud!Fits(saved, f)
  BY <1>1, <1>4 DEF Cloud!IsAmbiguous
<1>6. c.count = 0 \/ Cloud!ReadAs(saved) = form
  BY <1>3, <1>5 DEF Cloud!ReadAs, Cloud!Forms
<1>7. Cloud!Converted(saved, to) = [form |-> to, content |-> c]
  BY <1>1, <1>2, <1>4, <1>6 DEF Cloud!Converted
<1>8. QED
  BY <1>7 DEF saved

WindowsFiles == {[form |-> "windows", content |-> c] : c \in Contents}

LEMMA InitCloud == Cloud!CloudInit => Cloud!CloudInv
<1> SUFFICES ASSUME Cloud!CloudInit PROVE Cloud!CloudInv
  OBVIOUS
<1>1. cloud \in [Profiles -> {NoFile} \cup WindowsFiles] /\ answered = NoFile /\ interface = FALSE
  BY DEF Cloud!CloudInit, WindowsFiles
<1>2. \A f \in WindowsFiles : f # Garbage /\ f.form = "windows"
  BY CloudAssumed DEF WindowsFiles, Cloud!CloudAssumption, Cloud!Files, Cloud!Forms
<1>3. QED
  BY <1>1, <1>2 DEF Cloud!CloudInv, Cloud!CloudSound, WindowsFiles

LEMMA CloudKeeps ==
  ASSUME Cloud!CloudInv, [Cloud!CloudNext]_(Cloud!cloudVars)
  PROVE  Cloud!CloudInv'
<1>1. cloud \in [Profiles -> {NoFile} \cup WindowsFiles] /\ Cloud!CloudSound
  BY DEF Cloud!CloudInv, WindowsFiles
<1>2. \A f \in WindowsFiles : /\ f # Garbage /\ f # NoFile /\ f.form = "windows"
                              /\ \E c \in Contents : f = [form |-> "windows", content |-> c]
  BY CloudAssumed DEF WindowsFiles, Cloud!CloudAssumption, Cloud!Files, Cloud!Forms
<1>3. ASSUME cloud' \in [Profiles -> {NoFile} \cup WindowsFiles],
             \/ answered' = NoFile
             \/ UNCHANGED <<cloud, answered>>
             \/ /\ answered'.file # Garbage
                /\ answered'.file = [form |-> "mac", content |-> cloud'[answered'.name].content],
             interface' => enabled'
      PROVE  Cloud!CloudInv'
  BY <1>1, <1>2, <1>3 DEF Cloud!CloudInv, Cloud!CloudSound, WindowsFiles
<1>4. CASE UNCHANGED Cloud!cloudVars
  BY <1>1, <1>3, <1>4 DEF Cloud!cloudVars, Cloud!CloudSound
<1>5. ASSUME NEW t \in Guests,
             \/ Cloud!BeginsCheck(t) \/ Cloud!EndsCheck(t) \/ Cloud!SteamInit(t) \/ Cloud!SteamShutdown(t)
             \/ Cloud!AsksInterface(t) \/ Cloud!StopsUnready(t)
      PROVE  Cloud!CloudInv'
  <2>1. UNCHANGED <<cloud, answered>> /\ (interface' => enabled')
    BY <1>1, <1>5
    DEF Cloud!CloudSound, Cloud!BeginsCheck, Cloud!EndsCheck, Cloud!SteamInit, Cloud!SteamShutdown,
        Cloud!AsksInterface, Cloud!StopsUnready, Cloud!Handles
  <2>2. QED
    BY <1>1, <1>3, <2>1
<1>6. ASSUME NEW t \in Guests, NEW n \in Profiles, Cloud!FileRead(t, n)
      PROVE  Cloud!CloudInv'
  <2>1. /\ UNCHANGED <<cloud, enabled, interface>> /\ cloud[n] # NoFile
        /\ \/ answered' = NoFile
           \/ /\ Cloud!Converted(cloud[n], "mac") # NoFile
              /\ answered' = [name |-> n, file |-> Cloud!Converted(cloud[n], "mac")]
    BY <1>6 DEF Cloud!FileRead, Cloud!statics
  <2>2. cloud[n] \in WindowsFiles
    BY <1>1, <2>1
  <2>3. PICK c \in Contents : cloud[n] = [form |-> "windows", content |-> c]
    BY <1>2, <2>2
  <2>4. CASE Cloud!Converted(cloud[n], "mac") # NoFile
    <3>1. Cloud!Converted(cloud[n], "mac") = [form |-> "mac", content |-> c]
      BY <2>3, <2>4, ConvertedIs DEF Cloud!Forms
    <3>2. [form |-> "mac", content |-> c] # Garbage
      BY CloudAssumed DEF Cloud!CloudAssumption, Cloud!Files, Cloud!Forms
    <3>3. QED
      BY <1>1, <1>3, <2>1, <2>3, <3>1, <3>2 DEF Cloud!CloudSound
  <2>5. CASE Cloud!Converted(cloud[n], "mac") = NoFile
    BY <1>1, <1>3, <2>1, <2>5 DEF Cloud!CloudSound
  <2>6. QED
    BY <2>4, <2>5
<1>7. ASSUME NEW t \in Guests, NEW n \in Profiles, Cloud!Saves(t, n)
      PROVE  Cloud!CloudInv'
  <2>1. PICK c \in Contents : Cloud!FileWrite(t, n, c)
    BY <1>7 DEF Cloud!Saves
  <2>2. /\ answered' = NoFile /\ UNCHANGED <<enabled, interface>>
        /\ \/ cloud' = cloud
           \/ Cloud!Uploaded(c) # NoFile /\ cloud' = [cloud EXCEPT ![n] = Cloud!Uploaded(c)]
    BY <2>1 DEF Cloud!FileWrite, Cloud!statics
  <2>3. Cloud!Uploaded(c) # NoFile => Cloud!Uploaded(c) \in WindowsFiles
    BY ConvertedIs DEF Cloud!Uploaded, Cloud!Forms, WindowsFiles
  <2>4. cloud' \in [Profiles -> {NoFile} \cup WindowsFiles]
    BY <1>1, <2>2, <2>3
  <2>5. QED
    BY <1>1, <1>3, <2>2, <2>4 DEF Cloud!CloudSound
<1>8. ASSUME NEW n \in Profiles, Cloud!WindowsSaves(n)
      PROVE  Cloud!CloudInv'
  <2>1. /\ answered' = NoFile /\ UNCHANGED <<enabled, interface>>
        /\ \E c \in Contents : cloud' = [cloud EXCEPT ![n] = [form |-> "windows", content |-> c]]
    BY <1>8 DEF Cloud!WindowsSaves, Cloud!statics
  <2>2. cloud' \in [Profiles -> {NoFile} \cup WindowsFiles]
    BY <1>1, <2>1 DEF WindowsFiles
  <2>3. QED
    BY <1>1, <1>3, <2>1, <2>2 DEF Cloud!CloudSound
<1>9. QED
  BY <1>4, <1>5, <1>6, <1>7, <1>8 DEF Cloud!CloudNext

\* Whatever profiles there are and whatever they say, none is read by the wrong layout.
THEOREM ComponentCloudSound == Spec => []CloudSound
<1>1. Cloud!CloudInv => CloudSound
  BY DEF Cloud!CloudInv, CloudSound
<1>2. QED
  BY <1>1, InitCloud, CloudKeeps, CloudBehaves, PTL DEF Cloud!CloudSpec

-----------------------------------------------------------------------------
(* The theorems about GuestFiles, GuestHeap and SteamReplacement, of the instances *)

LibraryTheorems == INSTANCE GuestLibraryProofs WITH
  Threads <- Guests, ClosesStandard <- FALSE, pc <- filePc

ReplacementTheorems == INSTANCE SteamReplacementProofs WITH pc <- runPc

-----------------------------------------------------------------------------
(* The files *)

\* LibraryTheorems names the definitions of Files a second time.
LEMMA FilesSame ==
  /\ Files!FilesAssumption <=> LibraryTheorems!FilesAssumption
  /\ Files!Init <=> LibraryTheorems!Init
  /\ Files!Next <=> LibraryTheorems!Next
  /\ Files!FilesSound <=> LibraryTheorems!FilesSound
BY DEF
    Files!Slots, LibraryTheorems!Slots, Files!FilesAssumption,
    LibraryTheorems!FilesAssumption, Files!Standard, LibraryTheorems!Standard,
    Files!Unused, LibraryTheorems!Unused, Files!tableVars, LibraryTheorems!tableVars,
    Files!vars, LibraryTheorems!vars, Files!NoUse, LibraryTheorems!NoUse,
    Files!StandardHandle, LibraryTheorems!StandardHandle, Files!Init,
    LibraryTheorems!Init, Files!Goes, LibraryTheorems!Goes, Files!HostOpen,
    LibraryTheorems!HostOpen, Files!FreeSlots, LibraryTheorems!FreeSlots,
    Files!Distance, LibraryTheorems!Distance, Files!NextFree, LibraryTheorems!NextFree,
    Files!NextGeneration, LibraryTheorems!NextGeneration, Files!After,
    LibraryTheorems!After, Files!OneMore, LibraryTheorems!OneMore, Files!Register,
    LibraryTheorems!Register, Files!Exhausted, LibraryTheorems!Exhausted,
    Files!CloseOverflow, LibraryTheorems!CloseOverflow, Files!FileFor,
    LibraryTheorems!FileFor, Files!Lookup, LibraryTheorems!Lookup, Files!UseEnds,
    LibraryTheorems!UseEnds, Files!Close, LibraryTheorems!Close, Files!Step,
    LibraryTheorems!Step, Files!Next, LibraryTheorems!Next, Files!Registered,
    LibraryTheorems!Registered, Files!InHand, LibraryTheorems!InHand, Files!FilesOwned,
    LibraryTheorems!FilesOwned, Files!ActiveExact, LibraryTheorems!ActiveExact,
    Files!NoUseAfterClose, LibraryTheorems!NoUseAfterClose,
    Files!StaleRejectedForACycle, LibraryTheorems!StaleRejectedForACycle,
    Files!FilesSound, LibraryTheorems!FilesSound, Files!Cardinality,
    LibraryTheorems!Cardinality

LEMMA FilesBehave == Spec => LibraryTheorems!Spec
<1>1. Init => LibraryTheorems!Init
  BY FilesSame DEF Init
<1>2. [Next]_vars => [LibraryTheorems!Next]_(LibraryTheorems!vars)
  BY FilesSame DEF Next, Alone, vars, fileVars, LibraryTheorems!vars, LibraryTheorems!tableVars
<1>3. QED
  BY <1>1, <1>2, PTL DEF Spec, LibraryTheorems!Spec

\* The files of the composition, whose guest closes no standard stream
\* (guest_handle_for_file, guest_close_file): none is lost, owned twice or used
\* after its close, and stale handles are rejected for a cycle.
THEOREM ComponentFilesSound == Spec => []FilesSound
<1>1. LibraryTheorems!Spec => []LibraryTheorems!FilesSound
  BY ComponentsAssumption, FilesSame, LibraryTheorems!FilesAreSound
<1>2. LibraryTheorems!FilesSound => FilesSound
  BY FilesSame DEF FilesSound
<1>3. QED
  BY <1>1, <1>2, FilesBehave, PTL

-----------------------------------------------------------------------------
(* The heap *)

\* LibraryTheorems names the definitions of Heap a second time, too.
LEMMA BlocksSame ==
  /\ \A h, s, d : Heap!Accounts(h, s, d) = LibraryTheorems!Accounts(h, s, d)
  /\ \A h, a : Heap!InsertFree(h, a) = LibraryTheorems!InsertFree(h, a)
  /\ \A h, a : Heap!RemoveFree(h, a) = LibraryTheorems!RemoveFree(h, a)
  /\ \A h, a : Heap!MergeNext(h, a) = LibraryTheorems!MergeNext(h, a)
  /\ \A h, a : Heap!MergePrevious(h, a) = LibraryTheorems!MergePrevious(h, a)
  /\ \A h, n : Heap!HasFit(h, n) <=> LibraryTheorems!HasFit(h, n)
  /\ \A h, n : Heap!FirstFit(h, n) = LibraryTheorems!FirstFit(h, n)
  /\ \A h, a, n : Heap!Splits(h, a, n) <=> LibraryTheorems!Splits(h, a, n)
  /\ \A h, a : Heap!Valid(h, a) <=> LibraryTheorems!Valid(h, a)
  /\ \A h, a : Heap!Poisoned(h, a) = LibraryTheorems!Poisoned(h, a)
  /\ \A h, o, a : Heap!Forget(h, o, a) = LibraryTheorems!Forget(h, o, a)
<1>1. /\ \A h, s, d : Heap!Accounts(h, s, d) = LibraryTheorems!Accounts(h, s, d)
      /\ \A h, a : Heap!InsertFree(h, a) = LibraryTheorems!InsertFree(h, a)
  BY DEF Heap!Accounts, LibraryTheorems!Accounts, Heap!InsertFree,
      LibraryTheorems!InsertFree, Heap!Mark, LibraryTheorems!Mark, Heap!Bin,
      LibraryTheorems!Bin, Heap!Doubles, LibraryTheorems!Doubles
<1>2. \A h, a : Heap!RemoveFree(h, a) = LibraryTheorems!RemoveFree(h, a)
  BY DEF Heap!RemoveFree, LibraryTheorems!RemoveFree, Heap!Unlinked,
      LibraryTheorems!Unlinked, Heap!Elements, LibraryTheorems!Elements,
      Heap!Bin, LibraryTheorems!Bin, Heap!Doubles, LibraryTheorems!Doubles
<1>3. \A h, a : Heap!Listed(h, a) <=> LibraryTheorems!Listed(h, a)
  BY DEF Heap!Listed, LibraryTheorems!Listed, Heap!IsCapacity,
      LibraryTheorems!IsCapacity, Heap!SmallestCapacity,
      LibraryTheorems!SmallestCapacity, Heap!Elements, LibraryTheorems!Elements,
      Heap!Bin, LibraryTheorems!Bin, Heap!Doubles, LibraryTheorems!Doubles
<1>4. \A h, a : Heap!MergeNext(h, a) = LibraryTheorems!MergeNext(h, a)
  BY <1>2, <1>3 DEF Heap!MergeNext, LibraryTheorems!MergeNext, Heap!NextIsFree,
      LibraryTheorems!NextIsFree
<1>5. ASSUME NEW h, NEW a
      PROVE  Heap!MergePrevious(h, a) = LibraryTheorems!MergePrevious(h, a)
  <2>1. Heap!PreviousIsFree(h, a) <=> LibraryTheorems!PreviousIsFree(h, a)
    BY <1>3 DEF Heap!PreviousIsFree, LibraryTheorems!PreviousIsFree, Heap!Base,
      LibraryTheorems!Base, Heap!SmallestCapacity, LibraryTheorems!SmallestCapacity,
      Heap!Mark, LibraryTheorems!Mark
  <2>2. PICK p : p = a - 1 - h.mem[a - 1].word
    OBVIOUS
  <2>3. PICK r : r = Heap!RemoveFree(h, p)
    OBVIOUS
  <2>4. r = LibraryTheorems!RemoveFree(h, p)
    BY <1>2, <2>3
  <2>5. PICK m : m = [at |-> p, heap |-> [r EXCEPT !.mem[p].capacity = @ + 1 + h.mem[a].capacity]]
    BY Zenon
  <2>6. Heap!MergePrevious(h, a) =
          IF Heap!PreviousIsFree(h, a) THEN m ELSE [at |-> a, heap |-> h]
    BY ONLY <2>2, <2>3, <2>5, Zenon DEF Heap!MergePrevious
  <2>7. LibraryTheorems!MergePrevious(h, a) =
          IF LibraryTheorems!PreviousIsFree(h, a) THEN m ELSE [at |-> a, heap |-> h]
    BY ONLY <2>2, <2>4, <2>5, Zenon DEF LibraryTheorems!MergePrevious
  <2>8. QED
    BY ONLY <2>1, <2>6, <2>7
<1>6. \A h, n : Heap!HasFit(h, n) <=> LibraryTheorems!HasFit(h, n)
  BY DEF Heap!HasFit, LibraryTheorems!HasFit, Heap!Fits, LibraryTheorems!Fits,
      Heap!Bin, LibraryTheorems!Bin, Heap!Doubles, LibraryTheorems!Doubles
<1>7. \A h, n : Heap!FirstFit(h, n) = LibraryTheorems!FirstFit(h, n)
  BY DEF Heap!FirstFit, LibraryTheorems!FirstFit, Heap!Fits, LibraryTheorems!Fits,
      Heap!Bin, LibraryTheorems!Bin, Heap!Doubles, LibraryTheorems!Doubles
<1>8. /\ \A h, a, n : Heap!Splits(h, a, n) <=> LibraryTheorems!Splits(h, a, n)
      /\ \A h, a : Heap!Valid(h, a) <=> LibraryTheorems!Valid(h, a)
  BY DEF Heap!Splits, LibraryTheorems!Splits, Heap!Valid, LibraryTheorems!Valid,
      Heap!IsCapacity, LibraryTheorems!IsCapacity, Heap!SmallestCapacity,
      LibraryTheorems!SmallestCapacity, Heap!Base, LibraryTheorems!Base
<1>9. /\ \A h, a : Heap!Poisoned(h, a) = LibraryTheorems!Poisoned(h, a)
      /\ \A h, o, a : Heap!Forget(h, o, a) = LibraryTheorems!Forget(h, o, a)
  BY DEF Heap!Poisoned, LibraryTheorems!Poisoned, Heap!Forget,
      LibraryTheorems!Forget, Heap!Zero, LibraryTheorems!Zero, Heap!Written,
      LibraryTheorems!Written, Heap!Units, LibraryTheorems!Units, Heap!Base,
      LibraryTheorems!Base
<1>10. QED
  BY <1>1, <1>2, <1>4, <1>5, <1>6, <1>7, <1>8, <1>9

LEMMA CoalesceSame ==
  ASSUME NEW h, NEW a
  PROVE  Heap!Coalesce(h, a) = LibraryTheorems!Coalesce(h, a)
<1>1. PICK m : m = Heap!MergePrevious(Heap!MergeNext(h, a), a)
  OBVIOUS
<1>2. m = LibraryTheorems!MergePrevious(LibraryTheorems!MergeNext(h, a), a)
  BY <1>1, BlocksSame
<1>3. PICK k : k = [m.heap EXCEPT !.mem[m.at].size = 0, !.mem[m.at].magic = "free", !.mem[m.at].word = 0]
  OBVIOUS
<1>4. Heap!Coalesce(h, a) = IF m.at + 1 + m.heap.mem[m.at].capacity = m.heap.cursor
                            THEN [m.heap EXCEPT !.cursor = m.at] ELSE Heap!InsertFree(k, m.at)
  BY ONLY <1>1, <1>3 DEF Heap!Coalesce
<1>5. LibraryTheorems!Coalesce(h, a) =
        IF m.at + 1 + m.heap.mem[m.at].capacity = m.heap.cursor
        THEN [m.heap EXCEPT !.cursor = m.at] ELSE LibraryTheorems!InsertFree(k, m.at)
  BY ONLY <1>2, <1>3 DEF LibraryTheorems!Coalesce
<1>6. QED
  BY <1>4, <1>5, BlocksSame

LEMMA DeallocatedSame ==
  ASSUME NEW h, NEW a
  PROVE  Heap!Deallocated(h, a) = LibraryTheorems!Deallocated(h, a)
<1>1. PICK k : k = [h EXCEPT !.mem[a] = [size |-> 0, magic |-> "free", word |-> 0,
                                         capacity |-> h.mem[a].capacity]]
  OBVIOUS
<1>2. PICK f : f = Heap!Accounts(k, h.mem[a].word, -h.mem[a].size)
  OBVIOUS
<1>3. f = LibraryTheorems!Accounts(k, h.mem[a].word, -h.mem[a].size)
  BY ONLY <1>2, BlocksSame
<1>4. Heap!Deallocated(h, a) = IF flags.reuse THEN Heap!Coalesce(Heap!Poisoned(f, a), a)
                               ELSE Heap!Poisoned(f, a)
  BY ONLY <1>1, <1>2 DEF Heap!Deallocated
<1>5. LibraryTheorems!Deallocated(h, a) =
        IF flags.reuse THEN LibraryTheorems!Coalesce(LibraryTheorems!Poisoned(f, a), a)
        ELSE LibraryTheorems!Poisoned(f, a)
  BY ONLY <1>1, <1>3 DEF LibraryTheorems!Deallocated
<1>6. QED
  BY ONLY <1>4, <1>5, BlocksSame, CoalesceSame

LEMMA TakeFreeSame ==
  ASSUME NEW h, NEW n
  PROVE  Heap!TakeFree(h, n) = LibraryTheorems!TakeFree(h, n)
<1>1. PICK a : a = Heap!FirstFit(h, n)
  OBVIOUS
<1>2. PICK t : t = Heap!RemoveFree(h, a)
  OBVIOUS
<1>3. a = LibraryTheorems!FirstFit(h, n) /\ t = LibraryTheorems!RemoveFree(h, a)
  BY <1>1, <1>2, BlocksSame
<1>4. PICK k : k = [t EXCEPT !.mem[a + 1 + n] = [size |-> 0, magic |-> "free", word |-> 0,
                                                 capacity |-> h.mem[a].capacity - n - 1],
                             !.mem[a].capacity = n]
  OBVIOUS
<1>5. Heap!TakeFree(h, n) = IF ~ Heap!Splits(h, a, n) THEN t ELSE Heap!InsertFree(k, a + 1 + n)
  BY ONLY <1>1, <1>2, <1>4 DEF Heap!TakeFree
<1>6. LibraryTheorems!TakeFree(h, n) =
        IF ~ LibraryTheorems!Splits(h, a, n) THEN t ELSE LibraryTheorems!InsertFree(k, a + 1 + n)
  BY ONLY <1>3, <1>4 DEF LibraryTheorems!TakeFree
<1>7. QED
  BY ONLY <1>5, <1>6, BlocksSame

LEMMA AllocatedSame ==
  /\ \A h, n : Heap!CanAllocate(h, n) <=> LibraryTheorems!CanAllocate(h, n)
  /\ \A h, n : Heap!AddressFor(h, n) = LibraryTheorems!AddressFor(h, n)
  /\ \A h, n, s : Heap!Allocated(h, n, s) = LibraryTheorems!Allocated(h, n, s)
<1>1. \A h, n : Heap!Reusable(h, n) <=> LibraryTheorems!Reusable(h, n)
  BY BlocksSame
  DEF Heap!Reusable, LibraryTheorems!Reusable, Heap!CapacityFor, LibraryTheorems!CapacityFor
<1>2. \A h, n : Heap!CanAllocate(h, n) <=> LibraryTheorems!CanAllocate(h, n)
  BY <1>1
  DEF Heap!CanAllocate, LibraryTheorems!CanAllocate, Heap!CapacityFor, LibraryTheorems!CapacityFor
<1>3. \A h, n : Heap!AddressFor(h, n) = LibraryTheorems!AddressFor(h, n)
  BY <1>1, BlocksSame
  DEF Heap!AddressFor, LibraryTheorems!AddressFor, Heap!CapacityFor, LibraryTheorems!CapacityFor
<1>4. ASSUME NEW h, NEW n, NEW s
      PROVE  Heap!Allocated(h, n, s) = LibraryTheorems!Allocated(h, n, s)
  <2>1. PICK a : a = Heap!AddressFor(h, n)
    OBVIOUS
  <2>2. PICK g : g = IF Heap!Reusable(h, n) THEN Heap!TakeFree(h, Heap!CapacityFor(n))
                     ELSE Heap!Bumped(h, Heap!CapacityFor(n))
    OBVIOUS
  <2>3. a = LibraryTheorems!AddressFor(h, n)
    BY <1>3, <2>1
  <2>4. g = IF LibraryTheorems!Reusable(h, n)
            THEN LibraryTheorems!TakeFree(h, LibraryTheorems!CapacityFor(n))
            ELSE LibraryTheorems!Bumped(h, LibraryTheorems!CapacityFor(n))
    <3>1. /\ Heap!CapacityFor(n) = LibraryTheorems!CapacityFor(n)
          /\ \A m : Heap!Bumped(h, m) = LibraryTheorems!Bumped(h, m)
      BY DEF Heap!CapacityFor, LibraryTheorems!CapacityFor, Heap!Bumped, LibraryTheorems!Bumped
    <3>2. QED
      BY ONLY <1>1, <2>2, <3>1, TakeFreeSame
  <2>5. PICK k : k = [g EXCEPT !.mem[a].size = n, !.mem[a].magic = "live", !.mem[a].word = s]
    OBVIOUS
  <2>6. Heap!Allocated(h, n, s) = Heap!Records(k, s, n)
    BY ONLY <2>1, <2>2, <2>5 DEF Heap!Allocated
  <2>7. LibraryTheorems!Allocated(h, n, s) = LibraryTheorems!Records(k, s, n)
    BY ONLY <2>3, <2>4, <2>5 DEF LibraryTheorems!Allocated
  <2>8. Heap!Records(k, s, n) = LibraryTheorems!Records(k, s, n)
    BY DEF Heap!Records, LibraryTheorems!Records, Heap!Accounts, LibraryTheorems!Accounts
  <2>9. QED
    BY ONLY <2>6, <2>7, <2>8
<1>5. QED
  BY <1>2, <1>3, <1>4

LEMMA StepSame ==
  ASSUME NEW o
  PROVE  Heap!HeapStep(o) <=> LibraryTheorems!HeapStep(o)
<1> USE DEF Heap!Idle, LibraryTheorems!Idle, Heap!NoBlock, LibraryTheorems!NoBlock,
            Heap!NoCall, LibraryTheorems!NoCall, Heap!Proceeds, LibraryTheorems!Proceeds
<1>1. Heap!Malloc(o) <=> LibraryTheorems!Malloc(o)
  BY AllocatedSame DEF Heap!Malloc, LibraryTheorems!Malloc
<1>2. (Heap!Clear(o) <=> LibraryTheorems!Clear(o)) /\ (Heap!Write(o) <=> LibraryTheorems!Write(o))
  BY DEF Heap!Clear, LibraryTheorems!Clear, Heap!Write, LibraryTheorems!Write,
         Heap!Zero, LibraryTheorems!Zero, Heap!Written, LibraryTheorems!Written,
         Heap!Units, LibraryTheorems!Units, Heap!Base, LibraryTheorems!Base
<1>3. Heap!Free(o) <=> LibraryTheorems!Free(o)
  BY BlocksSame, DeallocatedSame DEF Heap!Free, LibraryTheorems!Free
<1>4. Heap!ReallocInPlace(o) <=> LibraryTheorems!ReallocInPlace(o)
  BY DEF Heap!ReallocInPlace, LibraryTheorems!ReallocInPlace, Heap!CapacityFor,
         LibraryTheorems!CapacityFor, Heap!Lesser, LibraryTheorems!Lesser,
         Heap!Accounts, LibraryTheorems!Accounts
<1>5. \A n : Heap!CanExtend(o, n) <=> LibraryTheorems!CanExtend(o, n)
  BY DEF Heap!CanExtend, LibraryTheorems!CanExtend, Heap!EndOf, LibraryTheorems!EndOf,
         Heap!EndIn, LibraryTheorems!EndIn, Heap!CapacityFor, LibraryTheorems!CapacityFor
<1>6. Heap!ReallocExtends(o) <=> LibraryTheorems!ReallocExtends(o)
  BY DEF Heap!ReallocExtends, LibraryTheorems!ReallocExtends, Heap!CapacityFor,
         LibraryTheorems!CapacityFor, Heap!Accounts, LibraryTheorems!Accounts,
         Heap!CanExtend, LibraryTheorems!CanExtend, Heap!EndOf, LibraryTheorems!EndOf,
         Heap!EndIn, LibraryTheorems!EndIn
<1>7. Heap!ReallocMoves(o) <=> LibraryTheorems!ReallocMoves(o)
  BY DEF Heap!ReallocMoves, LibraryTheorems!ReallocMoves, Heap!CapacityFor,
         LibraryTheorems!CapacityFor, Heap!CanExtend, LibraryTheorems!CanExtend,
         Heap!EndOf, LibraryTheorems!EndOf, Heap!EndIn, LibraryTheorems!EndIn
<1>8. Heap!MoveAllocates(o) <=> LibraryTheorems!MoveAllocates(o)
  BY AllocatedSame DEF Heap!MoveAllocates, LibraryTheorems!MoveAllocates,
                       Heap!Lesser, LibraryTheorems!Lesser
<1>9. Heap!MoveCopies(o) <=> LibraryTheorems!MoveCopies(o)
  BY DEF Heap!MoveCopies, LibraryTheorems!MoveCopies, Heap!Units, LibraryTheorems!Units,
         Heap!Base, LibraryTheorems!Base
<1>10. Heap!MoveDrops(o) <=> LibraryTheorems!MoveDrops(o)
  BY BlocksSame, DeallocatedSame DEF Heap!MoveDrops, LibraryTheorems!MoveDrops
<1>11. QED
  BY <1>1, <1>2, <1>3, <1>4, <1>6, <1>7, <1>8, <1>9, <1>10
  DEF Heap!HeapStep, LibraryTheorems!HeapStep

LEMMA HeapSame ==
  /\ Heap!HeapAssumption <=> LibraryTheorems!HeapAssumption
  /\ Heap!HeapInit <=> LibraryTheorems!HeapInit
  /\ Heap!HeapNext <=> LibraryTheorems!HeapNext
  /\ Heap!HeapSound <=> LibraryTheorems!HeapSound
  /\ Heap!ContentKept <=> LibraryTheorems!ContentKept
<1>1. (Heap!HeapAssumption <=> LibraryTheorems!HeapAssumption)
        /\ (Heap!HeapInit <=> LibraryTheorems!HeapInit)
  BY DEF Heap!HeapAssumption, LibraryTheorems!HeapAssumption, Heap!HeapInit,
         LibraryTheorems!HeapInit, Heap!Base, LibraryTheorems!Base, Heap!Units,
         LibraryTheorems!Units, Heap!Bins, LibraryTheorems!Bins, Heap!Zero,
         LibraryTheorems!Zero, Heap!NoBlock, LibraryTheorems!NoBlock, Heap!NoCall,
         LibraryTheorems!NoCall
<1>2. Heap!HeapNext <=> LibraryTheorems!HeapNext
  <2>1. Heap!FreeStray <=> LibraryTheorems!FreeStray
    BY BlocksSame, DeallocatedSame
    DEF Heap!FreeStray, LibraryTheorems!FreeStray, Heap!Units, LibraryTheorems!Units,
        Heap!Base, LibraryTheorems!Base
  <2>2. QED
    BY ONLY <2>1, StepSame DEF Heap!HeapNext, LibraryTheorems!HeapNext
<1>3. Heap!HeapTiles <=> LibraryTheorems!HeapTiles
  BY DEF Heap!HeapTiles, LibraryTheorems!HeapTiles, Heap!Walk, LibraryTheorems!Walk,
         Heap!NextHeader, LibraryTheorems!NextHeader, Heap!IsCapacity,
         LibraryTheorems!IsCapacity, Heap!SmallestCapacity, LibraryTheorems!SmallestCapacity,
         Heap!EndIn, LibraryTheorems!EndIn, Heap!Headers, LibraryTheorems!Headers,
         Heap!IsFree, LibraryTheorems!IsFree, Heap!Owned, LibraryTheorems!Owned,
         Heap!NoBlock, LibraryTheorems!NoBlock, Heap!Elements, LibraryTheorems!Elements,
         Heap!Bin, LibraryTheorems!Bin, Heap!Doubles, LibraryTheorems!Doubles,
         Heap!Bins, LibraryTheorems!Bins, Heap!Distinct, LibraryTheorems!Distinct,
         Heap!Base, LibraryTheorems!Base
<1>4. Heap!BooksBalance <=> LibraryTheorems!BooksBalance
  BY DEF Heap!BooksBalance, LibraryTheorems!BooksBalance, Heap!SumOver,
         LibraryTheorems!SumOver, Heap!Sums, LibraryTheorems!Sums, Heap!Owned,
         LibraryTheorems!Owned, Heap!NoBlock, LibraryTheorems!NoBlock, Heap!Elements,
         LibraryTheorems!Elements, Heap!Bins, LibraryTheorems!Bins, Heap!Units,
         LibraryTheorems!Units, Heap!Base, LibraryTheorems!Base
<1>5. Heap!ContentKept <=> LibraryTheorems!ContentKept
  BY DEF Heap!ContentKept, LibraryTheorems!ContentKept, Heap!Written,
         LibraryTheorems!Written, Heap!Zero, LibraryTheorems!Zero
<1>6. QED
  BY <1>1, <1>2, <1>3, <1>4, <1>5 DEF Heap!HeapSound, LibraryTheorems!HeapSound

LEMMA HeapBehaves == Spec => LibraryTheorems!HeapSpec
<1>1. Init => LibraryTheorems!HeapInit
  BY HeapSame DEF Init
<1>2. [Next]_vars => [LibraryTheorems!HeapNext]_(LibraryTheorems!heapVars)
  BY HeapSame DEF Next, Alone, vars, heapVars, LibraryTheorems!heapVars
<1>3. QED
  BY <1>1, <1>2, PTL DEF Spec, LibraryTheorems!HeapSpec

LEMMA HeapAssumed == LibraryTheorems!HeapAssumption
BY ComponentsAssumption, HeapSame

\* The heap of the composition (guest_allocate_at, guest_deallocate and
\* guest_reallocate): whatever the owners ask for, its blocks tile it, each free
\* one is in its bin and unmerged beside none, and the statistics are right.
THEOREM ComponentHeapSound == Spec => []HeapSound
<1>1. LibraryTheorems!HeapSpec => []LibraryTheorems!HeapSound
  BY HeapAssumed, LibraryTheorems!HeapIsSound
<1>2. LibraryTheorems!HeapSound => HeapSound
  BY HeapSame DEF HeapSound
<1>3. QED
  BY <1>1, <1>2, HeapBehaves, PTL

\* What a guest wrote to its block is there until it frees it, also while
\* guest_reallocate moves it in locked steps with others' calls between them.
THEOREM ComponentContentKept == Spec => []ContentKept
<1>1. LibraryTheorems!HeapSpec => [](LibraryTheorems!ContentKept /\ LibraryTheorems!HeapTypeOK)
  BY HeapAssumed, LibraryTheorems!HeapKeepsContent
<1>2. LibraryTheorems!ContentKept => ContentKept
  BY HeapSame DEF ContentKept
<1>3. QED
  BY <1>1, <1>2, HeapBehaves, PTL

-----------------------------------------------------------------------------
(* The replacement *)

LEMMA ReplacementSame ==
  /\ Replacement!ReplacementAssumption <=> ReplacementTheorems!ReplacementAssumption
  /\ Replacement!Init <=> ReplacementTheorems!Init
  /\ Replacement!Next <=> ReplacementTheorems!Next
  /\ Replacement!GameNeverLost <=> ReplacementTheorems!GameNeverLost
  /\ Replacement!BackupIsOriginal <=> ReplacementTheorems!BackupIsOriginal
  /\ Replacement!FailureRollsBack <=> ReplacementTheorems!FailureRollsBack
  /\ Replacement!SuccessInstalls <=> ReplacementTheorems!SuccessInstalls
  /\ Replacement!TargetSurvivesOverlap <=> ReplacementTheorems!TargetSurvivesOverlap
BY DEF
    Replacement!ReplacementAssumption, ReplacementTheorems!ReplacementAssumption,
    Replacement!Bundles, ReplacementTheorems!Bundles, Replacement!counts,
    ReplacementTheorems!counts, Replacement!vars, ReplacementTheorems!vars,
    Replacement!NotBegun, ReplacementTheorems!NotBegun, Replacement!Init,
    ReplacementTheorems!Init, Replacement!Exists, ReplacementTheorems!Exists,
    Replacement!Goes, ReplacementTheorems!Goes, Replacement!Returns,
    ReplacementTheorems!Returns, Replacement!Fault, ReplacementTheorems!Fault,
    Replacement!CanMove, ReplacementTheorems!CanMove, Replacement!Moved,
    ReplacementTheorems!Moved, Replacement!IsSilicon, ReplacementTheorems!IsSilicon,
    Replacement!MayBegin, ReplacementTheorems!MayBegin, Replacement!Start,
    ReplacementTheorems!Start, Replacement!Refused, ReplacementTheorems!Refused,
    Replacement!Check, ReplacementTheorems!Check, Replacement!Written,
    ReplacementTheorems!Written, Replacement!BuildStarts,
    ReplacementTheorems!BuildStarts, Replacement!BuildEnds,
    ReplacementTheorems!BuildEnds, Replacement!BuildFails,
    ReplacementTheorems!BuildFails, Replacement!Compatible,
    ReplacementTheorems!Compatible, Replacement!Aside, ReplacementTheorems!Aside,
    Replacement!MoveAside, ReplacementTheorems!MoveAside, Replacement!PlaceOrGiveUp,
    ReplacementTheorems!PlaceOrGiveUp, Replacement!Place, ReplacementTheorems!Place,
    Replacement!Restore, ReplacementTheorems!Restore, Replacement!RemovesAny,
    ReplacementTheorems!RemovesAny, Replacement!Removes,
    ReplacementTheorems!Removes, Replacement!Finish, ReplacementTheorems!Finish,
    Replacement!Cleanup, ReplacementTheorems!Cleanup, Replacement!Crash,
    ReplacementTheorems!Crash, Replacement!Run, ReplacementTheorems!Run,
    Replacement!Next, ReplacementTheorems!Next, Replacement!Playable,
    ReplacementTheorems!Playable, Replacement!GameNeverLost,
    ReplacementTheorems!GameNeverLost, Replacement!BackupIsOriginal,
    ReplacementTheorems!BackupIsOriginal, Replacement!FailureRollsBack,
    ReplacementTheorems!FailureRollsBack, Replacement!SuccessInstalls,
    ReplacementTheorems!SuccessInstalls, Replacement!TargetSurvivesOverlap,
    ReplacementTheorems!TargetSurvivesOverlap, Replacement!Active,
    ReplacementTheorems!Active

LEMMA ReplacementBehaves == Spec => ReplacementTheorems!Spec
<1>1. Init => ReplacementTheorems!Init
  BY ReplacementSame DEF Init
<1>2. [Next]_vars => [ReplacementTheorems!Next]_(ReplacementTheorems!vars)
  BY ReplacementSame
  DEF Next, Alone, vars, runVars, ReplacementTheorems!vars, ReplacementTheorems!counts
<1>3. QED
  BY <1>1, <1>2, PTL DEF Spec, ReplacementTheorems!Spec

LEMMA ReplacementAssumed == ReplacementTheorems!ReplacementAssumption
BY ComponentsAssumption, ReplacementSame

\* Two overlapping runs of SteamReplacementRunner.run, with faults and a kill: the
\* game is on disk at every moment and the backup is Valve's.
THEOREM ComponentGameNeverLost == Spec => []GameNeverLost
<1>1. ReplacementTheorems!Spec =>
        [](ReplacementTheorems!GameNeverLost /\ ReplacementTheorems!BackupIsOriginal)
  BY ReplacementAssumed, ReplacementTheorems!GameIsNeverLost
<1>2. ReplacementTheorems!GameNeverLost /\ ReplacementTheorems!BackupIsOriginal => GameNeverLost
  BY ReplacementSame DEF GameNeverLost
<1>3. QED
  BY <1>1, <1>2, ReplacementBehaves, PTL

\* The same runs end as they report: a failed one undone, a successful one
\* installed, and after an overlap with a bundle at the target.
THEOREM ComponentRunsEndWell == Spec => []RunsEndWell
<1>1. ReplacementTheorems!Spec => []ReplacementTheorems!RunsEndWell
  BY ReplacementAssumed, ReplacementTheorems!RunsDoEndWell
<1>2. ReplacementTheorems!RunsEndWell => RunsEndWell
  BY ReplacementSame DEF RunsEndWell, ReplacementTheorems!RunsEndWell
<1>3. QED
  BY <1>1, <1>2, ReplacementBehaves, PTL

\* No step of theirs takes away or overwrites a backup that the run did not make.
THEOREM ComponentBackupKept == Spec => BackupKept
<1>1. ReplacementTheorems!Spec => ReplacementTheorems!BackupKept
  BY ReplacementAssumed, ReplacementTheorems!BackupIsKept
<1>2. QED
  BY <1>1, ReplacementBehaves, PTL
  DEF BackupKept, Replacement!BackupKept, ReplacementTheorems!BackupKept,
      Replacement!vars, ReplacementTheorems!vars, Replacement!counts,
      ReplacementTheorems!counts, Replacement!Exists, ReplacementTheorems!Exists

=============================================================================
