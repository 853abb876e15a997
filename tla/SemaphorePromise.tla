--------------------------- MODULE SemaphorePromise ---------------------------
(***************************************************************************)
(* What the Multiprocessing Services semaphores promise the guest, with no *)
(* slots, generations, mutexes or conditions: a semaphore has an identity  *)
(* that is never used again, a count between zero and its maximum, and an  *)
(* operation acts on the semaphore it names or fails.                      *)
(***************************************************************************)
EXTENDS Integers

CONSTANTS Ids, Maxima

VARIABLES alive, dead, tokens, limit, last

vars == <<alive, dead, tokens, limit, last>>

Report(op, ok, asked) ==
  last' = [op |-> op, ok |-> ok, asked |-> asked, hit |-> IF ok THEN asked ELSE 0]

Init ==
  /\ alive = {}
  /\ dead = {}
  /\ tokens = [i \in Ids |-> 0]
  /\ limit = [i \in Ids |-> 0]
  /\ last = [op |-> "none", ok |-> FALSE, asked |-> 0, hit |-> 0]

Create(i) ==
  /\ i \notin alive \cup dead
  /\ alive' = alive \cup {i}
  /\ \E m \in Maxima : \E n \in 0 .. m :
       tokens' = [tokens EXCEPT ![i] = n] /\ limit' = [limit EXCEPT ![i] = m]
  /\ UNCHANGED <<dead, last>>

\* The identity reaches the guest after the semaphore exists.
Created(i) == i \in alive /\ Report("create", TRUE, i) /\ UNCHANGED <<alive, dead, tokens, limit>>

CreateFails == Report("create", FALSE, 0) /\ UNCHANGED <<alive, dead, tokens, limit>>

Delete(i) ==
  /\ i \in alive
  /\ alive' = alive \ {i}
  /\ dead' = dead \cup {i}
  /\ tokens' = [tokens EXCEPT ![i] = 0]
  /\ limit' = [limit EXCEPT ![i] = 0]
  /\ Report("delete", TRUE, i)

Signal(i) ==
  /\ i \in alive
  /\ tokens' = [tokens EXCEPT ![i] = IF @ < limit[i] THEN @ + 1 ELSE @]
  /\ Report("signal", TRUE, i)
  /\ UNCHANGED <<alive, dead, limit>>

Take(i) ==
  /\ i \in alive
  /\ tokens[i] > 0
  /\ tokens' = [tokens EXCEPT ![i] = @ - 1]
  /\ Report("wait", TRUE, i)
  /\ UNCHANGED <<alive, dead, limit>>

\* A delete or signal fails only on a dead semaphore, a wait also on one that
\* has no token.
Refuse(i) ==
  /\ \/ i \in dead /\ \E op \in {"delete", "signal", "wait"} : Report(op, FALSE, i)
     \/ i \in alive /\ tokens[i] = 0 /\ Report("wait", FALSE, i)
  /\ UNCHANGED <<alive, dead, tokens, limit>>

Next ==
  \/ CreateFails
  \/ \E i \in Ids : Create(i) \/ Created(i) \/ Delete(i) \/ Signal(i) \/ Take(i) \/ Refuse(i)

Spec == Init /\ [][Next]_vars

=============================================================================
