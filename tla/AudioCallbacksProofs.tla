------------------------- MODULE AudioCallbacksProofs -------------------------
(***************************************************************************)
(* Proofs about AudioCallbacks, for any number of contexts, workers, game  *)
(* threads, graphs and registrations: a registration keeps its context     *)
(* until it is given up and is silent from then on, and, with the one IO   *)
(* thread that CoreAudio has, no job outlives its render and no threads    *)
(* wait for one another's locks.                                           *)
(***************************************************************************)
EXTENDS AudioCallbacks, WellFoundedInduction, TLAPS

-----------------------------------------------------------------------------
(* Threads and their places *)

DataTyped ==
  /\ count \in 0 .. Capacity
  /\ guestFunction \in [Contexts -> 1 .. registered \cup {None}]
  /\ owner \in [Contexts -> Graphs \cup {None}]
  /\ muted \in [Contexts -> BOOLEAN] /\ ready \in [Contexts -> BOOLEAN]
  /\ lock \in [Contexts -> Workers \cup {None}] /\ renderThread = lock
  /\ registry \in {Deferred, None}
  /\ jobs \in Seq(Jobs) /\ deferred \in Seq(Ops)
  /\ notifies \in [DOMAIN notifies -> Contexts] /\ DOMAIN notifies \subseteq 1 .. registered
  /\ graphs \in [Graphs -> {"free", "open", "closing", "retired"}]
  /\ hooks \in [Contexts -> IOThreads \cup {None}]
  /\ cycle \in [IOThreads -> SUBSET Contexts]
  /\ registered \in Nat /\ retired \subseteq 1 .. registered

PlacesTyped == DOMAIN pc = Threads /\ \A t \in Threads : pc[t] \in PlacesOf(t)

Anywhere == Graphs \cup {None} \cup 1 .. Capacity + 1

\* What a thread is busy with, as its place says.
BusyTyped ==
  /\ at \in [Threads -> Anywhere]
  /\ \A i \in IOThreads : pc[i] # "idle" => at[i] \in Contexts
  /\ pc[Deferred] \in {"detach", "sweep"} => at[Deferred] \in 1 .. Capacity + 1

JobsTyped ==
  /\ job \in [Workers -> Jobs \cup {None}]
  /\ \A w \in Workers : IF pc[w] = "idle" THEN job[w] = None ELSE job[w] \in Jobs

OpTyped == pc[Deferred] # "idle" => op \in Ops

LEMMA TypeParts == TypeOK <=> DataTyped /\ PlacesTyped /\ BusyTyped /\ JobsTyped /\ OpTyped
BY Zenon DEF TypeOK, DataTyped, PlacesTyped, BusyTyped, JobsTyped, OpTyped, Anywhere

LEMMA TypePartsNext == DataTyped' /\ PlacesTyped' /\ BusyTyped' /\ JobsTyped' /\ OpTyped' => TypeOK'
BY Zenon DEF TypeOK, DataTyped, PlacesTyped, BusyTyped, JobsTyped, OpTyped, Anywhere

\* The threads are of four kinds.
LEMMA Kinds ==
  /\ \A i \in IOThreads : i \in Threads /\ i \notin Guests /\ i # Deferred /\ i \notin Workers
                          /\ i # None
  /\ \A w \in Workers : w \in Threads /\ w \in Guests /\ w # Deferred /\ w \notin IOThreads
                        /\ w # None /\ w \notin GameThreads
  /\ \A t \in GameThreads : t \in Threads /\ t \in Guests /\ t # Deferred /\ t \notin IOThreads
                            /\ t # None /\ t \notin Workers
  /\ \A t \in Guests : t \in Threads /\ t # Deferred /\ t \notin IOThreads /\ t # None
                       /\ (t \in Workers \/ t \in GameThreads)
  /\ Deferred \in Threads /\ Deferred # None /\ Deferred \notin Guests
  /\ Deferred \notin IOThreads /\ Deferred \notin Workers
  /\ \A t \in Threads : t \in Guests \/ t \in IOThreads \/ t = Deferred
BY CallbacksAssumption DEF Threads, Guests

LEMMA PlacesAre ==
  /\ \A i \in IOThreads : PlacesOf(i) = {"idle", "enter", "wait", "woken"}
  /\ \A t \in GameThreads : PlacesOf(t) = {"run", "register", "attach", "release", "mute"}
  /\ \A w \in Workers :
       PlacesOf(w) = {"idle", "pickup", "guest", "register", "attach", "release", "mute"}
  /\ PlacesOf(Deferred) = {"idle", "add", "release", "stop", "detach", "sweep", "dispose"}
BY Kinds DEF PlacesOf

LEMMA GuestPlaces ==
  ASSUME NEW t \in Guests
  PROVE  /\ Home(t) \in {"run", "guest"}
         /\ Home(t) \in PlacesOf(t)
         /\ {"register", "attach", "release", "mute"} \subseteq PlacesOf(t)
         /\ PlacesOf(t) \subseteq {"run", "idle", "pickup", "guest", "register", "attach", "release", "mute"}
BY Kinds, PlacesAre DEF Home

\* A step moves one thread.
LEMMA GoesMoves ==
  ASSUME PlacesTyped, NEW t \in Threads, NEW x \in PlacesOf(t), Goes(t, x)
  PROVE  /\ PlacesTyped'
         /\ pc'[t] = x /\ \A u \in Threads \ {t} : pc'[u] = pc[u]
BY DEF PlacesTyped, Goes

LEMMA GuestGoes ==
  ASSUME PlacesTyped, NEW t \in Guests, NEW x \in {"register", "attach", "release", "mute", Home(t)},
         Goes(t, x)
  PROVE  /\ PlacesTyped'
         /\ pc'[t] = x /\ \A u \in Threads \ {t} : pc'[u] = pc[u]
BY GuestPlaces, GoesMoves, Kinds

LEMMA LeastExists ==
  ASSUME NEW T, T \subseteq Nat, T # {}
  PROVE  \E x \in T : \A y \in T : x <= y
<1>1. IsWellFoundedOn(OpToRel(<, Nat), Nat)
  BY NatLessThanWellFounded
<1>2. PICK x \in T : \A y \in T : ~ (<<y, x>> \in OpToRel(<, Nat))
  BY <1>1, WFMin
<1>3. \A y \in T : ~ (y < x)
  BY <1>2 DEF OpToRel
<1>4. QED
  BY <1>3

\* The context that a registration takes is none in use, or the next one.
LEMMA FirstUnusedIs ==
  ASSUME TypeOK
  PROVE  \/ FirstUnused = count + 1
         \/ FirstUnused \in 1 .. count /\ guestFunction[FirstUnused] = None
<1>1. CASE Unused = {}
  BY <1>1 DEF FirstUnused
<1>2. CASE Unused # {}
  <2>1. count \in Nat
    BY CallbacksAssumption DEF TypeOK
  <2>5. Unused \subseteq Nat
    BY <2>1 DEF Unused
  <2>2. \E c \in Unused : \A d \in Unused : c <= d
    BY <1>2, <2>5, LeastExists
  <2>3. FirstUnused \in Unused
    BY <1>2, <2>2 DEF FirstUnused
  <2>4. QED
    BY <2>3 DEF Unused
<1>3. QED
  BY <1>1, <1>2

-----------------------------------------------------------------------------
(* What a step of each kind of thread does to threads *)

Moves(t, x, v) ==
  /\ pc'[t] = x /\ at'[t] = v
  /\ \A u \in Threads \ {t} : pc'[u] = pc[u] /\ at'[u] = at[u]

ThreadsTyped == PlacesTyped /\ BusyTyped /\ JobsTyped /\ OpTyped

LEMMA GuestMoves ==
  ASSUME ThreadsTyped, NEW t \in Guests, pc[t] # "idle",
         NEW x \in {"register", "attach", "release", "mute", Home(t)}, Goes(t, x),
         NEW v \in Anywhere, at' = [at EXCEPT ![t] = v], job' = job, op' = op
  PROVE  ThreadsTyped' /\ Moves(t, x, v)
<1>1. PlacesTyped' /\ pc'[t] = x /\ \A u \in Threads \ {t} : pc'[u] = pc[u]
  BY GuestGoes DEF ThreadsTyped
<1>2. at'[t] = v /\ \A u \in Threads \ {t} : at'[u] = at[u]
  BY Kinds DEF ThreadsTyped, BusyTyped
<1>3. BusyTyped'
  BY <1>1, <1>2, Kinds DEF ThreadsTyped, BusyTyped
<1>4. JobsTyped'
  <2>1. x # "idle"
    BY GuestPlaces
  <2>2. QED
    BY <1>1, <2>1, Kinds DEF ThreadsTyped, JobsTyped
<1>5. OpTyped'
  BY <1>1, Kinds DEF ThreadsTyped, OpTyped
<1>6. QED
  BY <1>1, <1>2, <1>3, <1>4, <1>5 DEF ThreadsTyped, Moves

LEMMA GuestStays ==
  ASSUME ThreadsTyped, NEW t \in Guests, pc[t] # "idle",
         NEW x \in {"register", "attach", "release", "mute", Home(t)}, Goes(t, x),
         at' = at, job' = job, op' = op
  PROVE  ThreadsTyped' /\ Moves(t, x, at[t])
<1>1. at' = [at EXCEPT ![t] = at[t]] /\ at[t] \in Anywhere
  BY Kinds DEF ThreadsTyped, BusyTyped
<1>2. QED
  BY <1>1, GuestMoves

LEMMA DeferredMoves ==
  ASSUME ThreadsTyped, NEW x \in PlacesOf(Deferred), Goes(Deferred, x),
         NEW v \in Anywhere, at' = [at EXCEPT ![Deferred] = v], job' = job,
         x \in {"detach", "sweep"} => v \in 1 .. Capacity + 1,
         x # "idle" => op' \in Ops
  PROVE  ThreadsTyped' /\ Moves(Deferred, x, v)
<1>1. PlacesTyped' /\ pc'[Deferred] = x /\ \A u \in Threads \ {Deferred} : pc'[u] = pc[u]
  BY GoesMoves, Kinds DEF ThreadsTyped
<1>2. at'[Deferred] = v /\ \A u \in Threads \ {Deferred} : at'[u] = at[u]
  BY Kinds DEF ThreadsTyped, BusyTyped
<1>3. BusyTyped'
  BY <1>1, <1>2, Kinds DEF ThreadsTyped, BusyTyped
<1>4. JobsTyped'
  BY <1>1, Kinds DEF ThreadsTyped, JobsTyped
<1>5. OpTyped'
  BY <1>1 DEF OpTyped
<1>6. QED
  BY <1>1, <1>2, <1>3, <1>4, <1>5 DEF ThreadsTyped, Moves

LEMMA IOMoves ==
  ASSUME ThreadsTyped, NEW i \in IOThreads, NEW x \in {"idle", "enter", "wait", "woken"},
         Goes(i, x),
         NEW v \in Anywhere, at' = [at EXCEPT ![i] = v], job' = job, op' = op,
         x # "idle" => v \in Contexts
  PROVE  ThreadsTyped' /\ Moves(i, x, v)
<1>1. PlacesTyped' /\ pc'[i] = x /\ \A u \in Threads \ {i} : pc'[u] = pc[u]
  BY GoesMoves, Kinds, PlacesAre DEF ThreadsTyped
<1>2. at'[i] = v /\ \A u \in Threads \ {i} : at'[u] = at[u]
  BY Kinds DEF ThreadsTyped, BusyTyped
<1>3. BusyTyped'
  BY <1>1, <1>2, Kinds DEF ThreadsTyped, BusyTyped
<1>4. JobsTyped' /\ OpTyped'
  BY <1>1, Kinds DEF ThreadsTyped, JobsTyped, OpTyped
<1>5. QED
  BY <1>1, <1>2, <1>3, <1>4 DEF ThreadsTyped, Moves

LEMMA IOStays ==
  ASSUME ThreadsTyped, NEW i \in IOThreads, NEW x \in {"idle", "enter", "wait", "woken"},
         Goes(i, x), at' = at, job' = job, op' = op, pc[i] # "idle"
  PROVE  ThreadsTyped' /\ Moves(i, x, at[i])
<1>1. at' = [at EXCEPT ![i] = at[i]] /\ at[i] \in Anywhere /\ at[i] \in Contexts
  BY Kinds DEF ThreadsTyped, BusyTyped
<1>2. QED
  BY <1>1, IOMoves

\* A worker takes a job or runs it.
LEMMA WorkerMoves ==
  ASSUME ThreadsTyped, NEW w \in Workers, NEW x \in {"pickup", "guest"}, Goes(w, x),
         at' = at, op' = op, NEW j \in Jobs, job' = [job EXCEPT ![w] = j]
  PROVE  /\ ThreadsTyped' /\ Moves(w, x, at[w])
         /\ job'[w] = j /\ \A u \in Workers \ {w} : job'[u] = job[u]
<1>1. PlacesTyped' /\ pc'[w] = x /\ \A u \in Threads \ {w} : pc'[u] = pc[u]
  BY GoesMoves, Kinds, PlacesAre DEF ThreadsTyped
<1>2. BusyTyped' /\ OpTyped'
  BY <1>1, Kinds DEF ThreadsTyped, BusyTyped, OpTyped
<1>3. job'[w] = j /\ \A u \in Workers \ {w} : job'[u] = job[u]
  BY DEF ThreadsTyped, JobsTyped
<1>4. JobsTyped'
  BY <1>1, <1>3, Kinds DEF ThreadsTyped, JobsTyped
<1>5. QED
  BY <1>1, <1>2, <1>3, <1>4 DEF ThreadsTyped, Moves

\* A worker that answers is idle, and one render thread may be woken.
LEMMA RespondMoves ==
  ASSUME TypeOK, ThreadsTyped, NEW w \in Workers, Responds(w), pc[w] # "idle",
         at' = at, op' = op
  PROVE  /\ ThreadsTyped'
         /\ pc'[w] = "idle"
         /\ \A u \in Threads \ {w} :
              \/ pc'[u] = pc[u]
              \/ u \in IOThreads /\ pc[u] = "wait" /\ pc'[u] = "woken" /\ at[u] = job[w].ctx
         /\ \A u \in Workers \ {w} : job'[u] = job[u]
         /\ job[w] \in Jobs
         /\ lock' = [lock EXCEPT ![job[w].ctx] = None] /\ renderThread' = lock'
         /\ ready' = [ready EXCEPT ![job[w].ctx] = TRUE]
<1>1. /\ PlacesTyped' /\ pc'[w] = "idle"
      /\ \A u \in Threads \ {w} :
           \/ pc'[u] = pc[u]
           \/ u \in IOThreads /\ pc[u] = "wait" /\ pc'[u] = "woken" /\ at[u] = job[w].ctx
  <2> DEFINE waiting == {i \in IOThreads : pc[i] = "wait" /\ at[i] = job[w].ctx}
  <2>1. CASE Goes(w, "idle")
    BY <2>1, GoesMoves, Kinds, PlacesAre DEF ThreadsTyped
  <2>2. ASSUME NEW i \in waiting, pc' = [pc EXCEPT ![w] = "idle", ![i] = "woken"]
        PROVE  /\ PlacesTyped' /\ pc'[w] = "idle" /\ pc'[i] = "woken"
               /\ \A u \in Threads \ {w, i} : pc'[u] = pc[u]
    <3>1. i \in Threads /\ i # w /\ w \in Threads /\ DOMAIN pc = Threads
      BY Kinds DEF ThreadsTyped, PlacesTyped
    <3>2. DOMAIN pc' = Threads /\ pc'[w] = "idle" /\ pc'[i] = "woken"
             /\ \A u \in Threads \ {w, i} : pc'[u] = pc[u]
      BY <2>2, <3>1
    <3>3. "idle" \in PlacesOf(w) /\ "woken" \in PlacesOf(i)
      BY PlacesAre
    <3>4. QED
      BY <3>1, <3>2, <3>3 DEF ThreadsTyped, PlacesTyped
  <2>3. QED
    BY <2>1, <2>2 DEF Responds
<1>2. BusyTyped' /\ OpTyped'
  BY <1>1, Kinds DEF ThreadsTyped, BusyTyped, OpTyped
<1>3. job'[w] = None /\ \A u \in Workers \ {w} : job'[u] = job[u]
  BY DEF ThreadsTyped, JobsTyped, Responds
<1>4. JobsTyped'
  <2>1. \A u \in Workers \ {w} : pc'[u] = pc[u]
    BY <1>1, Kinds
  <2>2. job' \in [Workers -> Jobs \cup {None}]
    BY DEF ThreadsTyped, JobsTyped, Responds
  <2>3. QED
    BY <1>1, <1>3, <2>1, <2>2 DEF ThreadsTyped, JobsTyped
<1>5. job[w] \in Jobs
  BY DEF ThreadsTyped, JobsTyped
<1>6. renderThread = lock
  BY DEF TypeOK
<1>7. QED
  BY <1>1, <1>2, <1>3, <1>4, <1>5, <1>6 DEF ThreadsTyped, Responds, Answers

-----------------------------------------------------------------------------
(* Steps that leave the registrations alone *)

RegistrationParts ==
  /\ RegistrationsApart /\ RetiredMuted /\ GraphsMuted
  /\ KeptOnce /\ KeptInUse /\ KeptByKind /\ ClosedByOne /\ DisposedOnce /\ AddedBefore
  /\ LiveKeepsContext

Sound == DataTyped /\ ThreadsTyped /\ RegistrationParts

LEMMA SoundParts == RegistrationInv <=> Sound
BY TypeParts DEF RegistrationInv, Sound, ThreadsTyped, RegistrationParts

LEMMA SoundNext == Sound' => RegistrationInv'
BY TypePartsNext DEF RegistrationInv, Sound, ThreadsTyped, RegistrationParts

\* No thread takes up a context that it had not, nor a graph that is not open.
TakesNothing ==
  /\ \A t \in Guests : pc'[t] \in {"register", "attach", "release", "mute"} =>
       \/ pc'[t] = pc[t] /\ at'[t] = at[t]
       \/ /\ pc'[t] = "register"
          /\ at'[t] = None \/ (at'[t] \in Graphs /\ graphs[at'[t]] = "open")
  /\ pc'[Deferred] \in {"add", "release"} =>
       pc[Deferred] \in {"add", "release"} /\ at'[Deferred] = at[Deferred]
  /\ Disposing' => Disposing /\ op' = op

\* Nor does a thread take up a disposal.
LEMMA ClosedStays ==
  ASSUME ClosedByOne,
         \A t \in Guests : pc'[t] = "mute" => pc[t] = "mute" /\ at'[t] = at[t],
         \A g \in Graphs : graphs[g] = "closing" => graphs'[g] = "closing"
  PROVE  ClosedByOne'
BY DEF ClosedByOne

registrations == <<count, guestFunction, owner, muted, deferred, notifies, graphs, history>>

LEMMA QuietKeeps ==
  ASSUME Sound, ThreadsTyped', UNCHANGED registrations, TakesNothing
  PROVE  RegistrationParts'
<1> USE DEF registrations, history
<1>1. \A t \in Keeping' : t \in Keeping /\ at'[t] = at[t]
  <2>1. ThreadsTyped'
    OBVIOUS
  <2>2. ASSUME NEW t \in Guests, pc'[t] \in {"attach", "add", "release"}
        PROVE  pc[t] \in {"attach", "add", "release"} /\ at'[t] = at[t]
    <3>1. pc'[t] # "add"
      BY <2>1, <2>2, GuestPlaces, Kinds DEF ThreadsTyped, PlacesTyped
    <3>2. QED
      BY <2>2, <3>1 DEF TakesNothing
  <2>3. pc'[Deferred] # "attach"
    BY <2>1, PlacesAre, Kinds DEF ThreadsTyped, PlacesTyped
  <2>4. QED
    BY <2>2, <2>3 DEF TakesNothing, Keeping
<1>2. RegistrationsApart' /\ RetiredMuted' /\ GraphsMuted' /\ LiveKeepsContext'
  BY DEF Sound, RegistrationParts, RegistrationsApart, RetiredMuted, GraphsMuted,
         LiveKeepsContext, MutedWhileClosing, InUse
<1>3. Carrying' = Carrying /\ Disposals' = Disposals
  BY DEF Carrying, Disposals
<1>4. KeptOnce' /\ KeptInUse'
  BY <1>1, <1>3 DEF Sound, RegistrationParts, KeptOnce, KeptInUse, InUse
<1>5. KeptByKind'
  BY <1>3 DEF Sound, RegistrationParts, KeptByKind, TakesNothing
<1>6. DisposedOnce' /\ AddedBefore'
  BY <1>3 DEF Sound, RegistrationParts, DisposedOnce, AddedBefore, TakesNothing
<1>7. ClosedByOne'
  BY ClosedStays DEF Sound, RegistrationParts, TakesNothing
<1>8. QED
  BY <1>2, <1>4, <1>5, <1>6, <1>7 DEF RegistrationParts

\* What a thread that is not the guest's nor the deferred worker does takes nothing.
LEMMA OthersTakeNothing ==
  ASSUME ThreadsTyped,
         \A t \in GameThreads \cup {Deferred} : pc'[t] = pc[t] /\ at'[t] = at[t],
         \A w \in Workers : at'[w] = at[w] /\
            (pc'[w] = pc[w] \/ pc'[w] \in {"idle", "pickup", "guest"}),
         op' = op
  PROVE  TakesNothing
<1>1. \A t \in Guests : t \in Workers \/ t \in GameThreads
  BY Kinds
<1>2. QED
  BY <1>1 DEF TakesNothing, Disposing

LEMMA RendersKeeps ==
  ASSUME Sound, NEW i \in IOThreads, Renders(i)
  PROVE  Sound'
<1> USE DEF registrations, contexts, tables, host, history
<1>1. TypeOK /\ ThreadsTyped /\ DataTyped
  BY TypeParts DEF Sound, ThreadsTyped
<1>2. ASSUME NEW x \in {"idle", "enter", "wait", "woken"}, NEW v, Moves(i, x, v),
             UNCHANGED registrations, op' = op, ThreadsTyped'
      PROVE  RegistrationParts'
  <2>1. TakesNothing
    BY <1>1, <1>2, Kinds, OthersTakeNothing DEF Moves
  <2>2. QED
    BY <1>2, <2>1, QuietKeeps
<1>3. CASE CycleStarts(i)
  <2>1. ThreadsTyped'
    BY <1>1, <1>3 DEF CycleStarts, ThreadsTyped, PlacesTyped, BusyTyped, JobsTyped, OpTyped
  <2>2. DataTyped'
    BY <1>1, <1>3 DEF CycleStarts, DataTyped
  <2>3. TakesNothing
    BY <1>1, <1>3, OthersTakeNothing DEF CycleStarts
  <2>4. QED
    BY <1>3, <2>1, <2>2, <2>3, QuietKeeps DEF CycleStarts, Sound
<1>4. ASSUME NEW c \in Contexts, HostCalls(i, c)
      PROVE  Sound'
  <2>1. c \in Anywhere
    BY CallbacksAssumption DEF Contexts, Anywhere
  <2>2. ThreadsTyped' /\ Moves(i, "enter", c)
    BY <1>1, <1>4, <2>1, IOMoves DEF HostCalls, GoesTo
  <2>3. DataTyped'
    BY <1>1, <1>4 DEF HostCalls, DataTyped
  <2>4. QED
    BY <1>2, <1>4, <2>2, <2>3 DEF HostCalls, Sound
<1>5. CASE RendersSilence(i)
  <2>1. ThreadsTyped' /\ Moves(i, "idle", at[i])
    BY <1>1, <1>5, IOStays DEF RendersSilence
  <2>2. DataTyped'
    BY <1>1, <1>5 DEF RendersSilence, DataTyped
  <2>3. QED
    BY <1>2, <1>5, <2>1, <2>2 DEF RendersSilence, Sound
<1>6. CASE QueuesJob(i)
  <2>1. ThreadsTyped' /\ Moves(i, "wait", at[i])
    BY <1>1, <1>6, IOStays DEF QueuesJob
  <2>2. DataTyped'
    <3>1. [ctx |-> at[i], io |-> i] \in Jobs
      BY <1>1, <1>6 DEF QueuesJob, Jobs, ThreadsTyped, BusyTyped
    <3>2. jobs' \in Seq(Jobs)
      BY <1>1, <1>6, <3>1 DEF QueuesJob, DataTyped
    <3>3. ready' \in [Contexts -> BOOLEAN]
      BY <1>1, <1>6 DEF QueuesJob, ClearsResponse, DataTyped
    <3>4. QED
      BY <1>1, <1>6, <3>2, <3>3 DEF QueuesJob, DataTyped
  <2>3. QED
    BY <1>2, <1>6, <2>1, <2>2 DEF QueuesJob, Sound
<1>7. CASE SpuriousWake(i)
  <2>1. ThreadsTyped' /\ Moves(i, "woken", at[i])
    BY <1>1, <1>7, IOStays DEF SpuriousWake
  <2>2. DataTyped'
    BY <1>1, <1>7 DEF SpuriousWake, DataTyped
  <2>3. QED
    BY <1>2, <1>7, <2>1, <2>2 DEF SpuriousWake, Sound
<1>8. CASE RenderReturns(i)
  <2>1. PICK x \in {"idle", "wait"} : Goes(i, x)
    BY <1>8 DEF RenderReturns
  <2>2. ThreadsTyped' /\ Moves(i, x, at[i])
    BY <1>1, <1>8, <2>1, IOStays DEF RenderReturns
  <2>3. DataTyped'
    BY <1>1, <1>8 DEF RenderReturns, DataTyped
  <2>4. QED
    BY <1>2, <1>8, <2>2, <2>3 DEF RenderReturns, Sound
<1>9. QED
  BY <1>3, <1>4, <1>5, <1>6, <1>7, <1>8 DEF Renders

LEMMA WorksKeeps ==
  ASSUME Sound, NEW w \in Workers, Works(w)
  PROVE  Sound'
<1> USE DEF registrations, contexts, tables, host, history
<1>1. TypeOK /\ ThreadsTyped /\ DataTyped
  BY TypeParts DEF Sound, ThreadsTyped
<1>2. CASE TakesJob(w)
  <2>1. Head(jobs) \in Jobs /\ Tail(jobs) \in Seq(Jobs)
    BY <1>1, <1>2 DEF TakesJob, DataTyped
  <2>2. ThreadsTyped' /\ Moves(w, "pickup", at[w])
    BY <1>1, <1>2, <2>1, WorkerMoves DEF TakesJob
  <2>3. DataTyped'
    BY <1>1, <1>2, <2>1 DEF TakesJob, DataTyped
  <2>4. TakesNothing
    BY <1>1, <1>2, <2>2, Kinds, OthersTakeNothing DEF TakesJob, Moves
  <2>5. QED
    BY <1>2, <2>2, <2>3, <2>4, QuietKeeps DEF TakesJob, Sound
<1>3. CASE EntersGuest(w)
  <2>1. job[w] \in Jobs /\ job' = [job EXCEPT ![w] = job[w]]
    BY <1>1, <1>3 DEF EntersGuest, ThreadsTyped, JobsTyped
  <2>2. ThreadsTyped' /\ Moves(w, "guest", at[w])
    BY <1>1, <1>3, <2>1, WorkerMoves DEF EntersGuest
  <2>3. lock' \in [Contexts -> Workers \cup {None}] /\ renderThread' = lock'
    BY <1>1, <1>3 DEF EntersGuest, DataTyped
  <2>4. DataTyped'
    BY <1>1, <1>3, <2>3 DEF EntersGuest, DataTyped
  <2>5. TakesNothing
    BY <1>1, <1>3, <2>2, Kinds, OthersTakeNothing DEF EntersGuest, Moves
  <2>6. QED
    BY <1>3, <2>2, <2>4, <2>5, QuietKeeps DEF EntersGuest, Sound
<1>4. CASE AnswersRetired(w) \/ GuestReturns(w)
  <2>1. Responds(w) /\ at' = at /\ op' = op /\ pc[w] # "idle"
    BY <1>4, GuestPlaces DEF AnswersRetired, GuestReturns, Calling, Home
  <2>2. /\ ThreadsTyped'
        /\ pc'[w] = "idle"
        /\ \A u \in Threads \ {w} :
             \/ pc'[u] = pc[u]
             \/ u \in IOThreads /\ pc[u] = "wait" /\ pc'[u] = "woken" /\ at[u] = job[w].ctx
        /\ lock' = [lock EXCEPT ![job[w].ctx] = None] /\ renderThread' = lock'
        /\ ready' = [ready EXCEPT ![job[w].ctx] = TRUE]
    BY <1>1, <2>1, RespondMoves
  <2>3. lock' \in [Contexts -> Workers \cup {None}] /\ renderThread' = lock'
    BY <1>1, <2>2 DEF DataTyped
  <2>4. ready' \in [Contexts -> BOOLEAN]
    BY <1>1, <2>2 DEF DataTyped
  <2>5. DataTyped'
    BY <1>1, <1>4, <2>3, <2>4 DEF AnswersRetired, GuestReturns, DataTyped
  <2>6. TakesNothing
    BY <1>1, <2>1, <2>2, Kinds, OthersTakeNothing
  <2>7. UNCHANGED registrations
    BY <1>4 DEF AnswersRetired, GuestReturns
  <2>8. QED
    BY <2>2, <2>5, <2>6, <2>7, QuietKeeps DEF Sound
<1>5. QED
  BY <1>2, <1>3, <1>4 DEF Works

-----------------------------------------------------------------------------
(* The guest's and the deferred worker's steps that change no registration *)

LEMMA CallingIs ==
  ASSUME NEW t \in Guests, Calling(t)
  PROVE  pc[t] = Home(t) /\ pc[t] \in {"run", "guest"}
BY GuestPlaces DEF Calling

LEMMA RegistersKeeps ==
  ASSUME Sound, NEW t \in Guests, NEW g \in Graphs \cup {None}, Registers(t, g)
  PROVE  Sound'
<1>1. ThreadsTyped' /\ Moves(t, "register", g)
  <2>1. g \in Anywhere
    BY DEF Anywhere
  <2>2. pc[t] # "idle"
    BY CallingIs DEF Registers
  <2>3. QED
    BY <2>1, <2>2, GuestMoves DEF Sound, Registers, GoesTo
<1>2. DataTyped'
  BY DEF Registers, Sound, DataTyped, contexts, tables, host, history
<1>3. TakesNothing
  BY <1>1, Kinds DEF Moves, TakesNothing, Registers, Disposing
<1>4. UNCHANGED registrations
  BY DEF Registers, registrations, contexts, tables, history
<1>5. QED
  BY <1>1, <1>2, <1>3, <1>4, QuietKeeps DEF Sound

LEMMA CapacityExhaustedKeeps ==
  ASSUME Sound, NEW t \in Guests, CapacityExhausted(t)
  PROVE  Sound'
<1>1. ThreadsTyped' /\ Moves(t, Home(t), at[t])
  BY GuestStays DEF Sound, CapacityExhausted
<1>2. DataTyped'
  BY DEF CapacityExhausted, Sound, DataTyped, contexts, tables, host, history
<1>3. TakesNothing
  BY <1>1, Kinds, GuestPlaces DEF Moves, TakesNothing, CapacityExhausted, Disposing
<1>4. UNCHANGED registrations
  BY DEF CapacityExhausted, registrations, contexts, tables, history
<1>5. QED
  BY <1>1, <1>2, <1>3, <1>4, QuietKeeps DEF Sound

LEMMA DeferredStays ==
  ASSUME ThreadsTyped, NEW x \in PlacesOf(Deferred), Goes(Deferred, x),
         at' = at, job' = job, op' = op, x \notin {"detach", "sweep"}, pc[Deferred] # "idle"
  PROVE  ThreadsTyped' /\ Moves(Deferred, x, at[Deferred])
<1>1. at' = [at EXCEPT ![Deferred] = at[Deferred]] /\ at[Deferred] \in Anywhere
  BY Kinds DEF ThreadsTyped, BusyTyped
<1>2. op \in Ops
  BY DEF ThreadsTyped, OpTyped
<1>3. QED
  BY <1>1, <1>2, DeferredMoves

LEMMA PerformsAddKeeps ==
  ASSUME Sound, PerformsAdd
  PROVE  Sound'
<1>1. PICK x \in {"idle", "release"} : Goes(Deferred, x)
  BY DEF PerformsAdd
<1>2. ThreadsTyped' /\ Moves(Deferred, x, at[Deferred])
  BY <1>1, PlacesAre, DeferredStays DEF Sound, PerformsAdd
<1>3. hooks' \in [Contexts -> IOThreads \cup {None}]
  BY DEF PerformsAdd, Sound, DataTyped
<1>4. DataTyped'
  BY <1>3 DEF PerformsAdd, Sound, DataTyped, contexts, tables, history
<1>5. TakesNothing
  BY <1>2, Kinds DEF Moves, TakesNothing, PerformsAdd, Disposing
<1>6. UNCHANGED registrations
  BY DEF PerformsAdd, registrations, contexts, tables, history
<1>7. QED
  BY <1>2, <1>4, <1>5, <1>6, QuietKeeps DEF Sound

LEMMA StopsKeeps ==
  ASSUME Sound, Stops
  PROVE  Sound'
<1>1. 1 \in Anywhere /\ 1 \in 1 .. Capacity + 1
  BY CallbacksAssumption DEF Anywhere
<1>2. op \in Ops
  BY DEF Stops, Sound, ThreadsTyped, OpTyped
<1>3. ThreadsTyped' /\ Moves(Deferred, "detach", 1)
  BY <1>1, <1>2, PlacesAre, DeferredMoves DEF Sound, Stops, GoesTo
<1>4. hooks' \in [Contexts -> IOThreads \cup {None}]
  BY DEF Stops, Sound, DataTyped
<1>5. DataTyped'
  BY <1>4 DEF Stops, Sound, DataTyped, contexts, tables, history
<1>6. TakesNothing
  BY <1>3, Kinds DEF Moves, TakesNothing, Stops, Disposing
<1>7. UNCHANGED registrations
  BY DEF Stops, registrations, contexts, tables, history
<1>8. QED
  BY <1>3, <1>5, <1>6, <1>7, QuietKeeps DEF Sound

LEMMA WalkBeginsKeeps ==
  ASSUME Sound, WalkBegins
  PROVE  Sound'
<1>1. ThreadsTyped'
  BY DEF WalkBegins, Sound, ThreadsTyped, PlacesTyped, BusyTyped, JobsTyped, OpTyped
<1>2. DataTyped'
  BY DEF WalkBegins, Sound, DataTyped, contexts, tables, host, history
<1>3. TakesNothing
  BY DEF TakesNothing, WalkBegins, Disposing
<1>4. UNCHANGED registrations
  BY DEF WalkBegins, registrations, contexts, tables, history
<1>5. QED
  BY <1>1, <1>2, <1>3, <1>4, QuietKeeps DEF Sound

LEMMA WalkEndsKeeps ==
  ASSUME Sound, WalkEnds
  PROVE  Sound'
<1>1. 1 \in Anywhere /\ 1 \in 1 .. Capacity + 1
  BY CallbacksAssumption DEF Anywhere
<1>2. op \in Ops
  BY DEF WalkEnds, Walking, Sound, ThreadsTyped, OpTyped
<1>3. PICK x \in {"sweep", "dispose", "idle"} : GoesTo(Deferred, x, 1)
  BY DEF WalkEnds, Walking, NextPhase
<1>4. ThreadsTyped' /\ Moves(Deferred, x, 1)
  BY <1>1, <1>2, <1>3, PlacesAre, DeferredMoves DEF Sound, WalkEnds, GoesTo
<1>5. DataTyped'
  BY DEF WalkEnds, Sound, DataTyped, contexts, tables, host, history
<1>6. TakesNothing
  BY <1>4, Kinds DEF Moves, TakesNothing, WalkEnds, Walking, Disposing
<1>7. UNCHANGED registrations
  BY DEF WalkEnds, registrations, contexts, tables, history
<1>8. QED
  BY <1>4, <1>5, <1>6, <1>7, QuietKeeps DEF Sound

-----------------------------------------------------------------------------
(* Graphs come and go *)

LEMMA LiveStays ==
  ASSUME DataTyped, LiveKeepsContext,
         \A g \in Graphs : graphs[g] = "closing" => graphs'[g] = "closing",
         UNCHANGED <<guestFunction, owner, muted, notifies, registered>>, retired \subseteq retired'
  PROVE  LiveKeepsContext'
<1>1. \A c \in Contexts : MutedWhileClosing(c) => MutedWhileClosing(c)'
  BY DEF MutedWhileClosing, DataTyped
<1>2. QED
  BY <1>1 DEF LiveKeepsContext

LEMMA NewGraphKeeps ==
  ASSUME Sound, NEW t \in Guests, NEW g \in Graphs, NewGraph(t, g)
  PROVE  Sound'
<1>1. graphs[g] = "free" /\ graphs'[g] = "open" /\ \A h \in Graphs \ {g} : graphs'[h] = graphs[h]
  BY DEF NewGraph, Sound, DataTyped
<1>2. UNCHANGED <<contexts, registry, jobs, deferred, notifies, host, pc, at, job, op, history>>
  BY DEF NewGraph
<1> USE DEF contexts, host, history
<1>3. ThreadsTyped'
  BY <1>2 DEF Sound, ThreadsTyped, PlacesTyped, BusyTyped, JobsTyped, OpTyped
<1>4. DataTyped'
  <2>1. graphs' \in [Graphs -> {"free", "open", "closing", "retired"}]
    BY DEF NewGraph, Sound, DataTyped
  <2>2. QED
    BY <1>2, <2>1 DEF Sound, DataTyped
<1>5. RegistrationsApart' /\ RetiredMuted'
  BY <1>2 DEF Sound, RegistrationParts, RegistrationsApart, RetiredMuted, InUse
<1>6. GraphsMuted'
  BY <1>1, <1>2 DEF Sound, RegistrationParts, GraphsMuted, InUse, DataTyped
<1>7. Keeping' = Keeping /\ Carrying' = Carrying /\ Disposals' = Disposals
  BY <1>2 DEF Keeping, Carrying, Disposals
<1>8. KeptOnce' /\ KeptInUse'
  BY <1>2, <1>7 DEF Sound, RegistrationParts, KeptOnce, KeptInUse, InUse
<1>9. KeptByKind'
  BY <1>1, <1>2, <1>7 DEF Sound, RegistrationParts, KeptByKind, KeptInUse, Keeping, DataTyped
<1>10. DisposedOnce'
  BY <1>1, <1>2, <1>7 DEF Sound, RegistrationParts, DisposedOnce, Disposing
<1>11. AddedBefore'
  BY <1>1, <1>2, <1>7 DEF Sound, RegistrationParts, AddedBefore, KeptByKind, Carrying
<1>12. ClosedByOne'
  BY <1>1, <1>2, ClosedStays DEF Sound, RegistrationParts
<1>13. LiveKeepsContext'
  BY <1>1, <1>2, LiveStays DEF Sound, RegistrationParts
<1>14. QED
  BY <1>3, <1>4, <1>5, <1>6, <1>8, <1>9, <1>10, <1>11, <1>12, <1>13 DEF Sound, RegistrationParts

LEMMA DisposesGraphKeeps ==
  ASSUME Sound, DisposesGraph
  PROVE  Sound'
<1> DEFINE g == op.graph
<1>1. g \in Graphs /\ graphs[g] = "retired" /\ \A k \in Disposals : deferred[k].graph # g
  BY DEF DisposesGraph, Sound, RegistrationParts, DisposedOnce, Disposing
<1>2. graphs'[g] = "free" /\ \A h \in Graphs \ {g} : graphs'[h] = graphs[h]
  BY <1>1 DEF DisposesGraph, Sound, DataTyped
<1>3. UNCHANGED <<contexts, registry, jobs, deferred, notifies, host, job, op, history>>
  BY DEF DisposesGraph
<1>4. ThreadsTyped' /\ Moves(Deferred, "idle", 1)
  <2>1. 1 \in Anywhere
    BY CallbacksAssumption DEF Anywhere
  <2>2. GoesTo(Deferred, "idle", 1)
    BY DEF DisposesGraph, NextPhase
  <2>3. QED
    BY <1>3, <2>1, <2>2, PlacesAre, DeferredMoves DEF Sound, GoesTo
<1> USE DEF contexts, host, history
<1>5. DataTyped'
  <2>1. graphs' \in [Graphs -> {"free", "open", "closing", "retired"}]
    BY <1>1 DEF DisposesGraph, Sound, DataTyped
  <2>2. QED
    BY <1>3, <2>1 DEF Sound, DataTyped
<1> HIDE DEF g
<1>6. RegistrationsApart' /\ RetiredMuted'
  BY <1>3 DEF Sound, RegistrationParts, RegistrationsApart, RetiredMuted, InUse
<1>7. GraphsMuted'
  BY <1>1, <1>2, <1>3 DEF Sound, RegistrationParts, GraphsMuted, InUse, DataTyped
<1>8. Carrying' = Carrying /\ Disposals' = Disposals
  BY <1>3 DEF Carrying, Disposals
<1>9. Keeping' = Keeping /\ \A t \in Guests : pc'[t] = pc[t] /\ at'[t] = at[t]
  BY <1>4, Kinds DEF Moves, Keeping, DisposesGraph
<1>10. \A t \in Keeping : at'[t] = at[t]
  BY <1>9, Kinds DEF Keeping, DisposesGraph
<1>11. KeptOnce' /\ KeptInUse'
  BY <1>3, <1>8, <1>9, <1>10 DEF Sound, RegistrationParts, KeptOnce, KeptInUse, InUse
<1>12. KeptByKind'
  BY <1>1, <1>2, <1>3, <1>8, <1>9 DEF Sound, RegistrationParts, KeptByKind, KeptInUse, Keeping,
                                     DataTyped
<1>13. DisposedOnce'
  BY <1>1, <1>2, <1>3, <1>4, <1>8 DEF Sound, RegistrationParts, DisposedOnce, Disposing, Moves
<1>14. AddedBefore'
  BY <1>1, <1>2, <1>3, <1>8 DEF Sound, RegistrationParts, AddedBefore, KeptByKind, Carrying
<1>15. ClosedByOne' /\ LiveKeepsContext'
  BY <1>1, <1>2, <1>3, <1>9, ClosedStays, LiveStays DEF Sound, RegistrationParts
<1>16. QED
  BY <1>4, <1>5, <1>6, <1>7, <1>11, <1>12, <1>13, <1>14, <1>15 DEF Sound, RegistrationParts

-----------------------------------------------------------------------------
(* Contexts are taken *)

\* What is kept is in use.
LEMMA KeptIsUsed ==
  ASSUME Sound, NEW c, guestFunction[c] = None
  PROVE  /\ \A t \in Keeping : at[t] # c
         /\ \A k \in Carrying : deferred[k].ctx # c
         /\ \A q \in DOMAIN notifies : notifies[q] # c
<1>1. \A q \in DOMAIN notifies : q # None
  BY CallbacksAssumption DEF Sound, DataTyped
<1>2. QED
  BY <1>1 DEF Sound, RegistrationParts, KeptInUse, InUse

LEMMA ClaimsKeeps ==
  ASSUME Sound, NEW t \in Guests, Claims(t)
  PROVE  Sound'
<1> DEFINE c == FirstUnused
           r == registered + 1
<1>1. TypeOK /\ DataTyped /\ ThreadsTyped /\ Capacity \in Nat
  BY TypeParts, CallbacksAssumption DEF Sound, ThreadsTyped
<1>2. /\ count' = IF c > count THEN c ELSE count
      /\ c <= Capacity /\ registered' = r
      /\ pc[t] = "register"
      /\ guestFunction' = [guestFunction EXCEPT ![c] = r]
      /\ owner' = [owner EXCEPT ![c] = at[t]]
      /\ muted' = [muted EXCEPT ![c] = FALSE]
      /\ ready' = [ready EXCEPT ![c] = FALSE]
      /\ GoesTo(t, "attach", c)
      /\ UNCHANGED <<lock, renderThread, registry, jobs, deferred, notifies, graphs, hooks,
                     cycle, job, op, retired>>
  BY DEF Claims, tables, host
<1>3. c = count + 1 \/ (c \in 1 .. count /\ guestFunction[c] = None)
  BY <1>1, FirstUnusedIs
<1> HIDE DEF c
<1>4. /\ c \in Contexts /\ c <= count' /\ count' \in 0 .. Capacity /\ count <= count'
      /\ c = count + 1 \/ guestFunction[c] = None
  BY <1>1, <1>2, <1>3 DEF DataTyped, Contexts
<1>5. guestFunction[c] = None
  <2>1. CASE c = count + 1
    <3>1. ~ (c <= count)
      BY <1>1, <2>1 DEF DataTyped
    <3>2. QED
      BY <1>4, <3>1 DEF Sound, RegistrationParts, RegistrationsApart, InUse
  <2>2. QED
    BY <1>4, <2>1
<1>6. r \in Nat /\ r # None /\ r \notin 1 .. registered /\ r \in 1 .. r /\ 1 .. registered \subseteq 1 .. r
  BY <1>1, CallbacksAssumption DEF DataTyped
<1>7. at[t] \in Graphs \cup {None} /\ (at[t] # None => graphs[at[t]] = "open")
  BY <1>2 DEF Sound, RegistrationParts, KeptByKind
<1>8. c \in Anywhere /\ ThreadsTyped' /\ Moves(t, "attach", c)
  <2>1. c \in Anywhere
    BY <1>4, <1>1 DEF Contexts, Anywhere
  <2>2. QED
    BY <1>1, <1>2, <2>1, GuestMoves DEF GoesTo
<1> HIDE DEF r
<1>9. /\ guestFunction'[c] = r /\ owner'[c] = at[t] /\ muted'[c] = FALSE
      /\ \A d \in Contexts \ {c} : /\ guestFunction'[d] = guestFunction[d]
                                   /\ owner'[d] = owner[d] /\ muted'[d] = muted[d]
  BY <1>1, <1>2, <1>4 DEF DataTyped
<1>10. DataTyped'
  <2>1. guestFunction' \in [Contexts -> 1 .. registered' \cup {None}]
    <3>1. \A d \in Contexts : guestFunction[d] \in 1 .. r \cup {None}
      BY <1>1, <1>6 DEF DataTyped
    <3>2. QED
      BY <1>1, <1>2, <1>6, <3>1 DEF DataTyped
  <2>2. owner' \in [Contexts -> Graphs \cup {None}]
    BY <1>1, <1>2, <1>7 DEF DataTyped
  <2>3. muted' \in [Contexts -> BOOLEAN] /\ ready' \in [Contexts -> BOOLEAN]
    BY <1>1, <1>2 DEF DataTyped
  <2>4. DOMAIN notifies \subseteq 1 .. r /\ retired \subseteq 1 .. r
    BY <1>1, <1>6 DEF DataTyped
  <2>5. QED
    BY <1>1, <1>2, <1>4, <1>6, <2>1, <2>2, <2>3, <2>4 DEF DataTyped
<1>11. RegistrationsApart'
  <2>1. \A d \in Contexts \ {c} : guestFunction'[d] # r
    BY <1>1, <1>6, <1>9 DEF DataTyped
  <2>2. \A d \in Contexts : InUse(d) => d <= count' /\ guestFunction[d] \in 1 .. r
    <3>1. \A d \in Contexts : InUse(d) => d <= count /\ guestFunction[d] \in 1 .. registered
      BY DEF Sound, RegistrationParts, RegistrationsApart
    <3>2. \A d \in Contexts : d \in Nat
      BY DEF Contexts
    <3>3. count \in Nat /\ count' \in Nat
      BY <1>1, <1>4 DEF DataTyped
    <3>4. QED
      BY <1>4, <1>6, <3>1, <3>2, <3>3
  <2>3. QED
    BY <1>2, <1>4, <1>6, <1>9, <2>1, <2>2 DEF RegistrationsApart, InUse, Sound, RegistrationParts
<1>12. RetiredMuted'
  BY <1>1, <1>2, <1>6, <1>9 DEF RetiredMuted, InUse, Sound, RegistrationParts, DataTyped
<1>13. GraphsMuted'
  BY <1>2, <1>7, <1>9 DEF GraphsMuted, InUse, Sound, RegistrationParts
<1>14. /\ Keeping' = Keeping \cup {t} /\ t \notin Keeping
       /\ at'[t] = c /\ pc'[t] = "attach" /\ \A u \in Keeping : at'[u] = at[u]
       /\ Carrying' = Carrying /\ Disposals' = Disposals
  BY <1>2, <1>8, Kinds DEF Moves, Keeping, Carrying, Disposals
<1>15. KeptOnce'
  BY <1>2, <1>5, <1>14, KeptIsUsed DEF Sound, RegistrationParts, KeptOnce
<1>16. KeptInUse'
  <2>1. \A u \in Keeping' : at'[u] \in Contexts /\ guestFunction'[at'[u]] # None
    <3>1. \A u \in Keeping : at[u] \in Contexts \ {c} /\ guestFunction[at[u]] # None
      BY <1>5, KeptIsUsed DEF Sound, RegistrationParts, KeptInUse, InUse
    <3>2. QED
      BY <1>4, <1>6, <1>9, <1>14, <3>1
  <2>2. \A k \in Carrying' :
          deferred'[k].ctx \in Contexts /\ guestFunction'[deferred'[k].ctx] # None
    <3>1. \A k \in Carrying :
            deferred[k].ctx \in Contexts \ {c} /\ guestFunction[deferred[k].ctx] # None
      BY <1>5, KeptIsUsed DEF Sound, RegistrationParts, KeptInUse, InUse
    <3>2. QED
      BY <1>2, <1>9, <1>14, <3>1
  <2>3. \A q \in DOMAIN notifies' : notifies'[q] \in Contexts /\ guestFunction'[notifies'[q]] = q
    BY <1>2, <1>5, <1>9, KeptIsUsed DEF Sound, RegistrationParts, KeptInUse, InUse
  <2>4. QED
    BY <2>1, <2>2, <2>3 DEF KeptInUse, InUse
<1>17. KeptByKind'
  <2>1. \A k \in Carrying : owner'[deferred[k].ctx] = owner[deferred[k].ctx]
    BY <1>5, <1>9, KeptIsUsed DEF Sound, RegistrationParts, KeptInUse
  <2>2. \A q \in DOMAIN notifies : owner'[notifies[q]] = owner[notifies[q]]
    BY <1>5, <1>9, KeptIsUsed DEF Sound, RegistrationParts, KeptInUse
  <2>3. \A u \in Guests \ {t} : /\ pc'[u] = pc[u] /\ at'[u] = at[u]
                                /\ pc[u] \in {"release", "attach"} => owner'[at[u]] = owner[at[u]]
    BY <1>5, <1>8, <1>9, KeptIsUsed, Kinds DEF Moves, Keeping, Sound, RegistrationParts, KeptInUse
  <2>4. QED
    BY <1>2, <1>7, <1>9, <1>14, <2>1, <2>2, <2>3 DEF Sound, RegistrationParts, KeptByKind
<1>18. DisposedOnce'
  BY <1>2, <1>8, <1>14, Kinds DEF Sound, RegistrationParts, DisposedOnce, Disposing, Moves
<1>19. AddedBefore'
  BY <1>2, <1>14 DEF Sound, RegistrationParts, AddedBefore
<1>20. LiveKeepsContext'
  <2>1. ASSUME NEW q \in 1 .. r \ retired
        PROVE  \E d \in Contexts : guestFunction'[d] = q /\ MutedWhileClosing(d)'
    <3>1. CASE q = r
      BY <1>4, <1>9, <3>1 DEF MutedWhileClosing
    <3>2. CASE q # r
      <4>1. q \in 1 .. registered
        BY <1>1, <3>2 DEF r, DataTyped
      <4>2. PICK d \in Contexts : guestFunction[d] = q /\ MutedWhileClosing(d)
        BY <2>1, <4>1 DEF Sound, RegistrationParts, LiveKeepsContext
      <4>3. d # c
        BY <1>5, <4>1, <4>2, CallbacksAssumption
      <4>4. QED
        BY <1>2, <1>9, <4>2, <4>3 DEF MutedWhileClosing
    <3>3. QED
      BY <3>1, <3>2
  <2>2. QED
    BY <1>2, <1>16, <2>1 DEF LiveKeepsContext, KeptInUse
<1>21. ClosedByOne'
  BY <1>2, <1>8, Kinds, ClosedStays DEF Sound, RegistrationParts, Moves
<1>22. QED
  BY <1>8, <1>10, <1>11, <1>12, <1>13, <1>15, <1>16, <1>17, <1>18, <1>19, <1>20, <1>21
  DEF Sound, RegistrationParts

-----------------------------------------------------------------------------
(* Contexts are given back *)

\* A context that nobody keeps any more goes, and its registration is given up.
LEMMA FreeKeeps ==
  ASSUME Sound, ThreadsTyped', NEW c \in Contexts, Frees({c}),
         UNCHANGED <<count, muted, deferred, notifies, graphs, registered>>,
         retired' = retired \cup ({guestFunction[c]} \ {None}),
         TakesNothing,
         \A t \in Keeping' : at'[t] # c,
         \A k \in Carrying : deferred[k].ctx # c,
         \A q \in DOMAIN notifies : notifies[q] # c
  PROVE  RegistrationParts'
<1>1. /\ guestFunction'[c] = None
      /\ \A d \in Contexts \ {c} : guestFunction'[d] = guestFunction[d] /\ owner'[d] = owner[d]
  BY DEF Frees
<1>2. retired \subseteq retired'
  OBVIOUS
<1>3. RegistrationsApart'
  BY <1>1 DEF Sound, RegistrationParts, RegistrationsApart, InUse
<1>4. \A d \in Contexts \ {c} : InUse(d) /\ guestFunction[d] \in retired' => guestFunction[d] \in retired
  BY DEF Sound, RegistrationParts, RegistrationsApart, InUse
<1>5. RetiredMuted'
  BY <1>1, <1>4 DEF Sound, RegistrationParts, RetiredMuted, InUse
<1>6. GraphsMuted'
  BY <1>1, <1>2 DEF Sound, RegistrationParts, GraphsMuted, InUse
<1>7. /\ Carrying' = Carrying /\ Disposals' = Disposals
      /\ \A t \in Keeping' : t \in Keeping /\ at'[t] = at[t]
  <2>1. \A t \in Guests : pc'[t] # "add"
    BY GuestPlaces, Kinds DEF ThreadsTyped, PlacesTyped
  <2>2. pc'[Deferred] # "attach"
    BY PlacesAre, Kinds DEF ThreadsTyped, PlacesTyped
  <2>3. \A t \in Guests : t \in Keeping' => t \in Keeping /\ at'[t] = at[t]
    BY <2>1, Kinds DEF TakesNothing, Keeping
  <2>4. Deferred \in Keeping' => Deferred \in Keeping /\ at'[Deferred] = at[Deferred]
    BY <2>2 DEF TakesNothing, Keeping
  <2>5. \A t \in Keeping' : t \in Guests \cup {Deferred}
    BY DEF Keeping
  <2>6. QED
    BY <2>3, <2>4, <2>5 DEF Carrying, Disposals
<1>8. KeptOnce'
  BY <1>7 DEF Sound, RegistrationParts, KeptOnce
<1>9. KeptInUse'
  BY <1>1, <1>7 DEF Sound, RegistrationParts, KeptInUse, InUse
<1>10. KeptByKind'
  <2>1. \A k \in Carrying : owner'[deferred[k].ctx] = owner[deferred[k].ctx]
    BY <1>1 DEF Sound, RegistrationParts, KeptInUse
  <2>2. \A q \in DOMAIN notifies : owner'[notifies[q]] = owner[notifies[q]]
    BY <1>1 DEF Sound, RegistrationParts, KeptInUse
  <2>3. \A t \in Guests : pc'[t] \in {"attach", "release"} =>
          pc'[t] = pc[t] /\ at'[t] = at[t] /\ owner'[at[t]] = owner[at[t]]
    <3>1. \A t \in Guests : pc'[t] \in {"attach", "release"} => t \in Keeping' /\ t \in Keeping
      BY <1>7 DEF Keeping
    <3>2. \A t \in Guests : pc'[t] \in {"attach", "release"} => pc'[t] = pc[t] /\ at'[t] = at[t]
      BY DEF TakesNothing
    <3>3. QED
      BY <1>1, <3>1, <3>2 DEF Sound, RegistrationParts, KeptInUse
  <2>4. QED
    BY <1>7, <2>1, <2>2, <2>3 DEF Sound, RegistrationParts, KeptByKind, TakesNothing
<1>11. DisposedOnce' /\ AddedBefore'
  BY <1>7 DEF Sound, RegistrationParts, DisposedOnce, AddedBefore, TakesNothing
<1>12. LiveKeepsContext'
  <2>1. ASSUME NEW q \in 1 .. registered \ retired'
        PROVE  \E d \in Contexts : guestFunction'[d] = q /\ MutedWhileClosing(d)'
    <3>1. PICK d \in Contexts : guestFunction[d] = q /\ MutedWhileClosing(d)
      BY <1>2, <2>1 DEF Sound, RegistrationParts, LiveKeepsContext
    <3>2. d # c
      BY <2>1, <3>1, CallbacksAssumption
    <3>3. QED
      BY <1>1, <3>1, <3>2 DEF MutedWhileClosing
  <2>2. QED
    BY <1>9, <2>1 DEF LiveKeepsContext, KeptInUse
<1>13. ClosedByOne'
  BY ClosedStays DEF Sound, RegistrationParts, TakesNothing
<1>14. QED
  BY <1>3, <1>5, <1>6, <1>8, <1>9, <1>10, <1>11, <1>12, <1>13 DEF RegistrationParts

LEMMA FreeTyped ==
  ASSUME DataTyped, NEW S \in SUBSET Contexts, Frees(S)
  PROVE  /\ guestFunction' \in [Contexts -> 1 .. registered \cup {None}]
         /\ owner' \in [Contexts -> Graphs \cup {None}]
BY DEF DataTyped, Frees

LEMMA ReleasesKeeps ==
  ASSUME Sound, NEW t \in Guests \cup {Deferred}, Releases(t)
  PROVE  Sound'
<1>1. /\ pc[t] = "release" /\ Frees({at[t]}) /\ Goes(t, Home(t))
      /\ retired' = retired \cup ({guestFunction[at[t]]} \ {None})
      /\ UNCHANGED <<count, muted, lock, ready, renderThread, registry, jobs, deferred,
                     notifies, graphs, hooks, cycle, at, job, op, registered>>
  BY DEF Releases, tables, host
<1>2. t \in Keeping /\ at[t] \in Contexts /\ InUse(at[t])
  BY <1>1 DEF Keeping, Sound, RegistrationParts, KeptInUse
<1>3. ThreadsTyped' /\ Moves(t, Home(t), at[t]) /\ Home(t) \in {"run", "guest", "idle"}
  <2>1. CASE t \in Guests
    BY <1>1, <2>1, GuestStays, GuestPlaces DEF Sound
  <2>2. CASE t = Deferred
    <3>1. Home(Deferred) = "idle" /\ "idle" \in PlacesOf(Deferred)
      BY Kinds, PlacesAre DEF Home, Guests
    <3>2. QED
      BY <1>1, <2>2, <3>1, DeferredStays DEF Sound
  <2>3. QED
    BY <2>1, <2>2
<1>4. DataTyped'
  <2>1. guestFunction[at[t]] \in 1 .. registered
    BY <1>2 DEF Sound, RegistrationParts, RegistrationsApart
  <2>2. retired' \subseteq 1 .. registered
    BY <1>1, <2>1 DEF Sound, DataTyped
  <2>3. QED
    BY <1>1, <1>2, <2>2, FreeTyped DEF Sound, DataTyped
<1>5. TakesNothing
  BY <1>1, <1>3, Kinds DEF Moves, TakesNothing, Disposing
<1>6. \A u \in Keeping' : u \in Keeping /\ u # t /\ at'[u] = at[u]
  BY <1>1, <1>3, Kinds DEF Moves, Keeping
<1>7. /\ \A u \in Keeping' : at'[u] # at[t]
      /\ \A k \in Carrying : deferred[k].ctx # at[t]
      /\ \A q \in DOMAIN notifies : notifies[q] # at[t]
  BY <1>2, <1>6 DEF Sound, RegistrationParts, KeptOnce
<1>8. RegistrationParts'
  BY <1>1, <1>2, <1>3, <1>5, <1>7, FreeKeeps
<1>9. QED
  BY <1>3, <1>4, <1>8 DEF Sound

\* The sweep takes away none but the registrations of a graph that was disposed.
LEMMA WalkStepsKeeps ==
  ASSUME Sound, WalkSteps
  PROVE  Sound'
<1> DEFINE c == at[Deferred]
           S == IF pc[Deferred] = "sweep" THEN {c} \cap OwnedBy(op.graph) ELSE {}
<1>1. /\ pc[Deferred] \in {"detach", "sweep"} /\ registry = Deferred
      /\ c <= count /\ Frees(S)
      /\ at' = [at EXCEPT ![Deferred] = c + 1]
      /\ UNCHANGED <<count, muted, lock, ready, renderThread, registry, jobs, deferred,
                     notifies, graphs, hooks, cycle, pc, job, op, registered, retired>>
  BY DEF WalkSteps, Walking, tables, host, history
<1>2. c \in 1 .. Capacity + 1 /\ count \in 0 .. Capacity /\ Capacity \in Nat /\ op \in Ops
  BY <1>1, CallbacksAssumption DEF Sound, ThreadsTyped, BusyTyped, OpTyped, DataTyped
<1>3. c \in Contexts /\ c + 1 \in 1 .. Capacity + 1 /\ c + 1 \in Anywhere
  BY <1>1, <1>2 DEF Contexts, Anywhere
<1>4. ThreadsTyped' /\ Moves(Deferred, pc[Deferred], c + 1)
  <2>2. at'[Deferred] = c + 1 /\ \A u \in Threads \ {Deferred} : at'[u] = at[u]
    BY <1>1, Kinds DEF Sound, ThreadsTyped, BusyTyped
  <2>3. BusyTyped'
    BY <1>1, <1>3, <2>2, Kinds DEF Sound, ThreadsTyped, BusyTyped
  <2>4. PlacesTyped' /\ JobsTyped' /\ OpTyped'
    BY <1>1 DEF Sound, ThreadsTyped, PlacesTyped, JobsTyped, OpTyped
  <2>5. QED
    BY <1>1, <2>2, <2>3, <2>4 DEF ThreadsTyped, Moves
<1>5. S \in SUBSET Contexts
  BY <1>3
<1> HIDE DEF c
<1>6. DataTyped'
  BY <1>1, <1>5, FreeTyped DEF Sound, DataTyped
<1>7. TakesNothing
  BY <1>1, <1>4, Kinds DEF Moves, TakesNothing, Disposing
<1>8. CASE S = {}
  <2>1. guestFunction' = guestFunction /\ owner' = owner
    BY <1>1, <1>8 DEF Frees, Sound, DataTyped
  <2>2. UNCHANGED registrations
    BY <1>1, <2>1 DEF registrations, history
  <2>3. QED
    BY <1>4, <1>6, <1>7, <2>2, QuietKeeps DEF Sound
<1>9. CASE S # {}
  <2> DEFINE g == op.graph
  <2>1. pc[Deferred] = "sweep" /\ S = {c} /\ InUse(c) /\ owner[c] = g
    BY <1>9 DEF OwnedBy, InUse
  <2>2. /\ g \in Graphs /\ graphs[g] = "retired"
        /\ \A k \in Disposals : deferred[k].graph # g
    BY <2>1 DEF Sound, RegistrationParts, DisposedOnce, Disposing
  <2> HIDE DEF g, S
  <2>3. g # None
    BY <2>2, CallbacksAssumption
  <2>4. guestFunction[c] \in retired
    BY <1>3, <2>1, <2>2, <2>3 DEF Sound, RegistrationParts, GraphsMuted
  <2>5. \A k \in Carrying : deferred[k].ctx # c
    <3> SUFFICES ASSUME NEW k \in Carrying, deferred[k].ctx = c
                 PROVE  FALSE
      OBVIOUS
    <3>1. deferred[k].kind = "add" /\ deferred[k].graph = g
      BY <2>1, <2>3 DEF Sound, RegistrationParts, KeptByKind
    <3>2. QED
      BY <2>2, <3>1 DEF Sound, RegistrationParts, AddedBefore, Carrying, Disposals
  <2>6. \A q \in DOMAIN notifies : notifies[q] # c
    BY <2>1, <2>3 DEF Sound, RegistrationParts, KeptByKind
  <2>7. \A t \in Keeping' : at'[t] # c
    <3> SUFFICES ASSUME NEW t \in Keeping', at'[t] = c
                 PROVE  FALSE
      OBVIOUS
    <3>1. t # Deferred /\ t \in Guests /\ pc[t] \in {"attach", "add", "release"}
      BY <1>1, <2>1 DEF Keeping
    <3>2. at[t] = c /\ pc[t] \in {"attach", "release"}
      BY <1>4, <3>1, GuestPlaces, Kinds DEF Moves, Sound, ThreadsTyped, PlacesTyped
    <3>3. QED
      BY <2>1, <2>2, <2>3, <3>1, <3>2 DEF Sound, RegistrationParts, KeptByKind
  <2>8. retired' = retired \cup ({guestFunction[c]} \ {None})
    BY <1>1, <2>4
  <2>9. RegistrationParts'
    BY <1>1, <1>3, <1>4, <1>7, <2>1, <2>5, <2>6, <2>7, <2>8, FreeKeeps
  <2>10. QED
    BY <1>4, <1>6, <2>9 DEF Sound
<1>10. QED
  BY <1>8, <1>9

-----------------------------------------------------------------------------
(* The queue of the deferred worker *)

LEMMA QueueMoves ==
  ASSUME DataTyped, NEW kind \in {"add", "release", "dispose"},
         NEW g \in Graphs \cup {None}, NEW c \in Contexts \cup {None},
         deferred' = Append(deferred, [kind |-> kind, graph |-> g, ctx |-> c])
  PROVE  \E n \in Nat :
           /\ deferred' \in Seq(Ops)
           /\ DOMAIN deferred' = DOMAIN deferred \cup {n}
           /\ \A k \in DOMAIN deferred : k < n /\ deferred'[k] = deferred[k]
           /\ deferred'[n].kind = kind /\ deferred'[n].graph = g /\ deferred'[n].ctx = c
<1> DEFINE o == [kind |-> kind, graph |-> g, ctx |-> c]
           n == Len(deferred) + 1
<1>1. deferred \in Seq(Ops) /\ deferred' = Append(deferred, o)
  BY DEF DataTyped
<1>2. o \in Ops
  BY DEF Ops
<1>3. o.kind = kind /\ o.graph = g /\ o.ctx = c
  OBVIOUS
<1> HIDE DEF o
<1>4. /\ deferred' \in Seq(Ops) /\ n \in Nat
      /\ DOMAIN deferred' = DOMAIN deferred \cup {n}
      /\ \A k \in DOMAIN deferred : k < n /\ deferred'[k] = deferred[k]
      /\ deferred'[n] = o
  BY <1>1, <1>2
<1>5. QED
  BY <1>3, <1>4

LEMMA TakeMoves ==
  ASSUME DataTyped, deferred # <<>>, deferred' = Tail(deferred)
  PROVE  /\ deferred' \in Seq(Ops) /\ Head(deferred) = deferred[1] /\ deferred[1] \in Ops
         /\ 1 \in DOMAIN deferred
         /\ \A k \in DOMAIN deferred' :
              k \in Nat /\ k >= 1 /\ k + 1 \in DOMAIN deferred /\ deferred'[k] = deferred[k + 1]
         /\ \A k \in DOMAIN deferred : k \in Nat /\ k >= 1 /\ (k > 1 => k - 1 \in DOMAIN deferred')
BY DEF DataTyped

LEMMA AttachesKeeps ==
  ASSUME Sound, NEW t \in Guests, Attaches(t)
  PROVE  Sound'
<1> DEFINE c == at[t]
           r == guestFunction[c]
<1>1. /\ pc[t] = "attach" /\ Goes(t, Home(t))
      /\ UNCHANGED <<count, guestFunction, owner, muted, lock, ready, renderThread, registry,
                     jobs, graphs, cycle, at, job, op, registered, retired>>
  BY DEF Attaches, contexts, history
<1>2. /\ t \in Keeping /\ c \in Contexts /\ InUse(c) /\ r \in 1 .. registered
      /\ owner[c] \in Graphs \cup {None}
      /\ owner[c] # None => graphs[owner[c]] = "open"
  BY <1>1 DEF Keeping, Sound, RegistrationParts, KeptInUse, KeptByKind, RegistrationsApart, DataTyped
<1>3. ThreadsTyped' /\ Moves(t, Home(t), c) /\ Home(t) \in {"run", "guest"}
  BY <1>1, GuestStays, GuestPlaces DEF Sound
<1>4. Keeping' = Keeping \ {t} /\ \A u \in Keeping : at'[u] = at[u]
  BY <1>1, <1>3, Kinds DEF Moves, Keeping
<1>5. /\ \A u \in Keeping \ {t} : at[u] # c
      /\ \A k \in Carrying : deferred[k].ctx # c
      /\ \A q \in DOMAIN notifies : notifies[q] # c
  BY <1>2 DEF Sound, RegistrationParts, KeptOnce
<1>6. \A u \in Guests : pc'[u] \in {"register", "attach", "release", "mute"} =>
        pc'[u] = pc[u] /\ at'[u] = at[u]
  BY <1>3, Kinds DEF Moves
<1>7. Disposing' = Disposing /\ op' = op
  BY <1>1, <1>3, Kinds DEF Moves, Disposing
<1> HIDE DEF r, c
<1>8. RegistrationsApart' /\ RetiredMuted' /\ GraphsMuted'
  BY <1>1 DEF Sound, RegistrationParts, RegistrationsApart, RetiredMuted, GraphsMuted, InUse
<1>8a. ClosedByOne'
  BY <1>1, <1>6, ClosedStays DEF Sound, RegistrationParts
<1>9. CASE owner[c] # None
  <2>1. Queue("add", owner[c], c) /\ UNCHANGED <<hooks, notifies>>
    BY <1>9 DEF Attaches, c
  <2>2. PICK n \in Nat :
           /\ deferred' \in Seq(Ops)
           /\ DOMAIN deferred' = DOMAIN deferred \cup {n}
           /\ \A k \in DOMAIN deferred : k < n /\ deferred'[k] = deferred[k]
           /\ deferred'[n].kind = "add" /\ deferred'[n].graph = owner[c] /\ deferred'[n].ctx = c
    <3>1. DataTyped /\ "add" \in {"add", "release", "dispose"} /\ c \in Contexts \cup {None}
      BY <1>2 DEF Sound
    <3>2. QED
      BY <1>2, <2>1, <3>1, QueueMoves DEF Queue
  <2>3. /\ Carrying' = Carrying \cup {n} /\ Disposals' = Disposals
        /\ n \notin Carrying
        /\ \A k \in Carrying : deferred'[k] = deferred[k]
        /\ \A k \in Disposals : deferred'[k] = deferred[k]
    BY <2>2 DEF Carrying, Disposals
  <2>4. DataTyped'
    BY <1>1, <2>1, <2>2 DEF Sound, DataTyped
  <2>5. KeptOnce'
    BY <1>4, <1>5, <2>1, <2>2, <2>3 DEF Sound, RegistrationParts, KeptOnce
  <2>6. KeptInUse'
    BY <1>1, <1>2, <1>4, <2>1, <2>2, <2>3 DEF Sound, RegistrationParts, KeptInUse, InUse
  <2>7. KeptByKind'
    BY <1>1, <1>2, <1>6, <1>9, <2>1, <2>2, <2>3 DEF Sound, RegistrationParts, KeptByKind
  <2>8. DisposedOnce'
    BY <1>1, <1>7, <2>3 DEF Sound, RegistrationParts, DisposedOnce
  <2>9. AddedBefore'
    BY <1>1, <1>2, <1>9, <2>2, <2>3 DEF Sound, RegistrationParts, AddedBefore
  <2>10. LiveKeepsContext'
    BY <1>1, <2>1 DEF Sound, RegistrationParts, LiveKeepsContext, MutedWhileClosing
  <2>11. QED
    BY <1>3, <1>8, <1>8a, <2>4, <2>5, <2>6, <2>7, <2>8, <2>9, <2>10 DEF Sound, RegistrationParts
<1>10. CASE owner[c] = None
  <2>1. /\ \E i \in IOThreads : hooks' = [hooks EXCEPT ![c] = i]
        /\ notifies' = [q \in DOMAIN notifies \cup {r} |-> IF q \in DOMAIN notifies THEN notifies[q] ELSE c]
        /\ deferred' = deferred
    BY <1>10 DEF Attaches, c, r
  <2>2. r \notin DOMAIN notifies
    <3> SUFFICES ASSUME r \in DOMAIN notifies PROVE FALSE
      OBVIOUS
    <3>1. notifies[r] \in Contexts /\ guestFunction[notifies[r]] = guestFunction[c]
      BY DEF Sound, RegistrationParts, KeptInUse, r
    <3>2. notifies[r] = c
      BY <1>2, <3>1 DEF Sound, RegistrationParts, RegistrationsApart
    <3>3. QED
      BY <1>5, <3>2
  <2>3. /\ DOMAIN notifies' = DOMAIN notifies \cup {r} /\ notifies'[r] = c
        /\ \A q \in DOMAIN notifies : notifies'[q] = notifies[q]
    BY <2>1, <2>2
  <2>4. DataTyped'
    <3>1. hooks' \in [Contexts -> IOThreads \cup {None}]
      BY <2>1 DEF Sound, DataTyped
    <3>2. notifies' \in [DOMAIN notifies' -> Contexts] /\ DOMAIN notifies' \subseteq 1 .. registered
      BY <1>2, <2>1, <2>3 DEF Sound, DataTyped
    <3>3. QED
      BY <1>1, <2>1, <3>1, <3>2 DEF Sound, DataTyped
  <2>5. Carrying' = Carrying /\ Disposals' = Disposals
    BY <2>1 DEF Carrying, Disposals
  <2>6. KeptOnce'
    BY <1>4, <1>5, <2>1, <2>3, <2>5 DEF Sound, RegistrationParts, KeptOnce
  <2>7. KeptInUse'
    BY <1>1, <1>2, <1>4, <2>1, <2>3, <2>5 DEF Sound, RegistrationParts, KeptInUse, InUse, r
  <2>8. KeptByKind'
    BY <1>1, <1>6, <1>10, <2>1, <2>3, <2>5 DEF Sound, RegistrationParts, KeptByKind
  <2>9. DisposedOnce' /\ AddedBefore'
    BY <1>1, <1>7, <2>1, <2>5 DEF Sound, RegistrationParts, DisposedOnce, AddedBefore
  <2>10. LiveKeepsContext'
    BY <1>1, <2>7 DEF Sound, RegistrationParts, LiveKeepsContext, MutedWhileClosing, KeptInUse
  <2>11. QED
    BY <1>3, <1>8, <1>8a, <2>4, <2>6, <2>7, <2>8, <2>9, <2>10 DEF Sound, RegistrationParts
<1>11. QED
  BY <1>9, <1>10

\* A unit's registration is given up: muted and queued from inside its own render,
\* otherwise in the hands of the thread that releases it.
LEMMA RetireKeeps ==
  ASSUME Sound, ThreadsTyped', NEW t \in Guests, NEW c \in Contexts, InUse(c), owner[c] = None,
         Retires(t, c), pc[t] \in {"attach", "run", "guest"},
         \A u \in Threads \ {t} : pc'[u] = pc[u] /\ at'[u] = at[u],
         renderThread[c] = t => pc'[t] = Home(t) /\ at'[t] = at[t],
         renderThread[c] # t => pc'[t] = "release" /\ at'[t] = c,
         UNCHANGED <<count, guestFunction, owner, graphs, op, registered>>,
         DOMAIN notifies' \subseteq DOMAIN notifies,
         \A q \in DOMAIN notifies' : notifies'[q] = notifies[q] /\ notifies[q] # c,
         \A u \in Keeping \ {t} : at[u] # c,
         \A k \in Carrying : deferred[k].ctx # c
  PROVE  RegistrationParts' /\ muted' \in [Contexts -> BOOLEAN] /\ deferred' \in Seq(Ops)
         /\ retired' \subseteq 1 .. registered
<1>1. Home(t) \in {"run", "guest"} /\ t # Deferred /\ t \in Threads
  BY GuestPlaces, Kinds
<1>2. guestFunction[c] \in 1 .. registered
  BY DEF Sound, RegistrationParts, RegistrationsApart
<1>3. \A u \in Guests \ {t} : pc'[u] = pc[u] /\ at'[u] = at[u]
  BY Kinds
<1>4. pc'[Deferred] = pc[Deferred] /\ at'[Deferred] = at[Deferred] /\ Disposing' = Disposing
  BY Kinds DEF Disposing
<1>5. RegistrationsApart'
  BY DEF Sound, RegistrationParts, RegistrationsApart, InUse
<1>5a. ClosedByOne'
  BY <1>1, <1>3, ClosedStays DEF Sound, RegistrationParts
<1>6. CASE renderThread[c] = t
  <2>1. /\ muted' = [muted EXCEPT ![c] = TRUE]
        /\ Queue("release", None, c)
        /\ retired' = retired \cup {guestFunction[c]}
    BY <1>6 DEF Retires
  <2>2. PICK n \in Nat :
           /\ deferred' \in Seq(Ops)
           /\ DOMAIN deferred' = DOMAIN deferred \cup {n}
           /\ \A k \in DOMAIN deferred : k < n /\ deferred'[k] = deferred[k]
           /\ deferred'[n].kind = "release" /\ deferred'[n].graph = None /\ deferred'[n].ctx = c
    <3>1. /\ DataTyped /\ "release" \in {"add", "release", "dispose"}
          /\ None \in Graphs \cup {None} /\ c \in Contexts \cup {None}
      BY DEF Sound
    <3>2. QED
      BY <2>1, <3>1, QueueMoves DEF Queue
  <2>3. /\ Carrying' = Carrying \cup {n} /\ Disposals' = Disposals
        /\ n \notin Carrying
        /\ \A k \in Carrying : deferred'[k] = deferred[k]
        /\ \A k \in Disposals : deferred'[k] = deferred[k]
    BY <2>2 DEF Carrying, Disposals
  <2>4. Keeping' = Keeping \ {t} /\ \A u \in Keeping \ {t} : at'[u] = at[u]
    BY <1>1, <1>3, <1>4, <1>6 DEF Keeping
  <2>5. muted' \in [Contexts -> BOOLEAN] /\ muted'[c] = TRUE
        /\ \A d \in Contexts \ {c} : muted'[d] = muted[d]
    BY <2>1 DEF Sound, DataTyped
  <2>6. RetiredMuted'
    BY <2>1, <2>5 DEF Sound, RegistrationParts, RetiredMuted, RegistrationsApart, InUse
  <2>7. GraphsMuted'
    BY <2>1 DEF Sound, RegistrationParts, GraphsMuted, InUse
  <2>8. KeptOnce'
    BY <2>2, <2>3, <2>4 DEF Sound, RegistrationParts, KeptOnce
  <2>9. KeptInUse'
    BY <2>2, <2>3, <2>4 DEF Sound, RegistrationParts, KeptInUse, InUse
  <2>10. KeptByKind'
    BY <1>1, <1>3, <1>6, <2>2, <2>3 DEF Sound, RegistrationParts, KeptByKind
  <2>11. DisposedOnce'
    BY <1>4, <2>3 DEF Sound, RegistrationParts, DisposedOnce
  <2>12. AddedBefore'
    BY <2>2, <2>3 DEF Sound, RegistrationParts, AddedBefore
  <2>13. LiveKeepsContext'
    <3>1. ASSUME NEW q \in 1 .. registered \ retired'
          PROVE  \E d \in Contexts : guestFunction[d] = q /\ MutedWhileClosing(d)'
      <4>1. PICK d \in Contexts : guestFunction[d] = q /\ MutedWhileClosing(d)
        BY <2>1, <3>1 DEF Sound, RegistrationParts, LiveKeepsContext
      <4>2. d # c
        BY <2>1, <3>1, <4>1
      <4>3. QED
        BY <2>5, <4>1, <4>2 DEF MutedWhileClosing
    <3>2. QED
      BY <2>9, <3>1 DEF LiveKeepsContext, KeptInUse
  <2>14. retired' \subseteq 1 .. registered
    BY <1>2, <2>1 DEF Sound, DataTyped
  <2>15. QED
    BY <1>5, <1>5a, <2>2, <2>5, <2>6, <2>7, <2>8, <2>9, <2>10, <2>11, <2>12, <2>13, <2>14
    DEF RegistrationParts
<1>7. CASE renderThread[c] # t
  <2>1. UNCHANGED <<muted, deferred, retired>>
    BY <1>7 DEF Retires, ReleasesInline
  <2>2. Keeping' = Keeping \cup {t} /\ at'[t] = c /\ \A u \in Keeping \ {t} : at'[u] = at[u]
    BY <1>3, <1>4, <1>7 DEF Keeping
  <2>3. Carrying' = Carrying /\ Disposals' = Disposals
    BY <2>1 DEF Carrying, Disposals
  <2>4. RetiredMuted' /\ GraphsMuted'
    BY <2>1 DEF Sound, RegistrationParts, RetiredMuted, GraphsMuted, InUse
  <2>5. KeptOnce'
    BY <2>1, <2>2, <2>3 DEF Sound, RegistrationParts, KeptOnce
  <2>6. KeptInUse'
    BY <2>1, <2>2, <2>3 DEF Sound, RegistrationParts, KeptInUse, InUse
  <2>7. KeptByKind'
    BY <1>3, <1>7, <2>1, <2>3 DEF Sound, RegistrationParts, KeptByKind
  <2>8. DisposedOnce' /\ AddedBefore'
    BY <1>4, <2>1, <2>3 DEF Sound, RegistrationParts, DisposedOnce, AddedBefore
  <2>9. LiveKeepsContext'
    BY <2>1, <2>6 DEF Sound, RegistrationParts, LiveKeepsContext, MutedWhileClosing, KeptInUse
  <2>10. QED
    BY <1>5, <1>5a, <2>1, <2>4, <2>5, <2>6, <2>7, <2>8, <2>9 DEF Sound, DataTyped, RegistrationParts
<1>8. QED
  BY <1>6, <1>7

LEMMA RetiresMoves ==
  ASSUME ThreadsTyped, NEW t \in Guests, NEW c \in Contexts, Retires(t, c), pc[t] # "idle",
         job' = job, op' = op
  PROVE  /\ ThreadsTyped'
         /\ \A u \in Threads \ {t} : pc'[u] = pc[u] /\ at'[u] = at[u]
         /\ renderThread[c] = t => pc'[t] = Home(t) /\ at'[t] = at[t]
         /\ renderThread[c] # t => pc'[t] = "release" /\ at'[t] = c
<1>1. CASE renderThread[c] = t
  BY <1>1, GuestStays DEF Retires, Moves
<1>2. CASE renderThread[c] # t
  <2>1. c \in Anywhere
    BY CallbacksAssumption DEF Contexts, Anywhere
  <2>2. QED
    BY <1>2, <2>1, GuestMoves DEF Retires, ReleasesInline, GoesTo, Moves
<1>3. QED
  BY <1>1, <1>2

LEMMA AttachFailsKeeps ==
  ASSUME Sound, NEW t \in Guests, AttachFails(t)
  PROVE  Sound'
<1> DEFINE c == at[t]
<1>1. /\ pc[t] = "attach" /\ owner[c] = None /\ Retires(t, c)
      /\ UNCHANGED <<count, guestFunction, owner, lock, ready, renderThread, registry,
                     jobs, notifies, graphs, hooks, cycle, job, op, registered>>
  BY DEF AttachFails, tables, host
<1>2. t \in Keeping /\ c \in Contexts /\ InUse(c)
  BY <1>1 DEF Keeping, Sound, RegistrationParts, KeptInUse
<1>3. /\ \A u \in Keeping \ {t} : at[u] # c
      /\ \A k \in Carrying : deferred[k].ctx # c
      /\ \A q \in DOMAIN notifies : notifies[q] # c
  BY <1>2 DEF Sound, RegistrationParts, KeptOnce
<1> HIDE DEF c
<1>4. /\ ThreadsTyped'
      /\ \A u \in Threads \ {t} : pc'[u] = pc[u] /\ at'[u] = at[u]
      /\ renderThread[c] = t => pc'[t] = Home(t) /\ at'[t] = at[t]
      /\ renderThread[c] # t => pc'[t] = "release" /\ at'[t] = c
  BY <1>1, <1>2, RetiresMoves DEF Sound
<1>5. RegistrationParts' /\ muted' \in [Contexts -> BOOLEAN] /\ deferred' \in Seq(Ops)
      /\ retired' \subseteq 1 .. registered
  BY <1>1, <1>2, <1>3, <1>4, RetireKeeps
<1>6. DataTyped'
  BY <1>1, <1>5 DEF Sound, DataTyped
<1>7. QED
  BY <1>4, <1>5, <1>6 DEF Sound

LEMMA RemovesKeeps ==
  ASSUME Sound, NEW t \in Guests, NEW r, Removes(t, r)
  PROVE  Sound'
<1> DEFINE c == notifies[r]
<1>1. /\ Calling(t) /\ r \in DOMAIN notifies /\ Retires(t, c)
      /\ hooks' = [hooks EXCEPT ![c] = None]
      /\ notifies' = [q \in DOMAIN notifies \ {r} |-> notifies[q]]
      /\ UNCHANGED <<count, guestFunction, owner, lock, ready, renderThread, registry,
                     jobs, graphs, cycle, job, op, registered>>
  BY DEF Removes
<1>2. c \in Contexts /\ guestFunction[c] = r /\ owner[c] = None /\ InUse(c)
  BY <1>1, CallbacksAssumption DEF Sound, DataTyped, RegistrationParts, KeptInUse, KeptByKind, InUse
<1>3. /\ \A u \in Keeping : at[u] # c
      /\ \A k \in Carrying : deferred[k].ctx # c
  BY <1>1 DEF Sound, RegistrationParts, KeptOnce
<1>4. /\ DOMAIN notifies' \subseteq DOMAIN notifies
      /\ \A q \in DOMAIN notifies' : notifies'[q] = notifies[q] /\ notifies[q] # c
  BY <1>1, <1>2 DEF Sound, RegistrationParts, KeptInUse
<1>5. pc[t] \in {"run", "guest"}
  BY <1>1, CallingIs
<1> HIDE DEF c
<1>6. /\ ThreadsTyped'
      /\ \A u \in Threads \ {t} : pc'[u] = pc[u] /\ at'[u] = at[u]
      /\ renderThread[c] = t => pc'[t] = Home(t) /\ at'[t] = at[t]
      /\ renderThread[c] # t => pc'[t] = "release" /\ at'[t] = c
  BY <1>1, <1>2, <1>5, RetiresMoves DEF Sound
<1>7. RegistrationParts' /\ muted' \in [Contexts -> BOOLEAN] /\ deferred' \in Seq(Ops)
      /\ retired' \subseteq 1 .. registered
  BY <1>1, <1>2, <1>3, <1>4, <1>5, <1>6, RetireKeeps
<1>8. DataTyped'
  <2>1. hooks' \in [Contexts -> IOThreads \cup {None}]
    BY <1>1 DEF Sound, DataTyped
  <2>2. notifies' \in [DOMAIN notifies' -> Contexts] /\ DOMAIN notifies' \subseteq 1 .. registered
    BY <1>1 DEF Sound, DataTyped
  <2>3. QED
    BY <1>1, <1>7, <2>1, <2>2 DEF Sound, DataTyped
<1>9. QED
  BY <1>6, <1>7, <1>8 DEF Sound

\* A disposal mutes every registration of the graph, one after the other,
LEMMA CallsDisposeKeeps ==
  ASSUME Sound, NEW t \in Guests, NEW g \in Graphs, CallsDispose(t, g)
  PROVE  Sound'
<1>1. /\ graphs[g] = "open" /\ GoesTo(t, "mute", g) /\ pc[t] \in {"run", "guest"}
      /\ UNCHANGED <<count, guestFunction, owner, muted, lock, ready, renderThread, registry,
                     jobs, deferred, notifies, hooks, cycle, job, op, registered, retired>>
  BY CallingIs DEF CallsDispose, contexts, host, history
<1>2. graphs'[g] = "closing" /\ \A h \in Graphs \ {g} : graphs'[h] = graphs[h]
  BY DEF CallsDispose, Sound, DataTyped
<1>3. \A u \in Guests : /\ pc[u] = "register" => at[u] # g
                        /\ pc[u] = "attach" => owner[at[u]] # g
  BY DEF CallsDispose
<1>4. g \in Anywhere /\ ThreadsTyped' /\ Moves(t, "mute", g)
  <2>1. g \in Anywhere
    BY DEF Anywhere
  <2>2. QED
    BY <1>1, <2>1, GuestMoves DEF Sound, GoesTo
<1>5. DataTyped'
  <2>1. graphs' \in [Graphs -> {"free", "open", "closing", "retired"}]
    BY DEF CallsDispose, Sound, DataTyped
  <2>2. QED
    BY <1>1, <2>1 DEF Sound, DataTyped
<1>6. RegistrationsApart' /\ RetiredMuted'
  BY <1>1 DEF Sound, RegistrationParts, RegistrationsApart, RetiredMuted, InUse
<1>7. GraphsMuted'
  BY <1>1, <1>2 DEF Sound, RegistrationParts, GraphsMuted, InUse, DataTyped
<1>8. /\ \A u \in Guests \ {t} : pc'[u] = pc[u] /\ at'[u] = at[u]
      /\ pc'[t] = "mute" /\ at'[t] = g
      /\ pc'[Deferred] = pc[Deferred] /\ at'[Deferred] = at[Deferred]
  BY <1>4, Kinds DEF Moves
<1>9. /\ Keeping' = Keeping /\ \A u \in Keeping : at'[u] = at[u]
      /\ Carrying' = Carrying /\ Disposals' = Disposals /\ Disposing' = Disposing
  BY <1>1, <1>8, Kinds DEF Keeping, Carrying, Disposals, Disposing
<1>10. KeptOnce' /\ KeptInUse'
  BY <1>1, <1>9 DEF Sound, RegistrationParts, KeptOnce, KeptInUse, InUse
<1>11. KeptByKind'
  <2>1. \A u \in Guests : pc[u] = "attach" => owner[at[u]] \in Graphs \cup {None}
    BY DEF Sound, DataTyped, RegistrationParts, KeptInUse, Keeping
  <2>2. QED
    BY <1>1, <1>2, <1>3, <1>8, <1>9, <2>1 DEF Sound, RegistrationParts, KeptByKind
<1>12. ClosedByOne'
  <2>1. \A u \in Guests \ {t} : pc'[u] = "mute" =>
          pc[u] = "mute" /\ at'[u] = at[u] /\ at[u] \in Graphs \ {g} /\ graphs'[at[u]] = "closing"
    BY <1>1, <1>2, <1>8 DEF Sound, RegistrationParts, ClosedByOne
  <2>2. QED
    BY <1>2, <1>8, <2>1 DEF Sound, RegistrationParts, ClosedByOne
<1>13. DisposedOnce'
  BY <1>1, <1>2, <1>9 DEF Sound, RegistrationParts, DisposedOnce
<1>14. AddedBefore'
  BY <1>1, <1>2, <1>9 DEF Sound, RegistrationParts, AddedBefore, KeptByKind, Carrying
<1>15. LiveKeepsContext'
  BY <1>1, <1>2, LiveStays DEF Sound, RegistrationParts
<1>16. QED
  BY <1>4, <1>5, <1>6, <1>7, <1>10, <1>11, <1>12, <1>13, <1>14, <1>15 DEF Sound, RegistrationParts

LEMMA MutesKeeps ==
  ASSUME Sound, NEW t \in Guests, NEW c \in Contexts, Mutes(t, c)
  PROVE  Sound'
<1>1. /\ pc[t] = "mute" /\ owner[c] = at[t] /\ muted' = [muted EXCEPT ![c] = TRUE]
      /\ UNCHANGED <<count, guestFunction, owner, lock, ready, renderThread, registry, jobs,
                     deferred, notifies, graphs, hooks, cycle, pc, at, job, op,
                     registered, retired>>
  BY DEF Mutes, OwnedBy, tables, host, history
<1>2. muted' \in [Contexts -> BOOLEAN] /\ muted'[c] /\ \A d \in Contexts \ {c} : muted'[d] = muted[d]
  BY <1>1 DEF Sound, DataTyped
<1>3. owner[c] # None /\ graphs[owner[c]] = "closing"
  BY <1>1, CallbacksAssumption DEF Sound, RegistrationParts, ClosedByOne
<1>4. ThreadsTyped' /\ DataTyped'
  BY <1>1, <1>2 DEF Sound, DataTyped, ThreadsTyped, PlacesTyped, BusyTyped, JobsTyped, OpTyped
<1>5. RegistrationsApart' /\ GraphsMuted'
  BY <1>1 DEF Sound, RegistrationParts, RegistrationsApart, GraphsMuted, InUse
<1>6. RetiredMuted'
  BY <1>1, <1>2 DEF Sound, RegistrationParts, RetiredMuted, InUse
<1>7. Keeping' = Keeping /\ Carrying' = Carrying /\ Disposals' = Disposals /\ Disposing' = Disposing
  BY <1>1 DEF Keeping, Carrying, Disposals, Disposing
<1>8. KeptOnce' /\ KeptInUse' /\ KeptByKind'
  BY <1>1, <1>7 DEF Sound, RegistrationParts, KeptOnce, KeptInUse, KeptByKind, InUse
<1>9. ClosedByOne' /\ DisposedOnce' /\ AddedBefore'
  BY <1>1, <1>7 DEF Sound, RegistrationParts, ClosedByOne, DisposedOnce, AddedBefore
<1>10. LiveKeepsContext'
  <2>1. \A d \in Contexts : MutedWhileClosing(d) => MutedWhileClosing(d)'
    BY <1>1, <1>2, <1>3 DEF MutedWhileClosing
  <2>2. QED
    BY <1>1, <2>1 DEF Sound, RegistrationParts, LiveKeepsContext
<1>11. QED
  BY <1>4, <1>5, <1>6, <1>8, <1>9, <1>10 DEF Sound, RegistrationParts

\* and then retires them with the graph's handle.
LEMMA DisposesKeeps ==
  ASSUME Sound, NEW t \in Guests, Disposes(t)
  PROVE  Sound'
<1> DEFINE g == at[t]
<1>1. /\ pc[t] = "mute" /\ g \in Graphs /\ graphs[g] = "closing"
      /\ \A c \in OwnedBy(g) : muted[c]
      /\ retired' = retired \cup {guestFunction[c] : c \in OwnedBy(g)}
      /\ graphs' = [graphs EXCEPT ![g] = "retired"]
      /\ Queue("dispose", g, None) /\ Goes(t, Home(t))
      /\ UNCHANGED <<count, guestFunction, owner, muted, lock, ready, renderThread, registry,
                     jobs, notifies, hooks, cycle, at, job, op, registered>>
  BY DEF Disposes, host, contexts, Sound, RegistrationParts, ClosedByOne
<1> HIDE DEF g
<1>1a. ThreadsTyped' /\ Moves(t, Home(t), at[t]) /\ Home(t) \in {"run", "guest"}
  BY <1>1, GuestStays, GuestPlaces DEF Sound
<1>1b. /\ \A u \in Guests \ {t} : pc'[u] = pc[u] /\ at'[u] = at[u]
       /\ pc'[t] = Home(t) /\ at'[t] = at[t]
       /\ pc'[Deferred] = pc[Deferred] /\ at'[Deferred] = at[Deferred]
  BY <1>1a, Kinds DEF Moves
<1>2. \A u \in Guests :
        /\ pc[u] = "register" => at[u] # g
        /\ pc[u] = "attach" => owner[at[u]] # g
  BY <1>1, CallbacksAssumption DEF Sound, RegistrationParts, KeptByKind
<1>3. \A c \in Contexts : InUse(c) /\ owner[c] = g <=> c \in OwnedBy(g)
  <2>1. \A c \in Contexts : InUse(c) => c \in 1 .. count
    BY DEF Sound, RegistrationParts, RegistrationsApart, Contexts, DataTyped
  <2>2. OwnedBy(g) \subseteq Contexts
    BY CallbacksAssumption DEF OwnedBy, Contexts, Sound, DataTyped
  <2>3. QED
    BY <2>1, <2>2 DEF OwnedBy, InUse
<1>4. OwnedBy(g) \subseteq Contexts
  BY CallbacksAssumption DEF OwnedBy, Contexts, Sound, DataTyped
<1>5. graphs'[g] = "retired" /\ \A h \in Graphs \ {g} : graphs'[h] = graphs[h]
  BY <1>1 DEF Sound, DataTyped
<1>6. \A c \in Contexts :
        guestFunction[c] \in retired' /\ InUse(c) => guestFunction[c] \in retired \/ c \in OwnedBy(g)
  BY <1>1, <1>4 DEF Sound, RegistrationParts, RegistrationsApart, InUse
<1>7. g # None
  BY <1>1, CallbacksAssumption
<1>8. PICK n \in Nat :
         /\ deferred' \in Seq(Ops)
         /\ DOMAIN deferred' = DOMAIN deferred \cup {n}
         /\ \A k \in DOMAIN deferred : k < n /\ deferred'[k] = deferred[k]
         /\ deferred'[n].kind = "dispose" /\ deferred'[n].graph = g /\ deferred'[n].ctx = None
  <2>1. DataTyped /\ "dispose" \in {"add", "release", "dispose"}
        /\ g \in Graphs \cup {None} /\ None \in Contexts \cup {None}
    BY <1>1 DEF Sound
  <2>2. QED
    BY <1>1, <2>1, QueueMoves DEF Queue
<1>9. /\ Carrying' = Carrying /\ Disposals' = Disposals \cup {n} /\ n \notin Disposals
      /\ \A k \in DOMAIN deferred : deferred'[k] = deferred[k] /\ k < n
  BY <1>8 DEF Carrying, Disposals
<1>10. \A k \in Disposals : deferred[k].graph # g
  BY <1>1 DEF Sound, RegistrationParts, DisposedOnce
<1>11. Disposing => op.graph # g
  BY <1>1 DEF Sound, RegistrationParts, DisposedOnce
<1>12. ClosedByOne'
  <2>1. \A u \in Guests : pc'[u] = "mute" =>
          u # t /\ pc[u] = "mute" /\ at'[u] = at[u] /\ at[u] \in Graphs \ {g} /\ graphs[at[u]] = "closing"
    BY <1>1, <1>1a, <1>1b DEF Sound, RegistrationParts, ClosedByOne, g
  <2>2. QED
    BY <1>5, <2>1 DEF Sound, RegistrationParts, ClosedByOne
<1>13. DataTyped'
  <2>1. muted' \in [Contexts -> BOOLEAN]
    BY <1>1 DEF Sound, DataTyped
  <2>2. retired' \subseteq 1 .. registered
    BY <1>1, <1>3, <1>4 DEF Sound, DataTyped, RegistrationParts, RegistrationsApart
  <2>3. graphs' \in [Graphs -> {"free", "open", "closing", "retired"}]
    BY <1>1 DEF Sound, DataTyped
  <2>4. QED
    BY <1>1, <1>8, <2>1, <2>2, <2>3 DEF Sound, DataTyped
<1>14. Keeping' = Keeping /\ Disposing' = Disposing
  BY <1>1, <1>1a, <1>1b, Kinds DEF Keeping, Disposing
<1>15. RegistrationsApart'
  BY <1>1 DEF Sound, RegistrationParts, RegistrationsApart, InUse
<1>16. RetiredMuted'
  <2> SUFFICES ASSUME NEW c \in Contexts, guestFunction[c] # None, guestFunction[c] \in retired'
               PROVE  muted'[c]
    BY <1>1 DEF RetiredMuted, InUse
  <2>1. muted'[c] = muted[c] /\ (c \in OwnedBy(g) => muted[c])
    BY <1>1
  <2>2. guestFunction[c] \in retired \/ c \in OwnedBy(g)
    BY <1>6 DEF InUse
  <2>3. guestFunction[c] \in retired => muted[c]
    BY DEF Sound, RegistrationParts, RetiredMuted, InUse
  <2>4. QED
    BY <2>1, <2>2, <2>3
<1>17. GraphsMuted'
  <2> SUFFICES ASSUME NEW c \in Contexts, guestFunction[c] # None, owner[c] # None,
                      graphs'[owner[c]] = "retired"
               PROVE  guestFunction[c] \in retired'
    BY <1>1 DEF GraphsMuted, InUse
  <2>1. CASE owner[c] = g
    BY <1>1, <1>3, <2>1 DEF InUse
  <2>2. CASE owner[c] # g
    BY <1>1, <1>5, <2>2 DEF Sound, DataTyped, RegistrationParts, GraphsMuted, InUse
  <2>3. QED
    BY <2>1, <2>2
<1>18. KeptOnce' /\ KeptInUse'
  BY <1>1, <1>9, <1>14 DEF Sound, RegistrationParts, KeptOnce, KeptInUse, InUse, Carrying
<1>19. KeptByKind'
  <2>1. \A u \in Guests : pc[u] = "attach" => owner[at[u]] \in Graphs \cup {None}
    BY DEF Sound, DataTyped, RegistrationParts, KeptInUse, Keeping
  <2>2. QED
    BY <1>1, <1>2, <1>5, <1>9, <1>1a, <1>1b, <2>1 DEF Sound, RegistrationParts, KeptByKind, Carrying
<1>20. DisposedOnce'
  BY <1>1, <1>5, <1>7, <1>8, <1>9, <1>10, <1>11, <1>14
  DEF Sound, RegistrationParts, DisposedOnce, Disposals
<1>21. AddedBefore'
  <2> SUFFICES ASSUME NEW k \in DOMAIN deferred', deferred'[k].kind = "add"
               PROVE  \/ graphs'[deferred'[k].graph] \in {"open", "closing"}
                      \/ \E l \in Disposals' : k < l /\ deferred'[l].graph = deferred'[k].graph
    BY DEF AddedBefore
  <2>1. k \in DOMAIN deferred /\ deferred'[k] = deferred[k] /\ k < n
    BY <1>8
  <2>2. CASE deferred[k].graph = g
    BY <1>8, <1>9, <2>1, <2>2
  <2>3. CASE deferred[k].graph # g
    <3>1. deferred[k].graph \in Graphs
      BY <2>1 DEF Sound, RegistrationParts, KeptByKind, Carrying
    <3>2. CASE graphs[deferred[k].graph] \in {"open", "closing"}
      BY <1>5, <2>1, <2>3, <3>1, <3>2
    <3>3. CASE \E l \in Disposals : k < l /\ deferred[l].graph = deferred[k].graph
      BY <1>9, <2>1, <3>3 DEF Disposals
    <3>4. QED
      BY <2>1, <3>2, <3>3 DEF Sound, RegistrationParts, AddedBefore
  <2>4. QED
    BY <2>2, <2>3
<1>22. LiveKeepsContext'
  <2>1. ASSUME NEW q \in 1 .. registered \ retired'
        PROVE  \E d \in Contexts : guestFunction[d] = q /\ MutedWhileClosing(d)'
    <3>1. PICK d \in Contexts : guestFunction[d] = q /\ MutedWhileClosing(d)
      BY <1>1, <2>1 DEF Sound, RegistrationParts, LiveKeepsContext
    <3>2. d \notin OwnedBy(g)
      BY <1>1, <2>1, <3>1
    <3>3. owner[d] # g /\ owner[d] \in Graphs \cup {None}
      BY <1>3, <2>1, <3>1, <3>2, CallbacksAssumption DEF InUse, Sound, DataTyped
    <3>4. QED
      BY <1>1, <1>5, <3>1, <3>3 DEF MutedWhileClosing
  <2>2. QED
    BY <1>1, <2>1 DEF Sound, RegistrationParts, LiveKeepsContext
<1>23. QED
  BY <1>1a, <1>12, <1>13, <1>15, <1>16, <1>17, <1>18, <1>19, <1>20, <1>21, <1>22
  DEF Sound, RegistrationParts

\* The deferred worker takes over the context that the first operation carries.
LEMMA TakesOpKeeps ==
  ASSUME Sound, TakesOp
  PROVE  Sound'
<1> DEFINE o == deferred[1]
           x == IF o.kind = "dispose" THEN "stop" ELSE o.kind
<1>1. /\ pc[Deferred] = "idle" /\ deferred # <<>> /\ deferred' = Tail(deferred)
      /\ op' = Head(deferred)
      /\ GoesTo(Deferred, IF op'.kind = "dispose" THEN "stop" ELSE op'.kind, op'.ctx)
      /\ UNCHANGED <<count, guestFunction, owner, muted, lock, ready, renderThread, registry,
                     jobs, notifies, graphs, hooks, cycle, job, registered, retired>>
  BY DEF TakesOp, contexts, tables, host, history
<1>2. /\ deferred' \in Seq(Ops) /\ op' = o /\ o \in Ops /\ 1 \in DOMAIN deferred
      /\ \A k \in DOMAIN deferred' :
           k \in Nat /\ k >= 1 /\ k + 1 \in DOMAIN deferred /\ deferred'[k] = deferred[k + 1]
      /\ \A k \in DOMAIN deferred : k \in Nat /\ k >= 1 /\ (k > 1 => k - 1 \in DOMAIN deferred')
  <2>1. DataTyped
    BY DEF Sound
  <2>2. QED
    BY <1>1, <2>1, TakeMoves
<1>3. /\ o.kind \in {"add", "release", "dispose"} /\ o.graph \in Graphs \cup {None}
      /\ o.ctx \in Contexts \cup {None}
  BY <1>2 DEF Ops
<1>4. GoesTo(Deferred, x, o.ctx) /\ x \in {"add", "release", "stop"}
  BY <1>1, <1>2, <1>3
<1>5. \A k \in Carrying' : k + 1 \in Carrying /\ k + 1 # 1 /\ deferred'[k] = deferred[k + 1] /\ k \in Nat
  BY <1>2 DEF Carrying
<1>6. \A k \in Disposals' :
        k + 1 \in Disposals /\ k + 1 # 1 /\ deferred'[k] = deferred[k + 1] /\ k \in Nat
  BY <1>2 DEF Disposals
<1>7. o.kind # "dispose" => 1 \in Carrying
  BY <1>2 DEF Carrying
<1>8. o.kind = "dispose" => 1 \in Disposals
  BY <1>2 DEF Disposals
<1> HIDE DEF o, x
<1>9. ThreadsTyped' /\ Moves(Deferred, x, o.ctx)
  <2>1. o.ctx \in Anywhere
    BY <1>3, CallbacksAssumption DEF Anywhere, Contexts
  <2>2. x \in PlacesOf(Deferred) /\ x \notin {"detach", "sweep"} /\ op' \in Ops
    BY <1>2, <1>4, PlacesAre
  <2>3. QED
    BY <1>1, <1>4, <2>1, <2>2, DeferredMoves DEF Sound, GoesTo
<1>10. \A u \in Guests : pc'[u] = pc[u] /\ at'[u] = at[u]
  BY <1>9, Kinds DEF Moves
<1>11. pc'[Deferred] = x /\ at'[Deferred] = o.ctx
  BY <1>9 DEF Moves
<1>12. /\ \A u \in Keeping' \ {Deferred} : u \in Keeping /\ at'[u] = at[u]
       /\ Deferred \in Keeping' => o.kind # "dispose"
  BY <1>10, <1>11 DEF Keeping, x
<1>13. DataTyped'
  BY <1>1, <1>2 DEF Sound, DataTyped
<1>14. RegistrationsApart' /\ RetiredMuted' /\ GraphsMuted'
  BY <1>1 DEF Sound, RegistrationParts, RegistrationsApart, RetiredMuted, GraphsMuted, InUse
<1>15. KeptOnce'
  <2>1. \A k, l \in Carrying' : deferred'[k].ctx = deferred'[l].ctx => k = l
    <3> SUFFICES ASSUME NEW k \in Carrying', NEW l \in Carrying', deferred'[k].ctx = deferred'[l].ctx
                 PROVE  k = l
      OBVIOUS
    <3>1. k + 1 = l + 1
      BY <1>5 DEF Sound, RegistrationParts, KeptOnce
    <3>2. QED
      BY <1>5, <3>1
  <2>2. Deferred \in Keeping' => 1 \in Carrying /\ o = deferred[1]
    BY <1>7, <1>12 DEF o
  <2>3. \A u \in Keeping' : \A k \in Carrying' : at'[u] # deferred'[k].ctx
    BY <1>5, <1>11, <1>12, <2>2 DEF Sound, RegistrationParts, KeptOnce
  <2>4. \A u, v \in Keeping' : at'[u] = at'[v] => u = v
    BY <1>11, <1>12, <2>2 DEF Sound, RegistrationParts, KeptOnce
  <2>5. \A q \in DOMAIN notifies' : /\ \A u \in Keeping' : at'[u] # notifies'[q]
                                    /\ \A k \in Carrying' : deferred'[k].ctx # notifies'[q]
    <3>1. ASSUME NEW q \in DOMAIN notifies, NEW u \in Keeping'
          PROVE  at'[u] # notifies[q]
      BY <1>11, <1>12, <2>2 DEF Sound, RegistrationParts, KeptOnce
    <3>2. ASSUME NEW q \in DOMAIN notifies, NEW k \in Carrying'
          PROVE  deferred'[k].ctx # notifies[q]
      BY <1>5 DEF Sound, RegistrationParts, KeptOnce
    <3>3. notifies' = notifies
      BY <1>1
    <3>4. QED
      BY <3>1, <3>2, <3>3
  <2>6. QED
    BY <2>1, <2>3, <2>4, <2>5 DEF KeptOnce
<1>16. KeptInUse'
  <2>1. Deferred \in Keeping' => at'[Deferred] \in Contexts /\ guestFunction[at'[Deferred]] # None
    BY <1>7, <1>11, <1>12 DEF Sound, RegistrationParts, KeptInUse, InUse, o
  <2>2. QED
    BY <1>1, <1>5, <1>12, <2>1 DEF Sound, RegistrationParts, KeptInUse, InUse
<1>17. KeptByKind'
  <2>1. notifies' = notifies /\ owner' = owner /\ graphs' = graphs
    BY <1>1
  <2>2. ASSUME NEW k \in Carrying'
        PROVE  IF deferred'[k].kind = "add"
               THEN owner[deferred'[k].ctx] = deferred'[k].graph /\ deferred'[k].graph \in Graphs
               ELSE owner[deferred'[k].ctx] = None
    BY <1>5 DEF Sound, RegistrationParts, KeptByKind
  <2>3. QED
    BY <1>10, <2>1, <2>2 DEF Sound, RegistrationParts, KeptByKind
<1>18. DisposedOnce'
  <2>1. \A k, l \in Disposals' : deferred'[k].graph = deferred'[l].graph => k = l
    <3> SUFFICES ASSUME NEW k \in Disposals', NEW l \in Disposals',
                        deferred'[k].graph = deferred'[l].graph
                 PROVE  k = l
      OBVIOUS
    <3>1. k + 1 = l + 1
      BY <1>6 DEF Sound, RegistrationParts, DisposedOnce
    <3>2. QED
      BY <1>6, <3>1
  <2>2. \A k \in Disposals' : deferred'[k].graph \in Graphs /\ graphs'[deferred'[k].graph] = "retired"
    BY <1>1, <1>6 DEF Sound, RegistrationParts, DisposedOnce
  <2>3. Disposing' => o.kind = "dispose"
    BY <1>3, <1>11 DEF Disposing, x
  <2>4. o.kind = "dispose" =>
          /\ o.graph \in Graphs /\ graphs[o.graph] = "retired"
          /\ \A k \in Disposals' : deferred'[k].graph # o.graph
    BY <1>6, <1>8 DEF Sound, RegistrationParts, DisposedOnce, o
  <2>5. QED
    <3>1. op' = o /\ graphs' = graphs
      BY <1>1, <1>2
    <3>2. QED
      BY <2>1, <2>2, <2>3, <2>4, <3>1 DEF DisposedOnce
<1>19. AddedBefore'
  <2> SUFFICES ASSUME NEW k \in DOMAIN deferred', deferred'[k].kind = "add",
                      graphs'[deferred'[k].graph] \notin {"open", "closing"}
               PROVE  \E l \in Disposals' : k < l /\ deferred'[l].graph = deferred'[k].graph
    BY DEF AddedBefore
  <2>1. k \in Nat /\ k >= 1 /\ k + 1 \in DOMAIN deferred /\ deferred'[k] = deferred[k + 1]
    BY <1>2
  <2>2. PICK l \in Disposals : k + 1 < l /\ deferred[l].graph = deferred[k + 1].graph
    BY <1>1, <2>1 DEF Sound, RegistrationParts, AddedBefore
  <2>3. l \in DOMAIN deferred /\ l \in Nat /\ l > 1 /\ l - 1 \in DOMAIN deferred'
    BY <1>2, <2>1, <2>2 DEF Disposals
  <2>4. deferred'[l - 1] = deferred[l] /\ k < l - 1 /\ l - 1 \in Disposals'
    <3>1. deferred'[l - 1] = deferred[(l - 1) + 1] /\ (l - 1) + 1 = l
      BY <1>2, <2>3
    <3>2. QED
      BY <2>1, <2>2, <2>3, <3>1 DEF Disposals
  <2>5. QED
    BY <2>1, <2>2, <2>4
<1>20. LiveKeepsContext'
  BY <1>1 DEF Sound, RegistrationParts, LiveKeepsContext, MutedWhileClosing
<1>21. ClosedByOne'
  BY <1>1, <1>10, ClosedStays DEF Sound, RegistrationParts
<1>22. QED
  BY <1>9, <1>13, <1>14, <1>15, <1>16, <1>17, <1>18, <1>19, <1>20, <1>21 DEF Sound, RegistrationParts

-----------------------------------------------------------------------------
(* The registrations are sound in every state *)

LEMMA InitHolds == Init => Sound
<1> SUFFICES ASSUME Init
             PROVE  Sound
  OBVIOUS
<1> USE DEF Init
<1>1. /\ \A i \in IOThreads : pc[i] = "idle"
      /\ \A w \in Workers : pc[w] = "idle"
      /\ \A t \in GameThreads : pc[t] = "run"
      /\ pc[Deferred] = "idle"
  BY Kinds
<1>2. PlacesTyped
  BY <1>1, PlacesAre, Kinds DEF PlacesTyped
<1>3. BusyTyped /\ JobsTyped /\ OpTyped
  BY <1>1 DEF BusyTyped, JobsTyped, OpTyped, Anywhere
<1>4. DataTyped
  BY CallbacksAssumption DEF DataTyped
<1>5. Keeping = {} /\ Carrying = {} /\ Disposals = {} /\ ~ Disposing
  BY <1>1, Kinds DEF Keeping, Carrying, Disposals, Disposing
<1>6. RegistrationsApart /\ RetiredMuted /\ GraphsMuted /\ LiveKeepsContext /\ ClosedByOne
  BY <1>1, Kinds, CallbacksAssumption
  DEF RegistrationsApart, RetiredMuted, GraphsMuted, LiveKeepsContext, ClosedByOne, InUse
<1>7. KeptOnce /\ KeptInUse /\ DisposedOnce /\ AddedBefore
  BY <1>5 DEF KeptOnce, KeptInUse, DisposedOnce, AddedBefore
<1>8. KeptByKind
  BY <1>1, <1>5, Kinds DEF KeptByKind
<1>9. QED
  BY <1>2, <1>3, <1>4, <1>6, <1>7, <1>8 DEF Sound, ThreadsTyped, RegistrationParts

LEMMA PlaysKeeps ==
  ASSUME Sound, NEW t \in Guests, Plays(t)
  PROVE  Sound'
<1>1. ASSUME NEW g \in Graphs \cup {None}, Registers(t, g)
      PROVE  Sound'
  BY <1>1, RegistersKeeps
<1>2. CASE CapacityExhausted(t)
  BY <1>2, CapacityExhaustedKeeps
<1>3. CASE Claims(t)
  BY <1>3, ClaimsKeeps
<1>4. CASE Attaches(t)
  BY <1>4, AttachesKeeps
<1>5. CASE AttachFails(t)
  BY <1>5, AttachFailsKeeps
<1>6. ASSUME NEW r \in 1 .. registered, Removes(t, r)
      PROVE  Sound'
  BY <1>6, RemovesKeeps
<1>7. CASE Releases(t)
  BY <1>7, ReleasesKeeps
<1>8. ASSUME NEW g \in Graphs, NewGraph(t, g) \/ CallsDispose(t, g)
      PROVE  Sound'
  BY <1>8, NewGraphKeeps, CallsDisposeKeeps
<1>9. ASSUME NEW c \in Contexts, Mutes(t, c)
      PROVE  Sound'
  BY <1>9, MutesKeeps
<1>10. CASE Disposes(t)
  BY <1>10, DisposesKeeps
<1>11. QED
  BY <1>1, <1>2, <1>3, <1>4, <1>5, <1>6, <1>7, <1>8, <1>9, <1>10 DEF Plays

LEMMA TearsDownKeeps ==
  ASSUME Sound, TearsDown
  PROVE  Sound'
BY TakesOpKeeps, PerformsAddKeeps, StopsKeeps, WalkBeginsKeeps, WalkStepsKeeps, WalkEndsKeeps,
   DisposesGraphKeeps, ReleasesKeeps
DEF TearsDown

LEMMA StutterKeeps ==
  ASSUME Sound, UNCHANGED vars
  PROVE  Sound'
<1>1. ThreadsTyped' /\ DataTyped'
  BY DEF vars, contexts, tables, host, history, Sound, DataTyped, ThreadsTyped, PlacesTyped,
         BusyTyped, JobsTyped, OpTyped
<1>2. TakesNothing /\ UNCHANGED registrations
  BY DEF vars, contexts, tables, history, TakesNothing, Disposing, registrations
<1>3. QED
  BY <1>1, <1>2, QuietKeeps DEF Sound

LEMMA StepKeeps ==
  ASSUME Sound, [Next]_vars
  PROVE  Sound'
BY RendersKeeps, WorksKeeps, PlaysKeeps, TearsDownKeeps, StutterKeeps DEF Next

\* The registration table, the deferred queue and the graphs are sound in every
\* state: every context in use has one keeper at most, everything retired is muted,
\* and a graph's teardown comes after its additions.
THEOREM RegistrationInvariant == Spec => []RegistrationInv
<1>1. Init => RegistrationInv
  BY InitHolds, SoundParts
<1>2. RegistrationInv /\ [Next]_vars => RegistrationInv'
  BY StepKeeps, SoundParts, SoundNext
<1>3. QED
  BY <1>1, <1>2, PTL DEF Spec

\* A registration the guest has not given up keeps a context of its own, muted at
\* most while its graph is being disposed, whatever releases and teardowns are queued
\* (perform_graph_op).
THEOREM LiveKeepContexts == Spec => []LiveKeepsContext
<1>1. RegistrationInv => LiveKeepsContext
  BY DEF RegistrationInv
<1>2. QED
  BY <1>1, RegistrationInvariant, PTL

\* No host render that starts enters the guest with a registration given up
\* (host_audio_callback, enqueue_callback_release).
THEOREM RetiredAreSilent == Spec => RetiredIsSilent
<1>1. RegistrationInv /\ [Next]_vars =>
        [\A i \in IOThreads : pc[i] = "enter" /\ pc'[i] = "wait"
           => guestFunction[at[i]] \notin retired]_vars
  <2> SUFFICES ASSUME Sound, Next, NEW i \in IOThreads, pc[i] = "enter", pc'[i] = "wait"
               PROVE  guestFunction[at[i]] \notin retired
    BY SoundParts
  <2>1. ThreadsTyped /\ TypeOK /\ DataTyped
    BY TypeParts DEF Sound, ThreadsTyped
  <2>2. QueuesJob(i)
    <3>1. ASSUME NEW j \in IOThreads, Renders(j)
          PROVE  QueuesJob(i)
      <4>1. PICK p \in {"idle", "enter", "wait", "woken"} : pc' = pc \/ Goes(j, p)
        BY <3>1 DEF Renders, CycleStarts, HostCalls, RendersSilence, QueuesJob, SpuriousWake,
                    RenderReturns, GoesTo
      <4>2. j = i
        BY <2>1, <4>1, Kinds DEF Goes, ThreadsTyped, PlacesTyped
      <4>3. ~ CycleStarts(i) /\ \A c \in Contexts : ~ HostCalls(i, c)
        BY <2>1 DEF CycleStarts, HostCalls
      <4>4. pc'[i] # "idle" /\ DOMAIN pc = Threads /\ i \in Threads
        BY <2>1, Kinds DEF ThreadsTyped, PlacesTyped
      <4>5. QED
        BY <3>1, <4>2, <4>3, <4>4 DEF Renders, RendersSilence, SpuriousWake, RenderReturns, Goes
    <3>2. ASSUME NEW w \in Workers, Works(w)
          PROVE  FALSE
      <4>1. CASE TakesJob(w) \/ EntersGuest(w)
        BY <2>1, <4>1, Kinds DEF TakesJob, EntersGuest, Goes, ThreadsTyped, PlacesTyped
      <4>2. CASE AnswersRetired(w) \/ GuestReturns(w)
        <5>1. Responds(w) /\ at' = at /\ op' = op /\ pc[w] # "idle"
          BY <4>2, GuestPlaces DEF AnswersRetired, GuestReturns, Calling, Home
        <5>2. i \in Threads \ {w}
          BY Kinds
        <5>3. QED
          BY <2>1, <5>1, <5>2, RespondMoves
      <4>3. QED
        BY <3>2, <4>1, <4>2 DEF Works
    <3>3. ASSUME NEW t \in Guests, Plays(t)
          PROVE  FALSE
      <4>1. \E p : pc' = pc \/ Goes(t, p)
        BY <3>3 DEF Plays, Registers, CapacityExhausted, Claims, Attaches, AttachFails, Removes,
                    Retires, ReleasesInline, Releases, NewGraph, CallsDispose, Mutes, Disposes,
                    GoesTo
      <4>2. QED
        BY <2>1, <4>1, Kinds DEF Goes, ThreadsTyped, PlacesTyped
    <3>4. CASE TearsDown
      <4>1. \E p : pc' = pc \/ Goes(Deferred, p)
        BY <3>4 DEF TearsDown, TakesOp, PerformsAdd, Stops, WalkBegins, WalkSteps, WalkEnds,
                    DisposesGraph, Releases, GoesTo
      <4>2. QED
        BY <2>1, <4>1, Kinds DEF Goes, ThreadsTyped, PlacesTyped
    <3>5. QED
      BY <3>1, <3>2, <3>3, <3>4 DEF Next
  <2>3. at[i] \in Contexts /\ guestFunction[at[i]] # None /\ ~ muted[at[i]]
    BY <2>1, <2>2 DEF QueuesJob, Silent, ThreadsTyped, BusyTyped
  <2>4. QED
    BY <2>3 DEF Sound, RegistrationParts, RetiredMuted, InUse
<1>2. QED
  BY <1>1, RegistrationInvariant, PTL DEF Spec, RetiredIsSilent

-----------------------------------------------------------------------------
(* One IO thread has one render, and its worker holds one lock *)

\* What a guest's thread does to itself, and to the renders.
LEMMA PlaysMoves ==
  ASSUME Sound, NEW t \in Guests, Plays(t)
  PROVE  /\ UNCHANGED <<jobs, job, lock>>
         /\ \A c \in Contexts : ready'[c] => ready[c]
         /\ \A u \in Threads \ {t} : pc'[u] = pc[u] /\ at'[u] = at[u]
         /\ \/ pc'[t] = pc[t] /\ at'[t] = at[t]
            \/ /\ pc[t] # "idle" /\ pc[t] # "pickup"
               /\ \/ pc'[t] = Home(t)
                  \/ pc'[t] = "register" /\ (t \in Workers => RegistersInRender)
                  \/ pc'[t] = "attach" /\ pc[t] = "register"
                  \/ pc'[t] = "release" /\ lock[at'[t]] # t
                  \/ pc'[t] = "mute"
<1>1. ThreadsTyped /\ DataTyped
  BY DEF Sound
<1>2. \A x, v : GoesTo(t, x, v) =>
        /\ pc'[t] = x /\ at'[t] = v
        /\ \A u \in Threads \ {t} : pc'[u] = pc[u] /\ at'[u] = at[u]
  BY <1>1, Kinds DEF GoesTo, Goes, ThreadsTyped, PlacesTyped, BusyTyped
<1>3. \A x : Goes(t, x) /\ at' = at =>
        /\ pc'[t] = x /\ at'[t] = at[t]
        /\ \A u \in Threads \ {t} : pc'[u] = pc[u] /\ at'[u] = at[u]
  BY <1>1, Kinds DEF Goes, ThreadsTyped, PlacesTyped
<1>4. Calling(t) => pc[t] \in {"run", "guest"}
  BY CallingIs
<1>5. ASSUME NEW c, Retires(t, c)
      PROVE  /\ \A u \in Threads \ {t} : pc'[u] = pc[u] /\ at'[u] = at[u]
             /\ pc'[t] = Home(t) \/ (pc'[t] = "release" /\ lock[at'[t]] # t)
  <2>1. CASE renderThread[c] = t
    BY <1>3, <1>5, <2>1 DEF Retires
  <2>2. CASE renderThread[c] # t
    <3>1. pc'[t] = "release" /\ at'[t] = c /\ lock[c] # t
      BY <1>1, <1>2, <1>5, <2>2 DEF Retires, ReleasesInline, DataTyped
    <3>2. QED
      BY <1>2, <1>5, <2>2, <3>1 DEF Retires, ReleasesInline
  <2>3. QED
    BY <2>1, <2>2
<1>6. CASE \E g \in Graphs \cup {None} : Registers(t, g)
  BY <1>2, <1>4, <1>6 DEF Registers, contexts
<1>7. CASE CapacityExhausted(t)
  BY <1>3, <1>7 DEF CapacityExhausted, contexts
<1>8. CASE Claims(t)
  <2>1. ready' = [ready EXCEPT ![FirstUnused] = FALSE]
    BY <1>8 DEF Claims
  <2>2. \A c \in Contexts : ready'[c] => ready[c]
    BY <1>1, <2>1 DEF DataTyped
  <2>3. GoesTo(t, "attach", FirstUnused) /\ pc[t] = "register" /\ UNCHANGED <<jobs, job, lock>>
    BY <1>8 DEF Claims
  <2>4. QED
    BY <1>2, <2>2, <2>3
<1>9. CASE Attaches(t)
  BY <1>3, <1>9 DEF Attaches, contexts
<1>10. CASE AttachFails(t)
  BY <1>5, <1>10 DEF AttachFails
<1>11. CASE \E r \in 1 .. registered : Removes(t, r)
  BY <1>4, <1>5, <1>11 DEF Removes
<1>12. CASE Releases(t)
  BY <1>3, <1>12 DEF Releases
<1>13. CASE \E g \in Graphs : NewGraph(t, g)
  BY <1>13, Kinds DEF NewGraph, contexts
<1>14. CASE \E g \in Graphs : CallsDispose(t, g)
  BY <1>2, <1>4, <1>14 DEF CallsDispose, contexts
<1>15. CASE \E c \in Contexts : Mutes(t, c)
  BY <1>15, Kinds DEF Mutes
<1>16. CASE Disposes(t)
  BY <1>3, <1>16 DEF Disposes, contexts
<1>17. QED
  BY <1>6, <1>7, <1>8, <1>9, <1>10, <1>11, <1>12, <1>13, <1>14, <1>15, <1>16 DEF Plays

LEMMA TearsDownMoves ==
  ASSUME Sound, TearsDown
  PROVE  /\ UNCHANGED <<jobs, job, lock, ready>>
         /\ \A u \in Threads \ {Deferred} : pc'[u] = pc[u] /\ at'[u] = at[u]
<1>1. ThreadsTyped
  BY DEF Sound
<1>2. \A x, v : GoesTo(Deferred, x, v) =>
        \A u \in Threads \ {Deferred} : pc'[u] = pc[u] /\ at'[u] = at[u]
  BY <1>1, Kinds DEF GoesTo, Goes, ThreadsTyped, PlacesTyped, BusyTyped
<1>3. \A x : Goes(Deferred, x) /\ at' = at =>
        \A u \in Threads \ {Deferred} : pc'[u] = pc[u] /\ at'[u] = at[u]
  BY <1>1, Kinds DEF Goes, ThreadsTyped, PlacesTyped
<1> USE DEF contexts, tables, host, history
<1>4. CASE TakesOp
  BY <1>2, <1>4 DEF TakesOp
<1>5. CASE PerformsAdd
  BY <1>3, <1>5 DEF PerformsAdd
<1>6. CASE Stops
  BY <1>2, <1>6 DEF Stops
<1>7. CASE WalkBegins
  BY <1>7 DEF WalkBegins
<1>8. CASE WalkSteps
  BY <1>1, <1>8, Kinds DEF WalkSteps, ThreadsTyped, BusyTyped
<1>9. CASE WalkEnds
  BY <1>2, <1>9 DEF WalkEnds
<1>10. CASE DisposesGraph
  BY <1>2, <1>10 DEF DisposesGraph
<1>11. CASE Releases(Deferred)
  BY <1>3, <1>11 DEF Releases
<1>12. QED
  BY <1>4, <1>5, <1>6, <1>7, <1>8, <1>9, <1>10, <1>11 DEF TearsDown

\* A step of a thread that neither renders nor works.
LEMMA BystandersKeepRender ==
  ASSUME Sound, OneRender,
         UNCHANGED <<jobs, job>>, \A c \in Contexts : ready'[c] => ready[c],
         \A i \in IOThreads : pc'[i] = pc[i] /\ at'[i] = at[i],
         \A w \in Workers : pc'[w] = "idle" <=> pc[w] = "idle"
  PROVE  OneRender'
<1>1. AtWork' = AtWork
  BY DEF AtWork
<1>2. \A j \in Jobs : Awaits(j) => Awaits(j)'
  BY DEF Awaits, Jobs
<1>3. (\A k \in DOMAIN jobs : jobs[k] \in Jobs) /\ (\A w \in AtWork : job[w] \in Jobs)
  BY DEF Sound, DataTyped, ThreadsTyped, JobsTyped, AtWork
<1>4. QED
  BY <1>1, <1>2, <1>3 DEF OneRender

\* While its one render does not wait, there is no job.
LEMMA NoJobWithoutRender ==
  ASSUME OneIOThread, Sound, OneRender, NEW i \in IOThreads, pc[i] \notin {"wait", "woken"}
  PROVE  DOMAIN jobs = {} /\ AtWork = {}
<1>1. (\A k \in DOMAIN jobs : jobs[k].io = i) /\ (\A w \in AtWork : job[w].io = i)
  <2>1. (\A k \in DOMAIN jobs : jobs[k] \in Jobs) /\ (\A w \in AtWork : job[w] \in Jobs)
    BY DEF Sound, DataTyped, ThreadsTyped, JobsTyped, AtWork
  <2>2. \A j \in Jobs : j.io = i
    BY DEF Jobs, OneIOThread
  <2>3. QED
    BY <2>1, <2>2
<1>2. QED
  BY <1>1 DEF OneRender, Awaits

LEMMA RenderKeepsOne ==
  ASSUME OneIOThread, Sound, OneRender, NEW i \in IOThreads, Renders(i)
  PROVE  OneRender'
<1> USE DEF contexts, host
<1>1. ThreadsTyped /\ DataTyped
  BY DEF Sound
<1>2. \A x : Goes(i, x) => pc'[i] = x /\ \A u \in Threads \ {i} : pc'[u] = pc[u]
  BY <1>1, Kinds DEF Goes, ThreadsTyped, PlacesTyped
<1>3. \A u \in IOThreads : u = i
  BY DEF OneIOThread
<1>4. \A w \in Workers : w \in Threads \ {i}
  BY Kinds
<1>5. CASE CycleStarts(i) \/ \E c \in Contexts : HostCalls(i, c)
  <2>1. DOMAIN jobs = {} /\ AtWork = {}
    BY <1>5, NoJobWithoutRender DEF CycleStarts, HostCalls
  <2>2. jobs' = jobs /\ \A w \in Workers : pc'[w] = pc[w]
    BY <1>2, <1>4, <1>5 DEF CycleStarts, HostCalls, GoesTo
  <2>3. AtWork' = {}
    BY <2>1, <2>2 DEF AtWork
  <2>4. QED
    BY <2>1, <2>2, <2>3 DEF OneRender
<1>6. CASE RendersSilence(i)
  <2>1. DOMAIN jobs = {} /\ AtWork = {}
    BY <1>6, NoJobWithoutRender DEF RendersSilence
  <2>2. jobs' = jobs /\ \A w \in Workers : pc'[w] = pc[w]
    BY <1>2, <1>4, <1>6 DEF RendersSilence
  <2>3. AtWork' = {}
    BY <2>1, <2>2 DEF AtWork
  <2>4. QED
    BY <2>1, <2>2, <2>3 DEF OneRender
<1>7. CASE QueuesJob(i)
  <2> DEFINE j == [ctx |-> at[i], io |-> i]
  <2>1. DOMAIN jobs = {} /\ AtWork = {}
    BY <1>7, NoJobWithoutRender DEF QueuesJob
  <2>2. jobs' = Append(jobs, j) /\ pc'[i] = "wait" /\ at' = at
        /\ (\A w \in Workers : pc'[w] = pc[w]) /\ ready' = [ready EXCEPT ![at[i]] = FALSE]
    BY <1>2, <1>4, <1>7 DEF QueuesJob, ClearsResponse
  <2>3. AtWork' = {}
    BY <2>1, <2>2 DEF AtWork
  <2>4. at[i] \in Contexts
    BY <1>1, <1>7 DEF QueuesJob, ThreadsTyped, BusyTyped
  <2>5. DOMAIN jobs' = {1} /\ jobs'[1] = j
    BY <1>1, <2>1, <2>2, <2>4 DEF DataTyped, Jobs
  <2>6. Awaits(jobs[1])'
    BY <1>1, <2>2, <2>4, <2>5 DEF Awaits, DataTyped
  <2>7. QED
    BY <2>3, <2>5, <2>6 DEF OneRender
<1>8. CASE SpuriousWake(i) \/ (RenderReturns(i) /\ ~ ready[at[i]])
  <2>1. pc'[i] \in {"wait", "woken"} /\ pc[i] \in {"wait", "woken"}
    BY <1>2, <1>8 DEF SpuriousWake, RenderReturns
  <2>2. UNCHANGED <<jobs, job, at, ready>> /\ \A w \in Workers : pc'[w] = pc[w]
    BY <1>2, <1>4, <1>8 DEF SpuriousWake, RenderReturns
  <2>3. AtWork' = AtWork
    BY <2>2 DEF AtWork
  <2>4. \A j \in Jobs : Awaits(j) => Awaits(j)'
    BY <1>3, <2>1, <2>2 DEF Awaits, Jobs
  <2>5. (\A k \in DOMAIN jobs : jobs[k] \in Jobs) /\ (\A w \in AtWork : job[w] \in Jobs)
    BY <1>1 DEF DataTyped, ThreadsTyped, JobsTyped, AtWork
  <2>6. QED
    BY <2>2, <2>3, <2>4, <2>5 DEF OneRender
<1>9. CASE RenderReturns(i) /\ ready[at[i]]
  <2>1. DOMAIN jobs = {} /\ AtWork = {}
    <3>1. \A j \in Jobs : ~ Awaits(j)
      BY <1>3, <1>9 DEF Awaits, Jobs
    <3>2. (\A k \in DOMAIN jobs : jobs[k] \in Jobs) /\ (\A w \in AtWork : job[w] \in Jobs)
      BY <1>1 DEF DataTyped, ThreadsTyped, JobsTyped, AtWork
    <3>3. QED
      BY <3>1, <3>2 DEF OneRender
  <2>2. jobs' = jobs /\ \A w \in Workers : pc'[w] = pc[w]
    BY <1>2, <1>4, <1>9 DEF RenderReturns
  <2>3. AtWork' = {}
    BY <2>1, <2>2 DEF AtWork
  <2>4. QED
    BY <2>1, <2>2, <2>3 DEF OneRender
<1>10. QED
  BY <1>5, <1>6, <1>7, <1>8, <1>9 DEF Renders

\* A worker's step, and what it does to the lock of its job's context.
LEMMA WorkKeepsOne ==
  ASSUME Sound, OneRender, NEW w \in Workers, Works(w)
  PROVE  OneRender'
<1> USE DEF contexts, host
<1>1. TypeOK /\ ThreadsTyped /\ DataTyped
  BY TypeParts DEF Sound, ThreadsTyped
<1>2. \A x : Goes(w, x) => pc'[w] = x /\ \A u \in Threads \ {w} : pc'[u] = pc[u]
  BY <1>1, Kinds DEF Goes, ThreadsTyped, PlacesTyped
<1>3. \A v \in Workers \ {w} : v \in Threads \ {w}
  BY Kinds
<1>4. \A i \in IOThreads : i \in Threads \ {w}
  BY Kinds
<1>5. CASE TakesJob(w)
  <2>1. jobs # <<>> /\ jobs' = Tail(jobs) /\ job' = [job EXCEPT ![w] = Head(jobs)]
        /\ pc'[w] = "pickup" /\ at' = at /\ ready' = ready
        /\ \A u \in Threads \ {w} : pc'[u] = pc[u]
    BY <1>2, <1>5 DEF TakesJob
  <2>2. DOMAIN jobs = {1}
    <3>1. 1 \in DOMAIN jobs
      BY <1>1, <2>1 DEF DataTyped
    <3>2. QED
      BY <3>1 DEF OneRender
  <2>3. AtWork = {} /\ AtWork' = {w}
    <3>1. AtWork = {}
      BY <2>2 DEF OneRender
    <3>2. QED
      BY <1>3, <2>1, <3>1 DEF AtWork
  <2>4. DOMAIN jobs' = {} /\ Head(jobs) = jobs[1]
    BY <1>1, <2>1, <2>2 DEF DataTyped
  <2>5. job'[w] = jobs[1] /\ jobs[1] \in Jobs
    BY <1>1, <2>1, <2>2, <2>4 DEF ThreadsTyped, JobsTyped, DataTyped
  <2>6. Awaits(jobs[1])
    BY <2>2 DEF OneRender
  <2>7. Awaits(job[w])'
    BY <1>4, <2>1, <2>5, <2>6 DEF Awaits, Jobs
  <2>8. QED
    BY <2>3, <2>4, <2>7 DEF OneRender
<1>6. CASE EntersGuest(w)
  <2>1. UNCHANGED <<jobs, job, ready, at>> /\ pc[w] = "pickup" /\ pc'[w] = "guest"
        /\ \A u \in Threads \ {w} : pc'[u] = pc[u]
    BY <1>2, <1>6 DEF EntersGuest
  <2>2. QED
    BY <1>3, <1>4, <2>1, BystandersKeepRender
<1>7. CASE AnswersRetired(w) \/ GuestReturns(w)
  <2>1. Responds(w) /\ at' = at /\ op' = op /\ pc[w] # "idle" /\ jobs' = jobs
    BY <1>7, GuestPlaces DEF AnswersRetired, GuestReturns, Calling, Home
  <2>2. /\ pc'[w] = "idle"
        /\ \A u \in Threads \ {w} :
             \/ pc'[u] = pc[u]
             \/ u \in IOThreads /\ pc[u] = "wait" /\ pc'[u] = "woken" /\ at[u] = job[w].ctx
    BY <1>1, <2>1, RespondMoves
  <2>3. AtWork = {w} /\ DOMAIN jobs = {}
    BY <2>1 DEF OneRender, AtWork
  <2>4. AtWork' = {}
    <3>1. \A v \in Workers \ {w} : pc[v] = "idle"
      BY <2>3 DEF AtWork
    <3>2. \A v \in Workers \ {w} : pc'[v] = "idle"
      BY <1>3, <2>2, <3>1
    <3>3. QED
      BY <2>2, <3>2 DEF AtWork
  <2>5. QED
    BY <2>1, <2>3, <2>4 DEF OneRender
<1>8. QED
  BY <1>5, <1>6, <1>7 DEF Works

LEMMA OneRenderKept ==
  ASSUME OneIOThread, Sound, OneRender, [Next]_vars
  PROVE  OneRender'
<1>1. ASSUME NEW t \in Guests, Plays(t)
      PROVE  OneRender'
  <2>1. /\ UNCHANGED <<jobs, job, lock>>
        /\ \A c \in Contexts : ready'[c] => ready[c]
        /\ \A u \in Threads \ {t} : pc'[u] = pc[u] /\ at'[u] = at[u]
        /\ pc'[t] = pc[t] \/ (pc[t] # "idle" /\ pc'[t] # "idle")
    BY <1>1, PlaysMoves, GuestPlaces
  <2>2. \A w \in Workers : w \in Threads
    BY Kinds
  <2>3. QED
    BY <2>1, <2>2, Kinds, BystandersKeepRender
<1>2. CASE TearsDown
  BY <1>2, Kinds, TearsDownMoves, BystandersKeepRender
<1>3. CASE UNCHANGED vars
  BY <1>3, BystandersKeepRender DEF vars, contexts
<1>4. QED
  BY <1>1, <1>2, <1>3, RenderKeepsOne, WorkKeepsOne DEF Next

LEMMA LocksHeldKept ==
  ASSUME Sound, LocksHeld, [Next]_vars
  PROVE  LocksHeld'
<1>1. TypeOK /\ ThreadsTyped /\ DataTyped
  BY TypeParts DEF Sound, ThreadsTyped
<1>2. ASSUME NEW t \in Guests, Plays(t)
      PROVE  LocksHeld'
  <2>1. /\ UNCHANGED <<jobs, job, lock>>
        /\ \A u \in Threads \ {t} : pc'[u] = pc[u] /\ at'[u] = at[u]
        /\ \/ pc'[t] = pc[t] /\ at'[t] = at[t]
           \/ /\ pc[t] # "idle" /\ pc[t] # "pickup"
              /\ \/ pc'[t] = Home(t)
                 \/ pc'[t] = "register" /\ (t \in Workers => RegistersInRender)
                 \/ pc'[t] = "attach" /\ pc[t] = "register"
                 \/ pc'[t] = "release" /\ lock[at'[t]] # t
                 \/ pc'[t] = "mute"
    BY <1>2, PlaysMoves
  <2>2. Home(t) \notin {"idle", "pickup", "release", "register", "attach"}
    BY GuestPlaces
  <2>3. \A w \in Workers : w \in Threads
    BY Kinds
  <2>4. \A c \in Contexts : lock'[c] # None =>
          pc'[lock'[c]] \notin {"idle", "pickup"} /\ job'[lock'[c]].ctx = c
    <3>1. \A w \in Workers : pc[w] \notin {"idle", "pickup"} => pc'[w] \notin {"idle", "pickup"}
      BY <2>1, <2>2, <2>3
    <3>2. \A c \in Contexts : lock[c] # None => lock[c] \in Workers
      BY <1>1 DEF DataTyped
    <3>3. QED
      BY <2>1, <3>1, <3>2 DEF LocksHeld
  <2>5. \A w \in Workers : pc'[w] = "release" => lock'[at'[w]] # w
    BY <2>1, <2>2, <2>3 DEF LocksHeld
  <2>6. \A w \in Workers : pc'[w] \in {"register", "attach"} => RegistersInRender
    BY <2>1, <2>2, <2>3 DEF LocksHeld
  <2>7. QED
    BY <2>4, <2>5, <2>6 DEF LocksHeld
<1>3. CASE TearsDown
  <2>1. UNCHANGED <<job, lock>> /\ \A w \in Workers : pc'[w] = pc[w] /\ at'[w] = at[w]
    BY <1>3, Kinds, TearsDownMoves
  <2>2. \A c \in Contexts : lock[c] # None => lock[c] \in Workers
    BY <1>1 DEF DataTyped
  <2>3. QED
    BY <2>1, <2>2 DEF LocksHeld
<1>4. ASSUME NEW i \in IOThreads, Renders(i)
      PROVE  LocksHeld'
  <2>1. UNCHANGED <<job, lock>> /\ \A w \in Workers : pc'[w] = pc[w] /\ at'[w] = at[w]
    <3>1. ASSUME NEW x, Goes(i, x)
          PROVE  \A w \in Workers : pc'[w] = pc[w]
      BY <1>1, <3>1, Kinds DEF Goes, ThreadsTyped, PlacesTyped
    <3>2. ASSUME NEW v, at' = [at EXCEPT ![i] = v]
          PROVE  \A w \in Workers : at'[w] = at[w]
      BY <1>1, <3>2, Kinds DEF ThreadsTyped, BusyTyped
    <3>3. QED
      BY <1>4, <3>1, <3>2 DEF Renders, CycleStarts, HostCalls, RendersSilence, QueuesJob,
         SpuriousWake, RenderReturns, GoesTo, contexts
  <2>2. \A c \in Contexts : lock[c] # None => lock[c] \in Workers
    BY <1>1 DEF DataTyped
  <2>3. QED
    BY <2>1, <2>2 DEF LocksHeld
<1>5. ASSUME NEW w \in Workers, Works(w)
      PROVE  LocksHeld'
  <2> USE DEF contexts, host
  <2>1. \A c \in Contexts : lock[c] # None => lock[c] \in Workers
    BY <1>1 DEF DataTyped
  <2>2. \A x : Goes(w, x) => pc'[w] = x /\ \A v \in Workers \ {w} : pc'[v] = pc[v]
    BY <1>1, Kinds DEF Goes, ThreadsTyped, PlacesTyped
  <2>3. CASE TakesJob(w)
    <3>1. pc[w] = "idle" /\ pc'[w] = "pickup" /\ (\A v \in Workers \ {w} : pc'[v] = pc[v])
          /\ lock' = lock /\ at' = at /\ job' = [job EXCEPT ![w] = Head(jobs)]
      BY <2>2, <2>3 DEF TakesJob
    <3>2. \A v \in Workers \ {w} : job'[v] = job[v]
      BY <1>1, <3>1 DEF ThreadsTyped, JobsTyped
    <3>3. \A c \in Contexts : lock[c] # w
      BY <3>1, Kinds DEF LocksHeld
    <3>4. QED
      BY <2>1, <3>1, <3>2, <3>3 DEF LocksHeld
  <2>4. CASE EntersGuest(w)
    <3>1. pc'[w] = "guest" /\ (\A v \in Workers \ {w} : pc'[v] = pc[v])
          /\ job' = job /\ at' = at /\ lock' = [lock EXCEPT ![job[w].ctx] = w]
      BY <2>2, <2>4 DEF EntersGuest
    <3>2. \A c \in Contexts : lock'[c] = IF c = job[w].ctx THEN w ELSE lock[c]
      BY <1>1, <3>1 DEF DataTyped
    <3>3. \A c \in Contexts : lock'[c] # None =>
            pc'[lock'[c]] \notin {"idle", "pickup"} /\ job'[lock'[c]].ctx = c
      BY <2>1, <3>1, <3>2 DEF LocksHeld
    <3>4. \A v \in Workers \ {w} : pc[v] = "release" => lock'[at[v]] # v
      BY <1>1, <3>1 DEF LocksHeld, DataTyped
    <3>5. QED
      BY <3>1, <3>3, <3>4 DEF LocksHeld
  <2>5. CASE AnswersRetired(w) \/ GuestReturns(w)
    <3>1. Responds(w) /\ at' = at /\ op' = op /\ pc[w] # "idle"
      BY <2>5, GuestPlaces DEF AnswersRetired, GuestReturns, Calling, Home
    <3>2. /\ pc'[w] = "idle" /\ \A v \in Workers \ {w} : pc'[v] = pc[v] /\ job'[v] = job[v]
          /\ lock' = [lock EXCEPT ![job[w].ctx] = None]
      BY <1>1, <3>1, RespondMoves, Kinds
    <3>3. \A c \in Contexts : lock'[c] = IF c = job[w].ctx THEN None ELSE lock[c]
      BY <1>1, <3>2 DEF DataTyped
    <3>4. \A c \in Contexts : lock'[c] # w
      BY <3>3, Kinds DEF LocksHeld
    <3>5. \A c \in Contexts : lock'[c] # None =>
            pc'[lock'[c]] \notin {"idle", "pickup"} /\ job'[lock'[c]].ctx = c
      BY <2>1, <3>2, <3>3, <3>4 DEF LocksHeld
    <3>6. \A v \in Workers : pc'[v] = "release" => lock'[at'[v]] # v
      <4> SUFFICES ASSUME NEW v \in Workers, pc'[v] = "release"
                   PROVE  lock'[at[v]] # v
        BY <3>1
      <4>1. v # w /\ pc[v] = "release" /\ lock[at[v]] # v
        BY <3>2 DEF LocksHeld
      <4>2. at[v] \in DOMAIN lock => lock'[at[v]] = lock[at[v]] \/ lock'[at[v]] = None
        BY <1>1, <3>3 DEF DataTyped
      <4>3. v \in Keeping /\ at[v] \in DOMAIN lock /\ v # None
        BY <1>1, <4>1, Kinds DEF Keeping, Sound, RegistrationParts, KeptInUse, DataTyped
      <4>4. QED
        BY <4>1, <4>2, <4>3
    <3>7. QED
      BY <3>2, <3>5, <3>6 DEF LocksHeld
  <2>6. QED
    BY <1>5, <2>3, <2>4, <2>5 DEF Works
<1>6. CASE UNCHANGED vars
  BY <1>6 DEF vars, contexts, LocksHeld
<1>7. QED
  BY <1>2, <1>3, <1>4, <1>5, <1>6 DEF Next

\* With the one IO thread there is one render at a time, from the job that is queued
\* to the answer of the worker that takes it (host_audio_callback).
THEOREM SingleRender == OneIOThread => (Spec => [](RegistrationInv /\ OneRender /\ LocksHeld))
<1> SUFFICES ASSUME OneIOThread
             PROVE  Spec => [](RegistrationInv /\ OneRender /\ LocksHeld)
  OBVIOUS
<1>1. Init => OneRender /\ LocksHeld
  BY Kinds DEF Init, OneRender, LocksHeld, AtWork
<1>2. RegistrationInv /\ OneRender /\ LocksHeld /\ [Next]_vars => OneRender' /\ LocksHeld'
  BY SoundParts, OneRenderKept, LocksHeldKept
<1>3. QED
  BY <1>1, <1>2, RegistrationInvariant, PTL DEF Spec

\* A queued job lies on the stack of a thread that still waits for it
\* (host_audio_callback).
THEOREM StackJobsAreAwaited == OneIOThread => (Spec => []StackJobsAwaited)
<1> SUFFICES ASSUME OneIOThread
             PROVE  Spec => []StackJobsAwaited
  OBVIOUS
<1>1. OneRender => StackJobsAwaited
  BY DEF OneRender, StackJobsAwaited, Awaits
<1>2. QED
  BY <1>1, SingleRender, PTL

\* The worker of the one render waits for nobody while it holds a lock, and the
\* deferred worker waits for it at most: no circle, unless the guest registers
\* callbacks from inside a callback (the comment above enqueue_callback_release).
THEOREM NoLocksCycle ==
  OneIOThread /\ RegistersInRender = FALSE => (Spec => []NoLockCycle)
<1> SUFFICES ASSUME OneIOThread, RegistersInRender = FALSE
             PROVE  Spec => []NoLockCycle
  OBVIOUS
<1>1. ASSUME RegistrationInv, OneRender, LocksHeld
      PROVE  NoLockCycle
  <2>1. ThreadsTyped /\ DataTyped /\ RegistrationParts
    BY <1>1, SoundParts DEF Sound
  <2>2. \A c \in Contexts : lock[c] \in Workers \cup {None}
    BY <2>1 DEF DataTyped
  <2>3. None \notin Threads
    BY CallbacksAssumption DEF Threads, Guests
  <2>4. ASSUME NEW t \in Threads, pc[t] = "release"
        PROVE  at[t] \in Contexts
    <3>1. t \in Keeping
      BY <2>1, <2>4, Kinds, PlacesAre DEF Keeping, ThreadsTyped, PlacesTyped
    <3>2. QED
      BY <2>1, <3>1 DEF RegistrationParts, KeptInUse
  \* A worker that holds a lock waits for none.
  <2>5. ASSUME NEW w \in Workers, NEW c \in Contexts, lock[c] = w
        PROVE  Blocker(w) = None
    <3>1. pc[w] \in {"guest", "mute", "release"}
      BY <1>1, <2>1, <2>5, Kinds, PlacesAre DEF LocksHeld, ThreadsTyped, PlacesTyped
    <3>2. CASE pc[w] \in {"guest", "mute"}
      BY <3>2, Kinds DEF Blocker
    <3>3. CASE pc[w] = "release"
      <4>1. at[w] \in Contexts /\ lock[at[w]] # w
        BY <1>1, <2>4, <3>3, Kinds DEF LocksHeld
      <4>2. lock[at[w]] \in Workers => FALSE
        <5> SUFFICES ASSUME lock[at[w]] \in Workers
                     PROVE  FALSE
          OBVIOUS
        <5>1. lock[at[w]] \in AtWork /\ w \in AtWork
          BY <1>1, <3>3, <4>1, Kinds DEF AtWork, LocksHeld
        <5>2. QED
          BY <1>1, <4>1, <5>1 DEF OneRender
      <4>3. Blocker(w) = lock[at[w]]
        BY <3>3, Kinds DEF Blocker
      <4>4. QED
        BY <2>2, <4>1, <4>2, <4>3
    <3>4. QED
      BY <3>1, <3>2, <3>3
  \* Every other waits for such a worker or for the deferred worker.
  <2>6. ASSUME NEW t \in Threads
        PROVE  \/ Blocker(t) = None
               \/ Blocker(t) = Deferred /\ t # Deferred
               \/ \E c \in Contexts : lock[c] = Blocker(t) /\ Blocker(t) \in Workers
    <3>1. registry \in {Deferred, None}
      BY <2>1 DEF DataTyped
    <3>2. pc[Deferred] # "register"
      BY <2>1, Kinds, PlacesAre DEF ThreadsTyped, PlacesTyped
    <3>3. CASE pc[t] = "register"
      <4>1. Blocker(t) = registry
        BY <3>3 DEF Blocker, Walking
      <4>2. QED
        BY <3>1, <3>2, <3>3, <4>1
    <3>4. CASE pc[t] \in {"enter", "woken", "release"}
      <4>1. Blocker(t) = lock[at[t]]
        BY <3>4 DEF Blocker, Walking
      <4>2. at[t] \in Contexts
        <5>1. t \in IOThreads => at[t] \in Contexts
          BY <2>1, <3>4 DEF ThreadsTyped, BusyTyped
        <5>2. t \notin IOThreads => pc[t] = "release"
          BY <2>1, <3>4, Kinds, PlacesAre, GuestPlaces DEF ThreadsTyped, PlacesTyped
        <5>3. QED
          BY <2>4, <5>1, <5>2
      <4>3. QED
        BY <2>2, <4>1, <4>2
    <3>5. CASE pc[t] = "pickup"
      <4>1. Blocker(t) = lock[job[t].ctx]
        BY <3>5 DEF Blocker, Walking
      <4>2. t \in Workers
        BY <2>1, <3>5, Kinds, PlacesAre DEF ThreadsTyped, PlacesTyped
      <4>3. job[t].ctx \in Contexts
        BY <2>1, <3>5, <4>2 DEF ThreadsTyped, JobsTyped, Jobs
      <4>4. QED
        BY <2>2, <4>1, <4>3
    <3>6. CASE t = Deferred /\ Walking
      <4>1. pc[t] \in {"detach", "sweep"}
        BY <3>6 DEF Walking
      <4>2. Blocker(t) = IF registry # Deferred THEN registry
                         ELSE IF at[t] <= count THEN lock[at[t]] ELSE None
        BY <3>6, <4>1 DEF Blocker
      <4>3. at[t] <= count => at[t] \in Contexts
        BY <2>1, <3>6, <4>1, CallbacksAssumption DEF ThreadsTyped, BusyTyped, DataTyped, Contexts
      <4>4. QED
        BY <2>2, <3>1, <4>2, <4>3
    <3>7. CASE /\ pc[t] \notin {"register", "enter", "woken", "release", "pickup"}
               /\ ~ (t = Deferred /\ Walking)
      BY <3>7 DEF Blocker
    <3>8. QED
      BY <3>3, <3>4, <3>5, <3>6, <3>7
  <2>7. SUFFICES ASSUME NEW S \in (SUBSET Threads) \ {{}}, \A t \in S : Blocker(t) \in S
                 PROVE  FALSE
    BY DEF NoLockCycle
  <2>8. \A w \in Workers : \A c \in Contexts : lock[c] = w => w \notin S
    BY <2>3, <2>5, <2>7
  <2>9. Deferred \notin S
    BY <2>3, <2>6, <2>7, <2>8, Kinds
  <2>10. QED
    BY <2>3, <2>6, <2>7, <2>8, <2>9
<1>2. QED
  BY <1>1, SingleRender, PTL

=============================================================================
