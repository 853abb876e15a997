---------------------------- MODULE AudioCallbacks ----------------------------
(***************************************************************************)
(* The guest's audio callbacks (audio_bridge.c, peggle_audio.inc).  A      *)
(* registration takes a context from an append-only table; CoreAudio's IO  *)
(* thread calls the context, queues a job on its own stack and waits for a *)
(* worker to run the guest's function, which the worker does under the     *)
(* context's lock.  The guest removes registrations from any thread, from  *)
(* inside the callback itself too, and disposes whole graphs, which the    *)
(* deferred worker tears down later.                                       *)
(*                                                                         *)
(* CoreAudio is external: it calls the contexts that were attached when    *)
(* its cycle began, and AUGraphStop waits for the cycles that may call the *)
(* graph's.  A graph's start and stop, the hold and the pool are left out. *)
(***************************************************************************)
EXTENDS Integers, Sequences, FiniteSets

CONSTANTS
  IOThreads, Workers, GameThreads,
  Deferred,          \* deferred_graph_worker
  Graphs,            \* addresses CoreAudio gives graphs
  None,
  Capacity,          \* kAudioCallbackCapacity
  RegistersInRender, \* the guest registers callbacks from inside callbacks
  MaxRegistrations   \* BOUND: registrations made, and no new graph after the last

\* The threads are different, and None is no thread, graph or number.
ASSUME CallbacksAssumption ==
  /\ Capacity \in Nat /\ MaxRegistrations \in Nat /\ RegistersInRender \in BOOLEAN
  /\ IOThreads \cap Workers = {} /\ IOThreads \cap GameThreads = {}
  /\ GameThreads \cap Workers = {}
  /\ Deferred \notin IOThreads \cup Workers \cup GameThreads
  /\ None \notin IOThreads \cup Workers \cup GameThreads \cup {Deferred} \cup Graphs
  /\ None \notin Nat

VARIABLES
  \* audio_callbacks[c], by index; guestFunction is None when not in_use
  count, guestFunction, owner, muted, lock, ready, renderThread,
  registry,  \* holder of audio_callback_registry_lock
  jobs,      \* audio_job_head: jobs [ctx, io]
  deferred,  \* deferred_graph_head: operations [kind, graph, ctx]
  notifies,  \* pg_render_notifies: registration -> context
  graphs,    \* free, open, closing (the guest is in DisposeAUGraph), or retired (its
             \* handle is gone, its teardown is not done)
  hooks,     \* CoreAudio's attachments: context -> IO thread
  cycle,     \* contexts an IO thread has still to call in its cycle
  pc, at,    \* a thread's place, and the context or graph it is busy with
  job,       \* the job a worker runs
  op,        \* the operation the deferred worker performs
  registered, retired \* history: registrations made; those given up by the guest

contexts == <<count, guestFunction, owner, muted, lock, ready, renderThread>>
host == <<hooks, cycle>>
tables == <<notifies, graphs>>
history == <<registered, retired>>
vars == <<contexts, registry, jobs, deferred, tables, host, pc, at, job, op, history>>

Contexts == 1 .. Capacity
Guests == GameThreads \cup Workers
Threads == Guests \cup IOThreads \cup {Deferred}
Home(t) == IF t \in Workers THEN "guest" ELSE IF t \in GameThreads THEN "run" ELSE "idle"

Init ==
  /\ count = 0
  /\ guestFunction = [c \in Contexts |-> None] /\ owner = [c \in Contexts |-> None]
  /\ muted = [c \in Contexts |-> FALSE] /\ ready = [c \in Contexts |-> FALSE]
  /\ lock = [c \in Contexts |-> None] /\ renderThread = [c \in Contexts |-> None]
  /\ registry = None
  /\ jobs = <<>> /\ deferred = <<>>
  /\ notifies = <<>> /\ graphs = [g \in Graphs |-> "free"]
  /\ hooks = [c \in Contexts |-> None] /\ cycle = [i \in IOThreads |-> {}]
  /\ pc = [t \in Threads |-> IF t \in GameThreads THEN "run" ELSE "idle"]
  /\ at = [t \in Threads |-> None]
  /\ job = [w \in Workers |-> None] /\ op = None
  /\ registered = 0 /\ retired = {}

Goes(t, p) == pc' = [pc EXCEPT ![t] = p]
GoesTo(t, p, x) == Goes(t, p) /\ at' = [at EXCEPT ![t] = x]
Queue(kind, g, c) == deferred' = Append(deferred, [kind |-> kind, graph |-> g, ctx |-> c])
OwnedBy(g) == {c \in 1 .. count : guestFunction[c] # None /\ owner[c] = g}
Calling(t) == t \in Guests /\ pc[t] = Home(t)

-----------------------------------------------------------------------------
(* CoreAudio's IO thread, host_audio_callback *)

CycleStarts(i) ==
  /\ pc[i] = "idle" /\ cycle[i] = {}
  /\ cycle' = [cycle EXCEPT ![i] = {c \in Contexts : hooks[c] = i}]
  /\ cycle'[i] # {}
  /\ UNCHANGED <<contexts, registry, jobs, deferred, tables, hooks, pc, at, job, op, history>>

HostCalls(i, c) ==
  /\ pc[i] = "idle" /\ c \in cycle[i]
  /\ cycle' = [cycle EXCEPT ![i] = @ \ {c}]
  /\ GoesTo(i, "enter", c)
  /\ UNCHANGED <<contexts, registry, jobs, deferred, tables, hooks, job, op, history>>

SilentWhenReleased(c) == guestFunction[c] = None

Silent(c) == guestFunction[c] = None \/ muted[c]

RendersSilence(i) ==
  /\ pc[i] = "enter" /\ lock[at[i]] = None
  /\ Silent(at[i])
  /\ Goes(i, "idle")
  /\ UNCHANGED <<contexts, registry, jobs, deferred, tables, host, at, job, op, history>>

KeepsResponse(c) == UNCHANGED ready
ClearsResponse(c) == ready' = [ready EXCEPT ![c] = FALSE]

\* The job is queued under the context's lock, which the wait then gives up.
QueuesJob(i) ==
  /\ pc[i] = "enter" /\ lock[at[i]] = None
  /\ ~ Silent(at[i])
  /\ ClearsResponse(at[i])
  /\ jobs' = Append(jobs, [ctx |-> at[i], io |-> i])
  /\ Goes(i, "wait")
  /\ UNCHANGED <<count, guestFunction, owner, muted, lock, renderThread, registry,
                 deferred, tables, host, at, job, op, history>>

SpuriousWake(i) ==
  /\ pc[i] = "wait" /\ Goes(i, "woken")
  /\ UNCHANGED <<contexts, registry, jobs, deferred, tables, host, at, job, op, history>>

RenderReturns(i) ==
  /\ pc[i] = "woken" /\ lock[at[i]] = None
  /\ Goes(i, IF ready[at[i]] THEN "idle" ELSE "wait")
  /\ UNCHANGED <<contexts, registry, jobs, deferred, tables, host, at, job, op, history>>

-----------------------------------------------------------------------------
(* audio_callback_worker *)

TakesJob(w) ==
  /\ pc[w] = "idle" /\ jobs # <<>>
  /\ jobs' = Tail(jobs)
  /\ job' = [job EXCEPT ![w] = Head(jobs)]
  /\ Goes(w, "pickup")
  /\ UNCHANGED <<contexts, registry, deferred, tables, host, at, op, history>>

\* Sets response_ready, signals one thread waiting on the context, unlocks.
Answers(w) == ready' = [ready EXCEPT ![job[w].ctx] = TRUE]

Responds(w) ==
  LET c == job[w].ctx
      waiting == {i \in IOThreads : pc[i] = "wait" /\ at[i] = c} IN
  /\ Answers(w)
  /\ lock' = [lock EXCEPT ![c] = None]
  /\ renderThread' = [renderThread EXCEPT ![c] = None]
  /\ job' = [job EXCEPT ![w] = None]
  /\ \/ waiting = {} /\ Goes(w, "idle")
     \/ \E i \in waiting : pc' = [pc EXCEPT ![w] = "idle", ![i] = "woken"]

\* The context was given up after the job was queued.
AnswersRetired(w) ==
  /\ pc[w] = "pickup" /\ lock[job[w].ctx] = None
  /\ guestFunction[job[w].ctx] = None
  /\ Responds(w)
  /\ UNCHANGED <<count, guestFunction, owner, muted, registry, jobs, deferred,
                 tables, host, at, op, history>>

EntersGuest(w) ==
  LET c == job[w].ctx IN
  /\ pc[w] = "pickup" /\ lock[c] = None
  /\ guestFunction[c] # None
  /\ lock' = [lock EXCEPT ![c] = w]
  /\ renderThread' = [renderThread EXCEPT ![c] = w]
  /\ Goes(w, "guest")
  /\ UNCHANGED <<count, guestFunction, owner, muted, ready, registry, jobs, deferred,
                 tables, host, at, job, op, history>>

GuestReturns(w) ==
  /\ w \in Workers /\ Calling(w)
  /\ Responds(w)
  /\ UNCHANGED <<count, guestFunction, owner, muted, registry, jobs, deferred,
                 tables, host, at, op, history>>

-----------------------------------------------------------------------------
(* Registration: new_audio_callback, then the host's attachment *)

\* For a graph's callback, or with None a unit's.
Registers(t, g) ==
  /\ Calling(t) /\ (t \in Workers => RegistersInRender)
  /\ registered + Cardinality({u \in Guests : pc[u] = "register"}) < MaxRegistrations
  /\ g # None => graphs[g] = "open"
  /\ GoesTo(t, "register", g)
  /\ UNCHANGED <<contexts, registry, jobs, deferred, tables, host, job, op, history>>

Unused == {c \in 1 .. count : guestFunction[c] = None}
FirstUnused == IF Unused = {} THEN count + 1 ELSE CHOOSE c \in Unused : \A d \in Unused : c <= d

CapacityExhausted(t) ==
  /\ pc[t] = "register" /\ registry = None
  /\ FirstUnused > Capacity
  /\ Goes(t, Home(t))
  /\ UNCHANGED <<contexts, registry, jobs, deferred, tables, host, at, job, op, history>>

Claims(t) ==
  LET c == FirstUnused IN
  /\ pc[t] = "register" /\ registry = None
  /\ c <= Capacity /\ lock[c] = None
  /\ count' = IF c > count THEN c ELSE count
  /\ guestFunction' = [guestFunction EXCEPT ![c] = registered + 1]
  /\ registered' = registered + 1
  /\ owner' = [owner EXCEPT ![c] = at[t]]
  /\ muted' = [muted EXCEPT ![c] = FALSE]
  /\ ready' = [ready EXCEPT ![c] = FALSE]
  /\ GoesTo(t, "attach", c)
  /\ UNCHANGED <<lock, renderThread, registry, jobs, deferred, tables, host, job, op, retired>>

ReleasesInline(t, c) ==
  GoesTo(t, "release", c) /\ UNCHANGED <<muted, deferred, retired>>

\* enqueue_callback_release: only the context's own render defers, and mutes.
Retires(t, c) ==
  IF renderThread[c] = t
  THEN /\ muted' = [muted EXCEPT ![c] = TRUE]
       /\ Queue("release", None, c)
       /\ retired' = retired \cup {guestFunction[c]}
       /\ Goes(t, Home(t)) /\ UNCHANGED at
  ELSE ReleasesInline(t, c)

\* A graph's notification is attached by the deferred worker, a unit's here.
Attaches(t) ==
  /\ pc[t] = "attach"
  /\ IF owner[at[t]] # None
     THEN Queue("add", owner[at[t]], at[t]) /\ UNCHANGED <<hooks, notifies>>
     ELSE /\ \E i \in IOThreads : hooks' = [hooks EXCEPT ![at[t]] = i]
          /\ notifies' = [r \in DOMAIN notifies \cup {guestFunction[at[t]]} |->
                            IF r \in DOMAIN notifies THEN notifies[r] ELSE at[t]]
          /\ UNCHANGED deferred
  /\ Goes(t, Home(t))
  /\ UNCHANGED <<contexts, registry, jobs, graphs, cycle, at, job, op, history>>

AttachFails(t) ==
  /\ pc[t] = "attach" /\ owner[at[t]] = None
  /\ Retires(t, at[t])
  /\ UNCHANGED <<count, guestFunction, owner, lock, ready, renderThread, registry,
                 jobs, tables, host, job, op, registered>>

\* _AudioUnitRemoveRenderNotify
Removes(t, r) ==
  /\ Calling(t) /\ r \in DOMAIN notifies
  /\ hooks' = [hooks EXCEPT ![notifies[r]] = None]
  /\ notifies' = [q \in DOMAIN notifies \ {r} |-> notifies[q]]
  /\ Retires(t, notifies[r])
  /\ UNCHANGED <<count, guestFunction, owner, lock, ready, renderThread, registry,
                 jobs, graphs, cycle, job, op, registered>>

Frees(S) ==
  /\ guestFunction' = [c \in Contexts |-> IF c \in S THEN None ELSE guestFunction[c]]
  /\ owner' = [c \in Contexts |-> IF c \in S THEN None ELSE owner[c]]

\* release_audio_callback, by a guest's thread or by the deferred worker.
Releases(t) ==
  /\ pc[t] = "release" /\ lock[at[t]] = None
  /\ Frees({at[t]})
  /\ retired' = retired \cup ({guestFunction[at[t]]} \ {None})
  /\ Goes(t, Home(t))
  /\ UNCHANGED <<count, muted, lock, ready, renderThread, registry, jobs, deferred,
                 tables, host, at, job, op, registered>>

-----------------------------------------------------------------------------
(* Graphs *)

NewGraph(t, g) ==
  /\ Calling(t) /\ graphs[g] = "free" /\ registered < MaxRegistrations
  /\ graphs' = [graphs EXCEPT ![g] = "open"]
  /\ UNCHANGED <<contexts, registry, jobs, deferred, notifies, host, pc, at, job, op, history>>

\* The guest does not dispose a graph that it is just registering a callback on,
\* nor the other way round.
CallsDispose(t, g) ==
  /\ Calling(t) /\ graphs[g] = "open"
  /\ \A u \in Guests : pc[u] \in {"register", "attach"} =>
       (IF pc[u] = "register" THEN at[u] ELSE owner[at[u]]) # g
  /\ graphs' = [graphs EXCEPT ![g] = "closing"]
  /\ GoesTo(t, "mute", g)
  /\ UNCHANGED <<contexts, registry, jobs, deferred, notifies, host, job, op, history>>

\* set_graph_callbacks_muted: one context after the other, and no lock.
Mutes(t, c) ==
  /\ pc[t] = "mute" /\ c \in OwnedBy(at[t]) /\ ~ muted[c]
  /\ muted' = [muted EXCEPT ![c] = TRUE]
  /\ UNCHANGED <<count, guestFunction, owner, lock, ready, renderThread, registry,
                 jobs, deferred, tables, host, pc, at, job, op, history>>

\* Then the handle is retired; the rest is queued.
Disposes(t) ==
  /\ pc[t] = "mute" /\ \A c \in OwnedBy(at[t]) : muted[c]
  /\ retired' = retired \cup {guestFunction[c] : c \in OwnedBy(at[t])}
  /\ graphs' = [graphs EXCEPT ![at[t]] = "retired"]
  /\ Queue("dispose", at[t], None)
  /\ Goes(t, Home(t))
  /\ UNCHANGED <<contexts, registry, jobs, notifies, host, at, job, op, registered>>

-----------------------------------------------------------------------------
(* deferred_graph_worker and perform_graph_op *)

TakesOp ==
  /\ pc[Deferred] = "idle" /\ deferred # <<>>
  /\ deferred' = Tail(deferred)
  /\ op' = Head(deferred)
  /\ GoesTo(Deferred, IF op'.kind = "dispose" THEN "stop" ELSE op'.kind, op'.ctx)
  /\ UNCHANGED <<contexts, registry, jobs, tables, host, job, history>>

PerformsAdd ==
  /\ pc[Deferred] = "add"
  /\ \/ /\ \E i \in IOThreads : hooks' = [hooks EXCEPT ![op.ctx] = i]
        /\ Goes(Deferred, "idle")
     \/ Goes(Deferred, "release") /\ UNCHANGED hooks
  /\ UNCHANGED <<contexts, registry, jobs, deferred, tables, cycle, at, job, op, history>>

\* AUGraphStop returns when no cycle has the graph's callbacks left.
Stops ==
  /\ pc[Deferred] = "stop"
  /\ \A i \in IOThreads :
       /\ cycle[i] \cap OwnedBy(op.graph) = {}
       /\ pc[i] # "idle" => at[i] \notin OwnedBy(op.graph)
  /\ hooks' = [c \in Contexts |-> IF c \in OwnedBy(op.graph) THEN None ELSE hooks[c]]
  /\ GoesTo(Deferred, "detach", 1)
  /\ UNCHANGED <<contexts, registry, jobs, deferred, tables, cycle, job, op, history>>

\* detach_audio_callbacks_for_graph and release_audio_callbacks_for_graph walk
\* the table under the registry's lock and take every context's.
Walking == pc[Deferred] \in {"detach", "sweep"}

WalkBegins ==
  /\ Walking /\ registry = None
  /\ registry' = Deferred
  /\ UNCHANGED <<contexts, jobs, deferred, tables, host, pc, at, job, op, history>>

WalkSteps ==
  LET c == at[Deferred] IN
  /\ Walking /\ registry = Deferred
  /\ c <= count /\ lock[c] = None
  /\ Frees(IF pc[Deferred] = "sweep" THEN {c} \cap OwnedBy(op.graph) ELSE {})
  /\ at' = [at EXCEPT ![Deferred] = c + 1]
  /\ UNCHANGED <<count, muted, lock, ready, renderThread, registry, jobs, deferred,
                 tables, host, pc, job, op, history>>

DisposesThenSweeps(p) ==
  CASE p = "detach" -> {"dispose"} [] p = "dispose" -> {"sweep"} [] p = "sweep" -> {"idle"}

\* The steps of a disposal; when a detach failed the graph is never disposed.
NextPhase(p) ==
  CASE p = "detach" -> {"sweep"} [] p = "sweep" -> {"dispose", "idle"} [] p = "dispose" -> {"idle"}

WalkEnds ==
  /\ Walking /\ registry = Deferred /\ at[Deferred] > count
  /\ registry' = None
  /\ \E p \in NextPhase(pc[Deferred]) : GoesTo(Deferred, p, 1)
  /\ UNCHANGED <<contexts, jobs, deferred, tables, host, job, op, history>>

\* CoreAudio may give the address to the next graph.
DisposesGraph ==
  /\ pc[Deferred] = "dispose"
  /\ graphs' = [graphs EXCEPT ![op.graph] = "free"]
  /\ \E p \in NextPhase("dispose") : GoesTo(Deferred, p, 1)
  /\ UNCHANGED <<contexts, registry, jobs, deferred, notifies, host, job, op, history>>

-----------------------------------------------------------------------------
Renders(i) ==
  \/ CycleStarts(i) \/ (\E c \in Contexts : HostCalls(i, c))
  \/ RendersSilence(i) \/ QueuesJob(i) \/ SpuriousWake(i) \/ RenderReturns(i)

Works(w) == TakesJob(w) \/ AnswersRetired(w) \/ EntersGuest(w) \/ GuestReturns(w)

Plays(t) ==
  \/ \E g \in Graphs \cup {None} : Registers(t, g)
  \/ CapacityExhausted(t) \/ Claims(t) \/ Attaches(t) \/ AttachFails(t)
  \/ (\E r \in 1 .. registered : Removes(t, r)) \/ Releases(t)
  \/ (\E g \in Graphs : NewGraph(t, g) \/ CallsDispose(t, g))
  \/ (\E c \in Contexts : Mutes(t, c)) \/ Disposes(t)

TearsDown ==
  \/ TakesOp \/ PerformsAdd \/ Stops \/ WalkBegins \/ WalkSteps \/ WalkEnds
  \/ DisposesGraph \/ Releases(Deferred)

Next ==
  \/ \E i \in IOThreads : Renders(i)
  \/ \E w \in Workers : Works(w)
  \/ \E t \in Guests : Plays(t)
  \/ TearsDown

Spec == Init /\ [][Next]_vars

-----------------------------------------------------------------------------
\* The type invariant.  Only a worker keeps a context's lock, for the time it
\* runs the guest's function, and renderThread says so.
Jobs == [ctx : Contexts, io : IOThreads]
Ops == [kind : {"add", "release", "dispose"}, graph : Graphs \cup {None}, ctx : Contexts \cup {None}]

PlacesOf(t) ==
  CASE t \in IOThreads -> {"idle", "enter", "wait", "woken"}
    [] t \in GameThreads -> {"run", "register", "attach", "release", "mute"}
    [] t \in Workers -> {"idle", "pickup", "guest", "register", "attach", "release", "mute"}
    [] t = Deferred -> {"idle", "add", "release", "stop", "detach", "sweep", "dispose"}

TypeOK ==
  /\ count \in 0 .. Capacity
  /\ guestFunction \in [Contexts -> 1 .. registered \cup {None}]
  /\ owner \in [Contexts -> Graphs \cup {None}]
  /\ muted \in [Contexts -> BOOLEAN] /\ ready \in [Contexts -> BOOLEAN]
  /\ lock \in [Contexts -> Workers \cup {None}] /\ renderThread = lock
  /\ registry \in {Deferred, None}
  /\ jobs \in Seq(Jobs) /\ deferred \in Seq(Ops)
  /\ notifies \in [DOMAIN notifies -> Contexts] /\ DOMAIN notifies \subseteq 1 .. registered
  /\ graphs \in [Graphs -> {"free", "open", "closing", "retired"}]
  /\ hooks \in [Contexts -> IOThreads \cup {None}]
  /\ cycle \in [IOThreads -> SUBSET Contexts]
  /\ DOMAIN pc = Threads /\ \A t \in Threads : pc[t] \in PlacesOf(t)
  /\ at \in [Threads -> Graphs \cup {None} \cup 1 .. Capacity + 1]
  /\ \A i \in IOThreads : pc[i] # "idle" => at[i] \in Contexts
  /\ job \in [Workers -> Jobs \cup {None}]
  /\ \A w \in Workers : IF pc[w] = "idle" THEN job[w] = None ELSE job[w] \in Jobs
  /\ pc[Deferred] # "idle" => op \in Ops
  /\ pc[Deferred] \in {"detach", "sweep"} => at[Deferred] \in 1 .. Capacity + 1
  /\ registered \in Nat /\ retired \subseteq 1 .. registered

\* The lock a thread is waiting to take is held by this thread.
Blocker(t) ==
  CASE pc[t] = "register" -> registry
    [] pc[t] \in {"enter", "woken", "release"} -> lock[at[t]]
    [] pc[t] = "pickup" -> lock[job[t].ctx]
    [] t = Deferred /\ Walking ->
         IF registry # Deferred THEN registry
         ELSE IF at[t] <= count THEN lock[at[t]] ELSE None
    [] OTHER -> None

\* No threads wait in a circle for the registry's lock and the contexts' locks,
\* a thread for its own context's among them: guest code may remove the very
\* callback it runs in, and dispose graphs, while a worker keeps the context's
\* lock across the call (the comment above enqueue_callback_release).
NoLockCycle ==
  \A S \in (SUBSET Threads) \ {{}} : \E t \in S : Blocker(t) \notin S

\* Once the guest has been told that a callback is removed or its graph disposed,
\* no host render that starts enters the guest with it, though the context is
\* released only later (the comment above enqueue_callback_release).
RetiredIsSilent ==
  [][\A i \in IOThreads : pc[i] = "enter" /\ pc'[i] = "wait"
       => guestFunction[at[i]] \notin retired]_vars

MutedWhileClosing(c) == muted[c] => owner[c] # None /\ graphs[owner[c]] = "closing"

\* A registration the guest has not given up keeps a context of its own, muted at
\* most while the guest is disposing its graph: no release or teardown queued
\* earlier, for the context's last user or for a graph that had the same address,
\* takes it away (perform_graph_op's "must not be swept up here").
LiveKeepsContext ==
  /\ \A r \in 1 .. registered \ retired :
       \E c \in Contexts : guestFunction[c] = r /\ MutedWhileClosing(c)
  /\ \A r \in DOMAIN notifies : guestFunction[notifies[r]] = r

\* A job is on the stack of the IO thread that queued it: while it is in the
\* queue that thread is still waiting in the same render (host_audio_callback).
StackJobsAwaited ==
  \A k \in DOMAIN jobs :
    /\ pc[jobs[k].io] \in {"wait", "woken"} /\ at[jobs[k].io] = jobs[k].ctx
    /\ \A l \in DOMAIN jobs : jobs[l].io = jobs[k].io => l = k

\* Every render that waits has its answer or will get one: "dropping the job would
\* strand the render thread in its wait, so finish the handshake" (the comment in
\* audio_callback_worker).
NoStrandedRender ==
  \A i \in IOThreads : pc[i] \in {"wait", "woken"} =>
    \/ ready[at[i]]
    \/ \E k \in DOMAIN jobs : jobs[k].io = i
    \/ \E w \in Workers : job[w] # None /\ job[w].io = i

-----------------------------------------------------------------------------
(* Why they hold *)

\* A context in use has a registration of its own.
InUse(c) == guestFunction[c] # None

RegistrationsApart ==
  \A c \in Contexts : InUse(c) =>
    /\ guestFunction[c] \in 1 .. registered /\ c <= count
    /\ \A d \in Contexts : guestFunction[d] = guestFunction[c] => d = c

\* A registration that was given up is silent while it keeps its context.
RetiredMuted ==
  \A c \in Contexts : InUse(c) /\ guestFunction[c] \in retired => muted[c]

\* So is every registration of a graph that was disposed.
GraphsMuted ==
  \A c \in Contexts :
    InUse(c) /\ owner[c] # None /\ graphs[owner[c]] = "retired" => guestFunction[c] \in retired

\* Who is to attach or release a context: a thread, or an operation in the queue.
Keeping == {t \in Guests \cup {Deferred} : pc[t] \in {"attach", "add", "release"}}
Carrying == {k \in DOMAIN deferred : deferred[k].kind # "dispose"}

\* Each context has one of these or a notification that may still be removed, or
\* none, so that it is released once.
KeptOnce ==
  /\ \A t, u \in Keeping : at[t] = at[u] => t = u
  /\ \A k, l \in Carrying : deferred[k].ctx = deferred[l].ctx => k = l
  /\ \A t \in Keeping : \A k \in Carrying : at[t] # deferred[k].ctx
  /\ \A r \in DOMAIN notifies :
       /\ \A t \in Keeping : at[t] # notifies[r]
       /\ \A k \in Carrying : deferred[k].ctx # notifies[r]

KeptInUse ==
  /\ \A t \in Keeping : at[t] \in Contexts /\ InUse(at[t])
  /\ \A k \in Carrying : deferred[k].ctx \in Contexts /\ InUse(deferred[k].ctx)
  /\ \A r \in DOMAIN notifies : notifies[r] \in Contexts /\ guestFunction[notifies[r]] = r

\* A graph's callbacks are added and swept, a unit's are removed and released.
KeptByKind ==
  /\ \A k \in Carrying :
       IF deferred[k].kind = "add"
       THEN owner[deferred[k].ctx] = deferred[k].graph /\ deferred[k].graph \in Graphs
       ELSE owner[deferred[k].ctx] = None
  /\ \A r \in DOMAIN notifies : owner[notifies[r]] = None
  /\ \A t \in Guests :
       /\ pc[t] = "release" => owner[at[t]] = None
       /\ pc[t] = "register" => at[t] = None \/ (at[t] \in Graphs /\ graphs[at[t]] = "open")
       /\ pc[t] = "attach" => owner[at[t]] = None \/ graphs[owner[at[t]]] = "open"

\* One thread is disposing each graph that is closing.
ClosedByOne ==
  /\ \A t \in Guests : pc[t] = "mute" => at[t] \in Graphs /\ graphs[at[t]] = "closing"
  /\ \A t, u \in Guests : pc[t] = "mute" /\ pc[u] = "mute" /\ at[t] = at[u] => t = u

\* A graph is disposed once for each time it was open, after its additions.
Disposing == pc[Deferred] \in {"stop", "detach", "sweep", "dispose"}
Disposals == {k \in DOMAIN deferred : deferred[k].kind = "dispose"}

DisposedOnce ==
  /\ \A k \in Disposals : deferred[k].graph \in Graphs /\ graphs[deferred[k].graph] = "retired"
  /\ \A k, l \in Disposals : deferred[k].graph = deferred[l].graph => k = l
  /\ Disposing => /\ op.graph \in Graphs /\ graphs[op.graph] = "retired"
                  /\ \A k \in Disposals : deferred[k].graph # op.graph

AddedBefore ==
  \A k \in DOMAIN deferred : deferred[k].kind = "add" =>
    \/ graphs[deferred[k].graph] \in {"open", "closing"}
    \/ \E l \in Disposals : k < l /\ deferred[l].graph = deferred[k].graph

RegistrationInv ==
  /\ TypeOK
  /\ RegistrationsApart /\ RetiredMuted /\ GraphsMuted
  /\ KeptOnce /\ KeptInUse /\ KeptByKind /\ ClosedByOne /\ DisposedOnce /\ AddedBefore
  /\ LiveKeepsContext

\* The one IO thread's render is the only one: its job is in the queue or with a
\* worker until it is answered (host_audio_callback).
OneIOThread == \A i, j \in IOThreads : i = j

Awaits(j) == pc[j.io] \in {"wait", "woken"} /\ at[j.io] = j.ctx /\ ~ ready[j.ctx]
AtWork == {w \in Workers : pc[w] # "idle"}

OneRender ==
  /\ \A k \in DOMAIN jobs : Awaits(jobs[k])
  /\ \A w \in AtWork : Awaits(job[w])
  /\ \A k, l \in DOMAIN jobs : k = l
  /\ \A v, w \in AtWork : v = w
  /\ DOMAIN jobs = {} \/ AtWork = {}

\* A worker holds no context but its job's, which it never waits for.
LocksHeld ==
  /\ \A c \in Contexts : lock[c] # None =>
       pc[lock[c]] \notin {"idle", "pickup"} /\ job[lock[c]].ctx = c
  /\ \A w \in Workers : pc[w] = "release" => lock[at[w]] # w
  /\ \A w \in Workers : pc[w] \in {"register", "attach"} => RegistersInRender

=============================================================================
