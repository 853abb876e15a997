----------------------------- MODULE AudioGraphs -----------------------------
(***************************************************************************)
(* The guest's AUGraphs (audio_bridge.c).  Building calls are made at once *)
(* on the host's graph; Initialize, Start, Stop, AddRenderNotify and the   *)
(* teardown are queued for one worker, and whatever must see their effect  *)
(* waits until none is left for the graph.  At AUGraphOpen the guest's     *)
(* graph may be exchanged for a pooled one that the worker has built and   *)
(* opened beforehand after the template, the topology seen most.           *)
(*                                                                         *)
(* CoreAudio is external: host is its state of a graph, After what a call  *)
(* does to it.  A call on a graph that is not in the state for it changes  *)
(* nothing.  A guest thread works on one graph at a time, its own.         *)
(***************************************************************************)
EXTENDS Integers, Sequences, FiniteSets, SequencesExt, FiniteSetsExt

CONSTANTS
  Threads, Addresses, Callbacks, Nodes, Connections, None,
  Capacity,        \* kGraphTopologyNodeCapacity, -ConnectionCapacity
  Target,          \* kGraphPoolTarget
  Relearn,         \* kGraphTemplateRelearnMismatches
  Modes,           \* deferred, or one of LP32_SYNC_AUDIO_TEARDOWN, LP32_QUARANTINE_AUDIO_GRAPHS
  Persists,        \* the guest writes parameters of a graph it has initialized again
                   \* although the teardown before that may still be queued
  MaxGraphs, MaxReturns, MaxQueue
    \* BOUND: graphs made; graphs uninitialized or closed; queue at which no more is queued

ASSUME AudioGraphsAssumption ==
  /\ Capacity \in Nat \ {0} /\ Target \in Nat \ {0} /\ Relearn \in Nat \ {0}
  /\ Modes \subseteq {"deferred", "workerless", "synchronous", "quarantine"}

VARIABLES
  mode,                 \* the environment's choice, and whether the worker could be started
  host,                 \* CoreAudio's graphs, by address
  ctx,                  \* audio_callbacks: owner_graph, muted
  graphOf, topology,    \* graph_objects and graph_topologies, by the thread that has the handle
  template,             \* graph_template, -_valid (None when not), -_matches, -_mismatches
  pool, pending,        \* graph_pool, graph_pool_refills_pending
  queue, inProgress,    \* deferred_graph_head; the worker's operation and place
  pc, call,             \* a thread's place and the call it is in
  want, made, quarantined
    \* history: what the guest's calls add up to; how many graphs were made, how many
    \* taken back from a state; those with detach failures

guest == <<graphOf, topology, pc, call>>
pools == <<template, pool, pending>>
work == <<queue, inProgress>>
history == <<want, made, quarantined>>
vars == <<mode, host, ctx, guest, pools, work, history>>

Fresh == [nodes |-> <<>>, connections |-> <<>>, open |-> FALSE, init |-> FALSE,
          running |-> FALSE, volume |-> FALSE, hooks |-> {}]
Blank == [nodes |-> <<>>, connections |-> <<>>, unpoolable |-> FALSE]
Shape(g) == [nodes |-> g.nodes, connections |-> g.connections]
Idle == [place |-> "idle", op |-> None, shape |-> None, graph |-> None]
\* CoreAudio gives a disposed graph's address to the next one.
FirstFree == IF \A a \in Addresses : host[a] # None THEN None
             ELSE CHOOSE a \in Addresses : host[a] = None
Op(kind, g, x) == [kind |-> kind, graph |-> g, arg |-> x]

Init ==
  /\ mode \in Modes
  /\ host = [a \in Addresses |-> None] /\ ctx = [c \in Callbacks |-> None]
  /\ graphOf = [t \in Threads |-> None] /\ topology = [t \in Threads |-> Blank]
  /\ template = [shape |-> None, matches |-> FALSE, mismatches |-> 0]
  /\ pool = <<>> /\ pending = 0 /\ queue = <<>> /\ inProgress = Idle
  /\ pc = [t \in Threads |-> "run"] /\ call = [t \in Threads |-> None]
  /\ want = [t \in Threads |-> None] /\ made = [graphs |-> 0, returns |-> 0] /\ quarantined = {}

-----------------------------------------------------------------------------
(* What a call does to CoreAudio's graph; the teardown kinds stop the graph *)
(* and detach its callbacks first (perform_graph_op).                       *)
Teardown == {"uninitialize", "close", "dispose"}

Detached(g) == [g EXCEPT !.running = FALSE, !.hooks = {}]
After(g, o) ==
  CASE o.kind = "nodes" -> [g EXCEPT !.nodes = Append(@, o.arg)]
    [] o.kind = "connections" -> [g EXCEPT !.connections = Append(@, o.arg)]
    [] o.kind = "disconnect" -> [g EXCEPT !.connections = Front(@)]
    [] o.kind = "open" -> [g EXCEPT !.open = TRUE]
    [] o.kind = "initialize" -> [g EXCEPT !.init = g.open]
    [] o.kind \in {"notify", "input"} -> [g EXCEPT !.hooks = @ \cup {o.arg}]
    [] o.kind = "start" -> [g EXCEPT !.running = g.init]
    [] o.kind = "stop" -> [g EXCEPT !.running = FALSE]
    [] o.kind = "parameter" -> [g EXCEPT !.volume = IF g.init THEN o.arg ELSE @]
    [] o.kind = "uninitialize" -> [Detached(g) EXCEPT !.init = FALSE]
    [] o.kind = "close" -> [Detached(g) EXCEPT !.init = FALSE, !.open = FALSE, !.volume = FALSE]
    [] OTHER -> g

Owned(g) == {c \in Callbacks : ctx[c] # None /\ ctx[c].owner = g}
Muted(g, m) == [c \in Callbacks |-> IF c \in Owned(g) THEN [ctx[c] EXCEPT !.muted = m] ELSE ctx[c]]
Released(g) == [c \in Callbacks |-> IF c \in Owned(g) THEN None ELSE ctx[c]]

\* A graph whose callbacks CoreAudio will not detach is left alone for good; a
\* disposed one has no handle then, and what state it is in no longer matters.
Left(g, kind) == IF kind = "dispose" THEN Fresh ELSE [g EXCEPT !.running = FALSE]
DetachFails(o) ==
  /\ host[o.graph].hooks # {}
  /\ host' = [host EXCEPT ![o.graph] = Left(@, o.kind)]
  /\ ctx' = IF o.kind = "dispose" THEN Released(o.graph) ELSE ctx
  /\ quarantined' = quarantined \cup {o.graph}

TearsDown(o) ==
  \/ /\ host' = [host EXCEPT ![o.graph] = IF o.kind = "dispose" THEN None ELSE After(@, o)]
     /\ ctx' = IF o.kind = "dispose" THEN Released(o.graph) ELSE ctx
     /\ UNCHANGED quarantined
  \/ DetachFails(o)

\* perform_graph_op
Performs(o) ==
  \/ o.kind \in Teardown /\ TearsDown(o) /\ UNCHANGED want
  \/ /\ o.kind \notin Teardown
     /\ host' = [host EXCEPT ![o.graph] = After(@, o)]
     /\ UNCHANGED <<ctx, quarantined, want>>
  \/ \* AUGraphAddRenderNotify fails, of which the guest does not hear
     /\ o.kind = "notify"
     /\ ctx' = [ctx EXCEPT ![o.arg] = None]
     /\ want' = [t \in Threads |-> IF graphOf[t] = o.graph
                                  THEN [want[t] EXCEPT !.hooks = @ \ {o.arg}] ELSE want[t]]
     /\ UNCHANGED <<host, quarantined>>

-----------------------------------------------------------------------------
(* The queue *)
Deferred == mode = "deferred"
IsOf(o, g, teardownOnly) == o.graph = g /\ (teardownOnly => o.kind \in Teardown)
HasWork(g, teardownOnly) ==
  \/ inProgress.op # None /\ IsOf(inProgress.op, g, teardownOnly)
  \/ \E i \in DOMAIN queue : IsOf(queue[i], g, teardownOnly)

TakesOp ==
  /\ inProgress.place = "idle" /\ queue # <<>>
  /\ inProgress' = [Idle EXCEPT !.place = "perform", !.op = Head(queue)]
  /\ queue' = Tail(queue)
  /\ UNCHANGED <<mode, host, ctx, guest, pools, history>>

PerformsOp ==
  /\ inProgress.place = "perform" /\ inProgress.op.kind # "refill"
  /\ Performs(inProgress.op)
  /\ inProgress' = [inProgress EXCEPT !.place = "done"]
  /\ UNCHANGED <<mode, guest, pools, queue, made>>

FinishesOpKeeping == inProgress' = [inProgress EXCEPT !.place = "idle"]
FinishesOp == inProgress' = Idle

OpDone ==
  /\ inProgress.place = "done"
  /\ FinishesOp
  /\ UNCHANGED <<mode, host, ctx, guest, pools, queue, history>>

-----------------------------------------------------------------------------
(* perform_graph_pool_refill: reads the template, builds without the lock,  *)
(* and keeps the graph only if the template is still the one it was built to *)
RefillReads ==
  /\ inProgress.place = "perform" /\ inProgress.op.kind = "refill"
  /\ inProgress' = [inProgress EXCEPT !.place = "build", !.shape = template.shape]
  /\ UNCHANGED <<mode, host, ctx, guest, pools, queue, history>>

Built(s) == [Fresh EXCEPT !.nodes = s.nodes, !.connections = s.connections, !.open = TRUE]

RefillBuilds ==
  /\ inProgress.place = "build"
  /\ \/ \E a \in Addresses :
          /\ a = FirstFree /\ inProgress.shape # None
          /\ host' = [host EXCEPT ![a] = Built(inProgress.shape)]
          /\ inProgress' = [inProgress EXCEPT !.place = "store", !.graph = a]
     \/ \* CoreAudio fails or numbers the nodes in another way
        /\ inProgress' = [inProgress EXCEPT !.place = "store"]
        /\ UNCHANGED host
  /\ UNCHANGED <<mode, ctx, guest, pools, queue, history>>

StillFitsAlways == inProgress.graph # None /\ Len(pool) < Target
StillFits == inProgress.graph # None /\ Len(pool) < Target /\ template.shape = inProgress.shape

RefillStores ==
  /\ inProgress.place = "store"
  /\ pending' = Max({0, pending - 1})
  /\ \/ /\ StillFits
        /\ pool' = Append(pool, inProgress.graph)
        /\ UNCHANGED host
     \/ /\ ~ StillFits
        /\ host' = [a \in Addresses |-> IF a = inProgress.graph THEN None ELSE host[a]]
        /\ UNCHANGED pool
  /\ inProgress' = [inProgress EXCEPT !.place = "done", !.graph = None]
  /\ UNCHANGED <<mode, ctx, guest, template, queue, history>>

-----------------------------------------------------------------------------
(* The guest's calls *)
Begins(t) == pc[t] = "run"
\* Of a graph that CoreAudio has failed nothing is stated: it is only disposed of.
Has(t) == Begins(t) /\ graphOf[t] \notin {None} \cup quarantined
Goes(t, p, o) == pc' = [pc EXCEPT ![t] = p] /\ call' = [call EXCEPT ![t] = o]
Wants(t, o) == want' = [want EXCEPT ![t] = After(@, o)]
NewAUGraph(t) ==
  /\ Begins(t) /\ graphOf[t] = None /\ made.graphs < MaxGraphs
  /\ \E a \in Addresses : /\ a = FirstFree
                          /\ host' = [host EXCEPT ![a] = Fresh]
                          /\ graphOf' = [graphOf EXCEPT ![t] = a]
  /\ topology' = [topology EXCEPT ![t] = Blank]
  /\ want' = [want EXCEPT ![t] = Fresh] /\ made' = [made EXCEPT !.graphs = @ + 1]
  /\ UNCHANGED <<mode, ctx, pc, call, pools, work, quarantined>>

\* A call that must see the queued ones' effect; which one it is matters only
\* when it has drained the queue (synchronized_graph_for_guest).
Synchronizes(t) ==
  /\ Has(t)
  /\ Goes(t, "drain", None)
  /\ UNCHANGED <<mode, host, ctx, graphOf, topology, pools, work, history>>

\* drain_deferred_graph_work waits for the broadcast after each operation.
DrainsNothing(t) == pc[t] = "drain"
Drained(t) == pc[t] = "drain" /\ ~ HasWork(graphOf[t], FALSE)

\* What an unpoolable topology holds is not looked at again.
NotPoolable == [Blank EXCEPT !.unpoolable = TRUE]
Unpoolable(t) == topology' = [topology EXCEPT ![t] = NotPoolable]

RecordedUnbounded(s, o) == IF s.unpoolable THEN NotPoolable ELSE [s EXCEPT ![o.kind] = Append(@, o.arg)]

\* record_graph_node, record_graph_connection
Recorded(s, o) ==
  IF s.unpoolable \/ Len(s[o.kind]) >= Capacity THEN NotPoolable
  ELSE [s EXCEPT ![o.kind] = Append(@, o.arg)]
Records(t, o) == topology' = [topology EXCEPT ![t] = Recorded(@, o)]

Makes(t, o) == host' = [host EXCEPT ![graphOf[t]] = After(@, o)] /\ Wants(t, o)

\* AUGraphAddNode, AUGraphConnectNodeInput, which CoreAudio may refuse.
Builds(t) ==
  /\ Drained(t) /\ ~ want[t].open
  /\ \E o \in {Op("nodes", graphOf[t], n) : n \in Nodes}
              \cup {Op("connections", graphOf[t], c) :
                      c \in IF want[t].nodes = <<>> THEN {} ELSE Connections} :
       /\ Len(want[t].nodes) + Len(want[t].connections) <= Capacity
       /\ \/ Makes(t, o) /\ Records(t, o)
          \/ Unpoolable(t) /\ UNCHANGED <<host, want>>
  /\ Goes(t, "run", None)
  /\ UNCHANGED <<mode, ctx, graphOf, pools, work, made, quarantined>>

\* AUGraphDisconnectNodeInput
Disconnects(t) ==
  /\ Drained(t) /\ want[t].connections # <<>>
  /\ Makes(t, Op("disconnect", graphOf[t], None))
  /\ Unpoolable(t)
  /\ Goes(t, "run", None)
  /\ UNCHANGED <<mode, ctx, graphOf, pools, work, made, quarantined>>

\* AUGraphSetNodeInputCallback registers a context, which it releases on failure.
SetsInput(t) ==
  /\ Drained(t)
  /\ Unpoolable(t)
  /\ \/ \E c \in Callbacks :
          /\ ctx[c] = None
          /\ ctx' = [ctx EXCEPT ![c] = [owner |-> graphOf[t], muted |-> FALSE]]
          /\ Makes(t, Op("input", graphOf[t], c))
     \/ UNCHANGED <<host, want, ctx>>
  /\ Goes(t, "run", None)
  /\ UNCHANGED <<mode, graphOf, pools, work, made, quarantined>>

\* AUGraphIsRunning, AUGraphUpdate, AUGraphNodeInfo, AudioUnitGetProperty, AudioUnitSetProperty
Answers(t) ==
  /\ Drained(t)
  /\ Goes(t, "run", None)
  /\ UNCHANGED <<mode, host, ctx, graphOf, topology, pools, work, history>>

-----------------------------------------------------------------------------
(* AUGraphOpen *)
Poolable(t) == ~ topology[t].unpoolable /\ topology[t].nodes # <<>> /\ Deferred
Matches(t) == template.shape # None /\ template.shape = Shape(topology[t])
Relearns == template.shape = None \/ ~ template.matches \/ template.mismatches + 1 >= Relearn

Refills(n) == [i \in 1 .. n |-> Op("refill", None, None)]
Schedules(kept, ops) ==
  LET n == Max({0, Target - Len(kept) - pending})
  IN  /\ pool' = kept
      /\ pending' = pending + n
      /\ queue' = queue \o ops \o Refills(n)

Opens(t) == Drained(t) /\ ~ want[t].open
OpensOwn(t) == Makes(t, Op("open", graphOf[t], None)) /\ Goes(t, "run", None)

OpensUnpooled(t) ==
  /\ Opens(t) /\ ~ Poolable(t)
  /\ OpensOwn(t)
  /\ UNCHANGED <<mode, ctx, graphOf, topology, pools, work, made, quarantined>>

\* take_pooled_graph: a hit
TakesPooled(t) ==
  /\ Opens(t) /\ Poolable(t) /\ Matches(t) /\ pool # <<>>
  /\ template' = [template EXCEPT !.matches = TRUE, !.mismatches = 0]
  /\ Schedules(Front(pool), <<>>)
  /\ Goes(t, "swap", Op("open", Last(pool), None))
  /\ UNCHANGED <<mode, host, ctx, graphOf, topology, inProgress, history>>

\* take_pooled_graph: a miss, which may teach a new template
MissesPool(t) ==
  /\ Opens(t) /\ Poolable(t)
  /\ \/ /\ Matches(t) /\ pool = <<>>
        /\ template' = [template EXCEPT !.matches = TRUE, !.mismatches = 0]
        /\ Schedules(pool, <<>>)
     \/ /\ ~ Matches(t) /\ Relearns
        /\ template' = [shape |-> Shape(topology[t]), matches |-> FALSE, mismatches |-> 0]
        /\ Schedules(<<>>, [i \in DOMAIN pool |-> Op("dispose", pool[i], None)])
     \/ /\ ~ Matches(t) /\ ~ Relearns
        /\ template' = [template EXCEPT !.mismatches = @ + 1]
        /\ Schedules(pool, <<>>)
  /\ OpensOwn(t)
  /\ UNCHANGED <<mode, ctx, graphOf, topology, inProgress, made, quarantined>>

\* swap_guest_graph; the guest's own graph is disposed of by the worker
SwapsGraph(t) ==
  /\ pc[t] = "swap"
  /\ graphOf' = [graphOf EXCEPT ![t] = call[t].graph]
  /\ Wants(t, call[t])
  /\ Goes(t, "enqueue", Op("dispose", graphOf[t], None))
  /\ UNCHANGED <<mode, host, ctx, topology, pools, work, made, quarantined>>

-----------------------------------------------------------------------------
(* The calls that are queued.  Muting, which takes no lock, comes first.    *)
Queues(t, o) == Len(queue) < MaxQueue /\ Goes(t, IF Deferred THEN "enqueue" ELSE "inline", o)

Initialize(t) ==
  /\ Has(t) /\ want[t].open /\ ~ want[t].init
  /\ LET o == Op("initialize", graphOf[t], None) IN Queues(t, o) /\ Wants(t, o)
  /\ UNCHANGED <<mode, host, ctx, graphOf, topology, pools, work, made, quarantined>>

Start(t) ==
  /\ Has(t) /\ want[t].init /\ ~ want[t].running
  /\ LET o == Op("start", graphOf[t], None) IN Queues(t, o) /\ Wants(t, o)
  /\ ctx' = Muted(graphOf[t], FALSE)
  /\ UNCHANGED <<mode, host, graphOf, topology, pools, work, made, quarantined>>

StopOnlyQueues(g) == UNCHANGED ctx
StopMutes(g) == ctx' = IF mode \in {"synchronous", "quarantine"} THEN ctx ELSE Muted(g, TRUE)

Stop(t) ==
  /\ Has(t) /\ want[t].running
  /\ LET o == Op("stop", graphOf[t], None) IN Queues(t, o) /\ Wants(t, o)
  /\ StopMutes(graphOf[t])
  /\ UNCHANGED <<mode, host, graphOf, topology, pools, work, made, quarantined>>

AddRenderNotify(t) ==
  /\ Has(t)
  /\ Unpoolable(t)
  /\ \E c \in Callbacks :
       /\ ctx[c] = None
       /\ ctx' = [ctx EXCEPT ![c] = [owner |-> graphOf[t], muted |-> FALSE]]
       /\ LET o == Op("notify", graphOf[t], c) IN Queues(t, o) /\ Wants(t, o)
  /\ UNCHANGED <<mode, host, graphOf, pools, work, made, quarantined>>

\* AUGraphUninitialize, AUGraphClose, DisposeAUGraph.  Disposal frees the
\* handle; the topology is cleared here, though the code does it in NewAUGraph.
TearDown(t) ==
  /\ Begins(t) /\ graphOf[t] # None
  /\ StopMutes(graphOf[t])
  /\ \E k \in Teardown :
       LET o == Op(k, graphOf[t], None)
       IN  /\ Queues(t, o)
           /\ k = "uninitialize" => want[t].init
           /\ k = "close" => want[t].open
           /\ k # "dispose" => Has(t) /\ made.returns < MaxReturns
           /\ made' = IF k = "dispose" THEN made ELSE [made EXCEPT !.returns = @ + 1]
           /\ IF k = "dispose"
              THEN /\ want' = [want EXCEPT ![t] = None]
                   /\ graphOf' = [graphOf EXCEPT ![t] = None]
                   /\ topology' = [topology EXCEPT ![t] = Blank]
              ELSE Wants(t, o) /\ UNCHANGED <<graphOf, topology>>
  /\ UNCHANGED <<mode, host, pools, work, quarantined>>

Enqueues(t) ==
  /\ pc[t] = "enqueue"
  /\ queue' = Append(queue, call[t])
  /\ Goes(t, "run", None)
  /\ UNCHANGED <<mode, host, ctx, graphOf, topology, pools, inProgress, history>>

\* In quarantine a graph is stopped and its host side left for ever.
PerformsInline(t) ==
  /\ pc[t] = "inline"
  /\ IF mode = "quarantine" /\ call[t].kind \in Teardown
     THEN /\ host' = [host EXCEPT ![call[t].graph] = Left(@, call[t].kind)]
          /\ ctx' = IF call[t].kind = "dispose" THEN Released(call[t].graph) ELSE ctx
          /\ quarantined' = quarantined \cup {call[t].graph}
          /\ UNCHANGED want
     ELSE Performs(call[t])
  /\ Goes(t, "run", None)
  /\ UNCHANGED <<mode, graphOf, topology, pools, work, made>>

\* set_unit_parameter_for_guest: dropped, queued behind what is queued, or made at once
SetParameter(t) ==
  /\ Has(t) /\ want[t].open
  /\ Persists \/ ~ (want[t].init /\ HasWork(graphOf[t], TRUE))
  /\ LET o == Op("parameter", graphOf[t], TRUE)
     IN  /\ Wants(t, o)
         /\ Len(queue) < MaxQueue
         /\ \/ HasWork(graphOf[t], TRUE) /\ UNCHANGED <<host, queue>>
            \/ /\ HasWork(graphOf[t], FALSE) /\ ~ HasWork(graphOf[t], TRUE)
               /\ queue' = Append(queue, o) /\ UNCHANGED host
            \/ /\ ~ HasWork(graphOf[t], FALSE)
               /\ host' = [host EXCEPT ![graphOf[t]] = After(@, o)] /\ UNCHANGED queue
  /\ UNCHANGED <<mode, ctx, guest, pools, inProgress, made, quarantined>>

-----------------------------------------------------------------------------
Worker == TakesOp \/ PerformsOp \/ OpDone \/ RefillReads \/ RefillBuilds \/ RefillStores
Guest(t) ==
  \/ NewAUGraph(t) \/ Synchronizes(t) \/ Builds(t) \/ Disconnects(t) \/ SetsInput(t) \/ Answers(t)
  \/ OpensUnpooled(t) \/ TakesPooled(t) \/ MissesPool(t) \/ SwapsGraph(t)
  \/ Initialize(t) \/ Start(t) \/ Stop(t) \/ AddRenderNotify(t) \/ TearDown(t)
  \/ Enqueues(t) \/ PerformsInline(t) \/ SetParameter(t)
Next == Worker \/ \E t \in Threads : Guest(t)

Spec == Init /\ [][Next]_vars
\* The worker keeps running, CoreAudio's calls return, and a thread that waits is woken.
Returns(t) == Answers(t)
FairSpec == Spec /\ WF_vars(Worker) /\ \A t \in Threads : WF_vars(Returns(t))

-----------------------------------------------------------------------------
Shapes == [nodes : Seq(Nodes), connections : Seq(Connections)]
HostGraphs ==
  [nodes : Seq(Nodes), connections : Seq(Connections), open : BOOLEAN, init : BOOLEAN,
   running : BOOLEAN, volume : BOOLEAN, hooks : SUBSET Callbacks]
Contexts == [owner : Addresses, muted : BOOLEAN]
Topologies ==
  {s \in [nodes : Seq(Nodes), connections : Seq(Connections), unpoolable : BOOLEAN] :
     Len(s.nodes) <= Capacity /\ Len(s.connections) <= Capacity}
Ops ==
  {o \in [kind : {"initialize", "start", "stop", "notify", "parameter", "open", "refill"} \cup Teardown,
          graph : Addresses \cup {None}, arg : Callbacks \cup {None, TRUE}] :
     /\ o.graph = None <=> o.kind = "refill"
     /\ o.kind = "notify" => o.arg \in Callbacks
     /\ o.kind = "parameter" => o.arg = TRUE}

ASSUME NoneAssumption ==
  /\ None \notin Addresses \cup Callbacks
  /\ None \notin HostGraphs \cup Contexts
  /\ None \notin Shapes \cup Ops

WorkOK ==
  /\ inProgress \in [place : {"idle", "perform", "build", "store", "done"}, op : Ops \cup {None},
                     shape : Shapes \cup {None}, graph : Addresses \cup {None}]
  /\ queue \in Seq(Ops)
  /\ \A i \in DOMAIN queue : queue[i].kind # "open"
  /\ inProgress.op = None <=> inProgress.place = "idle"
  /\ inProgress.op # None => inProgress.op.kind # "open"
  /\ inProgress.place \in {"build", "store"} => inProgress.op.kind = "refill"
  /\ inProgress.place # "store" => inProgress.graph = None
  /\ inProgress.graph # None => inProgress.shape # None

CallsOK ==
  /\ pc \in [Threads -> {"run", "drain", "swap", "enqueue", "inline"}]
  /\ call \in [Threads -> Ops \cup {None}]
  /\ \A t \in Threads :
       /\ call[t] = None <=> pc[t] \in {"run", "drain"}
       /\ pc[t] = "swap" => call[t].kind = "open"
       /\ pc[t] \in {"enqueue", "inline"} => call[t].kind \notin {"open", "refill", "parameter"}

PoolOK ==
  /\ template \in [shape : Shapes \cup {None}, matches : BOOLEAN, mismatches : 0 .. Relearn - 1]
  /\ pool \in Seq(Addresses) /\ Len(pool) <= Target
  /\ pending \in 0 .. Target

HandlesOK ==
  /\ graphOf \in [Threads -> Addresses \cup {None}] /\ topology \in [Threads -> Topologies]
  /\ want \in [Threads -> HostGraphs \cup {None}]
  /\ \A t \in Threads : graphOf[t] = None <=> want[t] = None

TypeOK ==
  /\ mode \in Modes
  /\ host \in [Addresses -> HostGraphs \cup {None}] /\ ctx \in [Callbacks -> Contexts \cup {None}]
  /\ quarantined \subseteq Addresses
  /\ HandlesOK /\ WorkOK /\ CallsOK /\ PoolOK

\* The operations that are still to be performed, in their order; those on a
\* thread's graph end with the one that it is about to queue or to make.
Waiting == (IF inProgress.place = "perform" THEN <<inProgress.op>> ELSE <<>>) \o queue
Pending(t) == Waiting \o (IF pc[t] \in {"enqueue", "inline"} THEN <<call[t]>> ELSE <<>>)

\* What a graph becomes, one after the other of the operations that are on it.
Effects(g, a, ops) ==
  LET becomes[i \in 0 .. Len(ops)] ==
        IF i = 0 THEN g
        ELSE IF ops[i].graph = a THEN After(becomes[i - 1], ops[i]) ELSE becomes[i - 1]
  IN  becomes
Becomes(t) == Effects(host[graphOf[t]], graphOf[t], Pending(t))
Sound(t) == graphOf[t] \notin {None} \cup quarantined

\* The calls on a graph take effect in the guest's order: what CoreAudio's graph
\* will be when the queued operations are done is what the calls add up to, made
\* one after the other, whichever graph the handle names by then (the comment at
\* audio_bridge.c:1254 on ordering; 1676 on the swap being transparent).
CallsInOrder == \A t \in Threads : Sound(t) => Becomes(t)[Len(Pending(t))] = want[t]

\* The guest is never entered for a graph that it has stopped or disposed of
\* (comment at 1260): no callback that CoreAudio may still call is unmuted.
StoppedIsSilent ==
  \A a \in Addresses \ quarantined :
    host[a] # None /\ host[a].running /\ (\E c \in host[a].hooks : ctx[c] # None /\ ~ ctx[c].muted) =>
      \E t \in Threads : \/ graphOf[t] = a /\ want[t].running
                         \/ pc[t] = "inline" /\ call[t].graph = a

\* Every graph of CoreAudio has one owner, which will see to its disposal; the
\* pool holds opened graphs of the template's shape and never more than its target,
\* whatever refills are under way when the template is learnt again.
Disposes(o, a) == o.kind = "dispose" /\ o.graph = a
InCall(t, a) == \/ pc[t] = "swap" /\ call[t].graph = a
                \/ pc[t] \in {"enqueue", "inline"} /\ Disposes(call[t], a)
Owners(a) ==
  {<<"handle", t>> : t \in {t \in Threads : graphOf[t] = a}}
  \cup {<<"call", t>> : t \in {t \in Threads : InCall(t, a)}}
  \cup {<<"pool", i>> : i \in {i \in DOMAIN pool : pool[i] = a}}
  \cup {<<"disposal", i>> : i \in {i \in DOMAIN Waiting : Disposes(Waiting[i], a)}}
  \cup {<<"refill", g>> : g \in {inProgress.graph} \cap {a}}
PoolSound ==
  /\ \A a \in Addresses \ quarantined : Cardinality(Owners(a)) = IF host[a] = None THEN 0 ELSE 1
  /\ \A i \in DOMAIN pool : host[pool[i]] = Built(template.shape)
  /\ Len(pool) + pending <= Target

\* A call that waits for the graph's queue returns.
DrainReturns == \A t \in Threads : pc[t] = "drain" ~> pc[t] # "drain"

-----------------------------------------------------------------------------
(* Why they hold.  Without a worker nothing is queued and nothing pooled;  *)
(* with one, no thread makes a queued call itself.                         *)
ModeKept ==
  IF Deferred THEN \A t \in Threads : pc[t] # "inline"
  ELSE /\ queue = <<>> /\ pool = <<>> /\ inProgress = Idle
       /\ \A t \in Threads : pc[t] \notin {"enqueue", "swap"}

\* A graph, quarantined or not, is in one place at most, and only if it is one.
InPool(a) == \E i \in DOMAIN pool : pool[i] = a
InWaiting(a) == \E i \in DOMAIN Waiting : Disposes(Waiting[i], a)
Holds(t, a) == graphOf[t] = a \/ InCall(t, a)
Held(a) == (\E t \in Threads : Holds(t, a)) \/ InPool(a) \/ InWaiting(a) \/ inProgress.graph = a
HeldOnce(a) ==
  /\ \A t, u \in Threads : Holds(t, a) /\ Holds(u, a) => t = u
  /\ \A t \in Threads : Holds(t, a) =>
        ~ (graphOf[t] = a /\ InCall(t, a)) /\ ~ InPool(a) /\ ~ InWaiting(a) /\ inProgress.graph # a
  /\ InPool(a) => ~ InWaiting(a) /\ inProgress.graph # a
  /\ InWaiting(a) => inProgress.graph # a
  /\ \A i, j \in DOMAIN pool : pool[i] = a /\ pool[j] = a => i = j
  /\ \A i, j \in DOMAIN Waiting : Disposes(Waiting[i], a) /\ Disposes(Waiting[j], a) => i = j
OwnedOnce ==
  \A a \in Addresses : /\ HeldOnce(a) /\ (Held(a) => host[a] # None)
                       /\ host[a] # None /\ a \notin quarantined => Held(a)

\* An operation is on the graph of a handle, or on one that is to be disposed of after it.
Survives(a, i) ==
  \/ \E t \in Threads : graphOf[t] = a \/ (pc[t] = "enqueue" /\ Disposes(call[t], a))
  \/ \E j \in DOMAIN Waiting : j > i /\ Disposes(Waiting[j], a)
OpsOwned ==
  /\ \A t \in Threads : pc[t] \in {"drain", "swap"} => graphOf[t] # None
  /\ \A t \in Threads : pc[t] \in {"enqueue", "inline"} /\ call[t].kind # "dispose" =>
        call[t].graph = graphOf[t]
  /\ \A i \in DOMAIN Waiting :
        Waiting[i].kind \notin {"dispose", "refill"} => Survives(Waiting[i].graph, i)

\* A context belongs to a graph that is never pooled again, until that one is disposed of.
ContextsOwned ==
  \A c \in Callbacks : ctx[c] # None =>
    \/ \E t \in Threads : \/ graphOf[t] = ctx[c].owner /\ topology[t].unpoolable
                          \/ pc[t] \in {"enqueue", "inline"} /\ Disposes(call[t], ctx[c].owner)
    \/ InWaiting(ctx[c].owner)

\* CoreAudio has a callback of a graph, or a notify operation will give it one, but not both.
Attaches(o, c) == o.kind = "notify" /\ o.arg = c
Calling(t, c) == pc[t] \in {"enqueue", "inline"} /\ Attaches(call[t], c)
Fits(o) == o.kind = "notify" =>
             /\ ctx[o.arg] # None /\ ctx[o.arg].owner = o.graph
             /\ host[o.graph] # None /\ o.arg \notin host[o.graph].hooks
HooksOwned ==
  /\ \A a \in Addresses : host[a] # None =>
       \A c \in host[a].hooks : ctx[c] # None /\ ctx[c].owner = a
  /\ \A i \in DOMAIN Waiting : Fits(Waiting[i])
  /\ \A t \in Threads : pc[t] \in {"enqueue", "inline"} => Fits(call[t])
  /\ \A c \in Callbacks :
       /\ \A i, j \in DOMAIN Waiting : Attaches(Waiting[i], c) /\ Attaches(Waiting[j], c) => i = j
       /\ \A i \in DOMAIN Waiting, t \in Threads : ~ (Attaches(Waiting[i], c) /\ Calling(t, c))
       /\ \A t, u \in Threads : Calling(t, c) /\ Calling(u, c) => t = u

\* A topology that may be pooled is all that the guest has made of its graph.
Closed(g) == ~ g.open => ~ g.init /\ ~ g.running /\ ~ g.volume
TopologyKept ==
  \A t \in Threads : graphOf[t] # None =>
    /\ Closed(want[t])
    /\ ~ topology[t].unpoolable => want[t].hooks = {} /\ Shape(want[t]) = Shape(topology[t])
    /\ pc[t] = "swap" => /\ ~ topology[t].unpoolable /\ ~ want[t].open
                         /\ host[call[t].graph] = Built(Shape(topology[t]))

PoolKept ==
  /\ \A i \in DOMAIN pool : host[pool[i]] = Built(template.shape)
  /\ pool # <<>> => template.shape # None
  /\ inProgress.graph # None => host[inProgress.graph] = Built(inProgress.shape)
  /\ Len(pool) + pending <= Target

\* Only the volume of a graph may get lost, and only when it is set where Persists says.
Agree(g, h) == \A f \in DOMAIN g : g[f] = h[f] \/ (f = "volume" /\ Persists)
InOrder == \A t \in Threads : Sound(t) => Agree(Becomes(t)[Len(Pending(t))], want[t])

\* A stopped graph stays silent up to the last operation that is pending for it,
\* unless its thread is about to make one itself.
SilentWith(g) == g.running => \A c \in g.hooks : ctx[c] # None => ctx[c].muted
Silent ==
  \A t \in Threads : Sound(t) /\ ~ want[t].running /\ pc[t] # "inline" =>
    \A i \in 0 .. Len(Pending(t)) : SilentWith(Becomes(t)[i])
Unmuted ==
  \A c \in Callbacks : ctx[c] # None /\ ~ ctx[c].muted =>
    \E t \in Threads : \/ graphOf[t] = ctx[c].owner
                       \/ pc[t] = "inline" /\ call[t].graph = ctx[c].owner

GraphsInv ==
  /\ TypeOK /\ ModeKept /\ OwnedOnce /\ OpsOwned /\ ContextsOwned /\ HooksOwned
  /\ TopologyKept /\ PoolKept /\ InOrder /\ Silent /\ Unmuted
=============================================================================
