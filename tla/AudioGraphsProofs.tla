--------------------------- MODULE AudioGraphsProofs ---------------------------
(***************************************************************************)
(* Proofs about AudioGraphs, for any number of threads, graphs, callbacks  *)
(* and operations: its type invariant, that calls take effect in the       *)
(* guest's order, that a stopped graph is silent, and that every graph has *)
(* one owner and the pool what it is said to have.                         *)
(***************************************************************************)
EXTENDS AudioGraphs, FiniteSetTheorems, WellFoundedInduction, TLAPS

-----------------------------------------------------------------------------
(* Natural numbers and sequences *)

LEMMA LeastExists ==
  ASSUME NEW T, T \subseteq Nat, T # {}
  PROVE  \E x \in T : \A y \in T : x <= y
<1>1. IsWellFoundedOn(OpToRel(<, Nat), Nat)
  BY NatLessThanWellFounded
<1>2. PICK x \in T : \A y \in T : ~ (<<y, x>> \in OpToRel(<, Nat))
  BY <1>1, WFMin
<1>3. \A y \in T : ~ (y < x)
  BY <1>2 DEF OpToRel
<1>4. QED
  BY <1>3

\* What holds at 0 and of the next number holds up to n.
LEMMA UpTo ==
  ASSUME NEW n \in Nat, NEW S, 0 \in S, \A i \in 0 .. n - 1 : i \in S => i + 1 \in S
  PROVE  0 .. n \subseteq S
<1> DEFINE T == {i \in 0 .. n : i \notin S}
<1>1. SUFFICES ASSUME T # {} PROVE FALSE
  OBVIOUS
<1>2. PICK x \in T : \A y \in T : x <= y
  <2>1. T \subseteq Nat
    OBVIOUS
  <2>2. QED
    BY <1>1, <2>1, LeastExists
<1>3. x \in Nat /\ x # 0 /\ x <= n
  BY <1>2
<1>4. x - 1 \in 0 .. n - 1 /\ x - 1 \notin T
  BY <1>2, <1>3
<1>5. x - 1 \in S
  BY <1>4
<1>6. QED
  BY <1>2, <1>3, <1>4, <1>5

LEMMA MaxIs ==
  ASSUME NEW x \in Int
  PROVE  Max({0, x}) = IF x > 0 THEN x ELSE 0
BY DEF Max

LEMMA FrontIs ==
  ASSUME NEW S, NEW s \in Seq(S)
  PROVE  /\ Front(s) \in Seq(S)
         /\ s # <<>> => /\ Len(Front(s)) = Len(s) - 1
                        /\ \A i \in 1 .. Len(s) - 1 : Front(s)[i] = s[i]
<1>1. CASE s = <<>>
  <2>1. SubSeq(s, 1, Len(s) - 1) = <<>>
    BY <1>1
  <2>2. QED
    BY <1>1, <2>1 DEF Front
<1>2. CASE s # <<>>
  <2>1. Len(s) - 1 \in Nat /\ Len(s) - 1 <= Len(s)
    BY <1>2
  <2>2. SubSeq(s, 1, Len(s) - 1) = [i \in 1 .. Len(s) - 1 |-> s[i]]
    BY <2>1
  <2> DEFINE f == [i \in 1 .. Len(s) - 1 |-> s[i]]
  <2>3. f \in Seq(S) /\ Len(f) = Len(s) - 1 /\ \A i \in 1 .. Len(s) - 1 : f[i] = s[i]
    BY <2>1
  <2>4. Front(s) = f
    BY <2>2 DEF Front
  <2>5. QED
    BY <2>3, <2>4, Zenon
<1>3. QED
  BY <1>1, <1>2

-----------------------------------------------------------------------------
(* What a call does to a graph *)

\* After, field by field.
Follows(h, g, o) ==
  /\ h.nodes = IF o.kind = "nodes" THEN Append(g.nodes, o.arg) ELSE g.nodes
  /\ h.connections = IF o.kind = "connections" THEN Append(g.connections, o.arg)
                     ELSE IF o.kind = "disconnect" THEN Front(g.connections) ELSE g.connections
  /\ h.open = IF o.kind = "open" THEN TRUE ELSE IF o.kind = "close" THEN FALSE ELSE g.open
  /\ h.init = IF o.kind = "initialize" THEN g.open
              ELSE IF o.kind \in {"uninitialize", "close"} THEN FALSE ELSE g.init
  /\ h.running = IF o.kind = "start" THEN g.init
                 ELSE IF o.kind \in {"stop", "uninitialize", "close"} THEN FALSE ELSE g.running
  /\ h.volume = IF o.kind = "parameter" /\ g.init THEN o.arg
                ELSE IF o.kind = "close" THEN FALSE ELSE g.volume
  /\ h.hooks = IF o.kind \in {"notify", "input"} THEN g.hooks \cup {o.arg}
               ELSE IF o.kind \in {"uninitialize", "close"} THEN {} ELSE g.hooks

IsGraph(h) ==
  h = [nodes |-> h.nodes, connections |-> h.connections, open |-> h.open, init |-> h.init,
       running |-> h.running, volume |-> h.volume, hooks |-> h.hooks]

LEMMA AfterIs ==
  ASSUME NEW g \in HostGraphs, NEW o
  PROVE  Follows(After(g, o), g, o) /\ IsGraph(After(g, o))
<1>1. CASE o.kind = "nodes"
  <2>1. After(g, o) = [g EXCEPT !.nodes = Append(@, o.arg)]
    BY <1>1, Zenon DEF After
  <2>2. QED
    BY <1>1, <2>1 DEF HostGraphs, Follows, IsGraph
<1>2. CASE o.kind = "connections"
  <2>1. After(g, o) = [g EXCEPT !.connections = Append(@, o.arg)]
    BY <1>2, Zenon DEF After
  <2>2. QED
    BY <1>2, <2>1 DEF HostGraphs, Follows, IsGraph
<1>3. CASE o.kind = "disconnect"
  <2>1. After(g, o) = [g EXCEPT !.connections = Front(@)]
    BY <1>3, Zenon DEF After
  <2>2. QED
    BY <1>3, <2>1 DEF HostGraphs, Follows, IsGraph
<1>4. CASE o.kind = "open"
  <2>1. After(g, o) = [g EXCEPT !.open = TRUE]
    BY <1>4, Zenon DEF After
  <2>2. QED
    BY <1>4, <2>1 DEF HostGraphs, Follows, IsGraph
<1>5. CASE o.kind = "initialize"
  <2>1. After(g, o) = [g EXCEPT !.init = g.open]
    BY <1>5, Zenon DEF After
  <2>2. QED
    BY <1>5, <2>1 DEF HostGraphs, Follows, IsGraph
<1>6. CASE o.kind \in {"notify", "input"}
  <2>1. After(g, o) = [g EXCEPT !.hooks = @ \cup {o.arg}]
    BY <1>6, Zenon DEF After
  <2>2. QED
    BY <1>6, <2>1 DEF HostGraphs, Follows, IsGraph
<1>7. CASE o.kind = "start"
  <2>1. After(g, o) = [g EXCEPT !.running = g.init]
    BY <1>7, Zenon DEF After
  <2>2. QED
    BY <1>7, <2>1 DEF HostGraphs, Follows, IsGraph
<1>8. CASE o.kind = "stop"
  <2>1. After(g, o) = [g EXCEPT !.running = FALSE]
    BY <1>8, Zenon DEF After
  <2>2. QED
    BY <1>8, <2>1 DEF HostGraphs, Follows, IsGraph
<1>9. CASE o.kind = "parameter"
  <2>1. After(g, o) = [g EXCEPT !.volume = IF g.init THEN o.arg ELSE @]
    BY <1>9, Zenon DEF After
  <2>2. QED
    BY <1>9, <2>1 DEF HostGraphs, Follows, IsGraph
<1>10. CASE o.kind = "uninitialize"
  <2>1. After(g, o) = [g EXCEPT !.running = FALSE, !.hooks = {}, !.init = FALSE]
    BY <1>10, Zenon DEF After, Detached
  <2>2. QED
    BY <1>10, <2>1 DEF HostGraphs, Follows, IsGraph
<1>11. CASE o.kind = "close"
  <2>1. After(g, o) = [g EXCEPT !.running = FALSE, !.hooks = {}, !.init = FALSE, !.open = FALSE, !.volume = FALSE]
    BY <1>11, Zenon DEF After, Detached
  <2>2. QED
    BY <1>11, <2>1 DEF HostGraphs, Follows, IsGraph
<1>12. CASE o.kind \notin {"nodes", "connections", "disconnect", "open", "initialize", "notify",
                          "input", "start", "stop", "parameter", "uninitialize", "close"}
  <2>1. After(g, o) = g
    BY <1>12, Zenon DEF After
  <2>2. QED
    BY <1>12, <2>1 DEF HostGraphs, Follows, IsGraph
<1>13. QED
  BY <1>1, <1>2, <1>3, <1>4, <1>5, <1>6, <1>7, <1>8, <1>9, <1>10, <1>11, <1>12

GraphTyped(g) ==
  /\ g.nodes \in Seq(Nodes) /\ g.connections \in Seq(Connections)
  /\ g.open \in BOOLEAN /\ g.init \in BOOLEAN /\ g.running \in BOOLEAN /\ g.volume \in BOOLEAN
  /\ g.hooks \subseteq Callbacks

LEMMA TypedIs ==
  ASSUME NEW g
  PROVE  g \in HostGraphs <=> GraphTyped(g) /\ IsGraph(g)
BY DEF HostGraphs, GraphTyped, IsGraph

\* Graphs are equal when their fields are.
LEMMA SameGraph ==
  ASSUME NEW g \in HostGraphs, NEW h \in HostGraphs,
         g.nodes = h.nodes, g.connections = h.connections, g.open = h.open, g.init = h.init,
         g.running = h.running, g.volume = h.volume, g.hooks = h.hooks
  PROVE  g = h
BY DEF HostGraphs

Fitting(o) ==
  /\ o.kind = "nodes" => o.arg \in Nodes
  /\ o.kind = "connections" => o.arg \in Connections
  /\ o.kind \in {"notify", "input"} => o.arg \in Callbacks
  /\ o.kind = "parameter" => o.arg = TRUE

LEMMA AfterTyped ==
  ASSUME NEW g \in HostGraphs, NEW o, Fitting(o)
  PROVE  After(g, o) \in HostGraphs
<1>1. GraphTyped(g)
  BY TypedIs
<1>2. PICK h : h = After(g, o)
  OBVIOUS
<1>3. Follows(h, g, o) /\ IsGraph(h)
  BY <1>2, AfterIs
<1>4. h.nodes \in Seq(Nodes)
  BY <1>1, <1>3 DEF Fitting, Follows, GraphTyped
<1>5. h.connections \in Seq(Connections)
  <2>1. CASE o.kind = "disconnect"
    BY <1>1, <1>3, <2>1, FrontIs DEF Fitting, Follows, GraphTyped
  <2>2. CASE o.kind # "disconnect"
    BY <1>1, <1>3, <2>2 DEF Fitting, Follows, GraphTyped
  <2>3. QED
    BY <2>1, <2>2
<1>6. h.open \in BOOLEAN /\ h.init \in BOOLEAN /\ h.running \in BOOLEAN
  BY <1>1, <1>3 DEF Follows, GraphTyped
<1>7. h.volume \in BOOLEAN
  BY <1>1, <1>3 DEF Fitting, Follows, GraphTyped
<1>8. h.hooks \subseteq Callbacks
  BY <1>1, <1>3 DEF Fitting, Follows, GraphTyped
<1>9. h \in HostGraphs
  BY <1>3, <1>4, <1>5, <1>6, <1>7, <1>8, TypedIs DEF GraphTyped
<1>10. QED
  BY <1>2, <1>9

LEMMA OpsFit ==
  ASSUME NEW o \in Ops
  PROVE  Fitting(o)
BY DEF Ops, Teardown, Fitting

\* Two graphs agree when all fields do but the volume.
LEMMA AgreeIs ==
  ASSUME NEW g \in HostGraphs, NEW h \in HostGraphs
  PROVE  Agree(g, h) <=> /\ g.nodes = h.nodes /\ g.connections = h.connections /\ g.open = h.open
                         /\ g.init = h.init /\ g.running = h.running /\ g.hooks = h.hooks
                         /\ Persists \/ g.volume = h.volume
<1>1. DOMAIN g = {"nodes", "connections", "open", "init", "running", "volume", "hooks"}
  BY DEF HostGraphs
<1>2. Agree(g, h) <=> /\ g["nodes"] = h["nodes"] /\ g["connections"] = h["connections"]
                      /\ g["open"] = h["open"] /\ g["init"] = h["init"]
                      /\ g["running"] = h["running"] /\ g["hooks"] = h["hooks"]
                      /\ Persists \/ g["volume"] = h["volume"]
  BY <1>1 DEF Agree
<1>3. QED
  BY <1>2

LEMMA EqualWhenAgree ==
  ASSUME NEW g \in HostGraphs, NEW h \in HostGraphs, Agree(g, h), ~ Persists
  PROVE  g = h
BY AgreeIs, SameGraph

LEMMA AfterAgree ==
  ASSUME NEW g \in HostGraphs, NEW h \in HostGraphs, Agree(g, h),
         NEW o, Fitting(o)
  PROVE  Agree(After(g, o), After(h, o))
<1>1. PICK x, y : x = After(g, o) /\ y = After(h, o)
  OBVIOUS
<1>2. x \in HostGraphs /\ y \in HostGraphs
  BY <1>1, AfterTyped
<1>3. Follows(x, g, o) /\ Follows(y, h, o)
  BY <1>1, AfterIs
<1>4. /\ g.nodes = h.nodes /\ g.connections = h.connections /\ g.open = h.open
      /\ g.init = h.init /\ g.running = h.running /\ g.hooks = h.hooks
      /\ Persists \/ g.volume = h.volume
  BY AgreeIs
<1>5. /\ x.nodes = y.nodes /\ x.connections = y.connections /\ x.open = y.open
      /\ x.init = y.init /\ x.running = y.running /\ x.hooks = y.hooks
  BY <1>3, <1>4 DEF Follows
<1>6. Persists \/ x.volume = y.volume
  BY <1>3, <1>4 DEF Follows
<1>7. QED
  BY <1>1, <1>2, <1>5, <1>6, AgreeIs

LEMMA AfterClosed ==
  ASSUME NEW g \in HostGraphs, NEW o, Closed(g)
  PROVE  Closed(After(g, o))
<1>1. PICK h : h = After(g, o)
  OBVIOUS
<1>2. Follows(h, g, o)
  BY <1>1, AfterIs
<1>3. Closed(h)
  BY <1>2 DEF Closed, Follows
<1>4. QED
  BY <1>1, <1>3

Without(g, c) == [g EXCEPT !.hooks = @ \ {c}]

LEMMA WithoutIs ==
  ASSUME NEW g \in HostGraphs, NEW c
  PROVE  /\ Without(g, c) \in HostGraphs
         /\ Without(g, c).nodes = g.nodes /\ Without(g, c).connections = g.connections
         /\ Without(g, c).open = g.open /\ Without(g, c).init = g.init
         /\ Without(g, c).running = g.running /\ Without(g, c).volume = g.volume
         /\ Without(g, c).hooks = g.hooks \ {c}
BY DEF Without, HostGraphs

\* A hook that an operation does not attach may as well be missing before it.
LEMMA AfterWithout ==
  ASSUME NEW g \in HostGraphs, NEW o, Fitting(o), NEW c,
         ~ (o.kind \in {"notify", "input"} /\ o.arg = c)
  PROVE  After(Without(g, c), o) = Without(After(g, o), c)
<1>1. PICK h, a, x, y : /\ h = Without(g, c) /\ a = After(g, o)
                        /\ x = After(h, o) /\ y = Without(a, c)
  OBVIOUS
<1>2. /\ h \in HostGraphs /\ h.nodes = g.nodes /\ h.connections = g.connections
      /\ h.open = g.open /\ h.init = g.init /\ h.running = g.running /\ h.volume = g.volume
      /\ h.hooks = g.hooks \ {c}
  BY <1>1, WithoutIs
<1>4. a \in HostGraphs /\ Follows(a, g, o)
  BY <1>1, AfterTyped, AfterIs
<1>5. x \in HostGraphs /\ Follows(x, h, o)
  BY <1>1, <1>2, AfterTyped, AfterIs
<1>6. /\ y \in HostGraphs /\ y.nodes = a.nodes /\ y.connections = a.connections
      /\ y.open = a.open /\ y.init = a.init /\ y.running = a.running /\ y.volume = a.volume
      /\ y.hooks = a.hooks \ {c}
  BY <1>1, <1>4, WithoutIs
<1>7. /\ x.nodes = y.nodes /\ x.connections = y.connections /\ x.open = y.open
      /\ x.init = y.init /\ x.running = y.running /\ x.volume = y.volume
  BY <1>2, <1>4, <1>5, <1>6 DEF Follows
<1>8. x.hooks = y.hooks
  BY <1>2, <1>4, <1>5, <1>6 DEF Follows
<1>9. QED
  BY <1>1, <1>5, <1>6, <1>7, <1>8, SameGraph

-----------------------------------------------------------------------------
(* What a graph becomes *)

Step(g, a, o) == IF o.graph = a THEN After(g, o) ELSE g

PathTo(f, n, g, a, ops) ==
  f = [i \in 0 .. n |-> IF i = 0 THEN g
                        ELSE IF ops[i].graph = a THEN After(f[i - 1], ops[i]) ELSE f[i - 1]]

LEMMA PathExists ==
  ASSUME NEW n \in Nat, NEW g, NEW a, NEW ops
  PROVE  \E f : PathTo(f, n, g, a, ops)
<1> DEFINE S == {k \in 0 .. n : \E f : PathTo(f, k, g, a, ops)}
<1>1. 0 \in S
  <2> DEFINE f == [i \in 0 .. 0 |-> g]
  <2>1. PathTo(f, 0, g, a, ops)
    BY DEF PathTo
  <2>2. QED
    BY <2>1
<1>2. ASSUME NEW k \in 0 .. n - 1, k \in S PROVE k + 1 \in S
  <2>1. PICK f : PathTo(f, k, g, a, ops)
    BY <1>2
  <2> DEFINE h == [i \in 0 .. k + 1 |-> IF i <= k THEN f[i] ELSE Step(f[k], a, ops[k + 1])]
  <2>2. ASSUME NEW i \in 0 .. k + 1
        PROVE  h[i] = IF i = 0 THEN g
                      ELSE IF ops[i].graph = a THEN After(h[i - 1], ops[i]) ELSE h[i - 1]
    <3>1. CASE i = 0
      <4>1. f[0] = g
        BY <2>1 DEF PathTo
      <4>2. h[i] = f[0]
        BY <3>1
      <4>3. QED
        BY <3>1, <4>1, <4>2
    <3>2. CASE i \in 1 .. k
      <4>1. f[i] = IF ops[i].graph = a THEN After(f[i - 1], ops[i]) ELSE f[i - 1]
        BY <2>1, <3>2 DEF PathTo
      <4>2. h[i] = f[i] /\ h[i - 1] = f[i - 1]
        BY <3>2
      <4>3. QED
        BY <3>2, <4>1, <4>2
    <3>3. CASE i = k + 1
      <4>1. h[i] = Step(f[k], a, ops[i]) /\ h[i - 1] = f[k] /\ i # 0
        BY <3>3
      <4>2. QED
        BY <4>1 DEF Step
    <3>4. QED
      BY <3>1, <3>2, <3>3
  <2>3. h = [i \in 0 .. k + 1 |->
              IF i = 0 THEN g
              ELSE IF ops[i].graph = a THEN After(h[i - 1], ops[i]) ELSE h[i - 1]]
    <3> HIDE DEF h
    <3>1. h = [i \in 0 .. k + 1 |-> h[i]]
      BY DEF h
    <3>2. QED
      BY <2>2, <3>1, Zenon
  <2>4. PathTo(h, k + 1, g, a, ops)
    BY <2>3 DEF PathTo
  <2>5. QED
    BY <2>4
<1>3. 0 .. n \subseteq S
  <2> HIDE DEF S
  <2>1. QED
    BY <1>1, <1>2, UpTo
<1>4. QED
  BY <1>3

LEMMA EffectsPath ==
  ASSUME NEW g, NEW a, NEW ops, Len(ops) \in Nat
  PROVE  PathTo(Effects(g, a, ops), Len(ops), g, a, ops)
<1>1. \E f : PathTo(f, Len(ops), g, a, ops)
  BY PathExists
<1>2. QED
  BY <1>1, Zenon DEF PathTo, Effects

\* A graph becomes what the first operation makes of it, then the second, and so on.
LEMMA EffectsIs ==
  ASSUME NEW g, NEW a, NEW S, NEW ops \in Seq(S)
  PROVE  /\ Effects(g, a, ops)[0] = g
         /\ \A i \in 1 .. Len(ops) :
              Effects(g, a, ops)[i] = Step(Effects(g, a, ops)[i - 1], a, ops[i])
<1>1. PICK f : f = Effects(g, a, ops)
  OBVIOUS
<1>2. PathTo(f, Len(ops), g, a, ops) /\ Len(ops) \in Nat
  BY <1>1, EffectsPath
<1>3. f[0] = g
  BY <1>2 DEF PathTo
<1>4. ASSUME NEW i \in 1 .. Len(ops) PROVE f[i] = Step(f[i - 1], a, ops[i])
  <2>1. f[i] = IF i = 0 THEN g ELSE IF ops[i].graph = a THEN After(f[i - 1], ops[i]) ELSE f[i - 1]
    <3>1. i \in 0 .. Len(ops)
      BY <1>2
    <3>2. QED
      BY <1>2, <3>1, Zenon DEF PathTo
  <2>2. QED
    BY <2>1 DEF Step
<1>5. QED
  BY <1>1, <1>3, <1>4

\* An operation on another graph does nothing.
LEMMA EffectsIdle ==
  ASSUME NEW g, NEW a, NEW S, NEW ops \in Seq(S), NEW m \in 0 .. Len(ops),
         \A i \in m + 1 .. Len(ops) : ops[i].graph # a
  PROVE  \A i \in m .. Len(ops) : Effects(g, a, ops)[i] = Effects(g, a, ops)[m]
<1> DEFINE f == Effects(g, a, ops)
           T == {k \in 0 .. Len(ops) - m : f[m + k] = f[m]}
<1> HIDE DEF f
<1>1. 0 \in T
  OBVIOUS
<1>2. ASSUME NEW k \in 0 .. Len(ops) - m - 1, k \in T PROVE k + 1 \in T
  <2>1. m + k + 1 \in 1 .. Len(ops) /\ m + k + 1 \in m + 1 .. Len(ops)
    OBVIOUS
  <2>2. f[m + k + 1] = Step(f[m + k + 1 - 1], a, ops[m + k + 1])
    BY <2>1, EffectsIs DEF f
  <2>3. f[m + k + 1] = f[m + k]
    BY <2>1, <2>2 DEF Step
  <2>4. QED
    BY <1>2, <2>3
<1>3. 0 .. Len(ops) - m \subseteq T
  <2>1. Len(ops) - m \in Nat
    OBVIOUS
  <2> HIDE DEF T
  <2>2. QED
    BY <1>1, <1>2, <2>1, UpTo
<1>4. \A i \in m .. Len(ops) : i - m \in T
  <2>1. \A i \in m .. Len(ops) : i - m \in 0 .. Len(ops) - m
    OBVIOUS
  <2> HIDE DEF T
  <2>2. QED
    BY <1>3, <2>1
<1>5. \A i \in m .. Len(ops) : f[m + (i - m)] = f[m]
  BY <1>4
<1>6. QED
  BY <1>5 DEF f

\* What is queued later makes no difference before.
LEMMA EffectsPrefix ==
  ASSUME NEW g, NEW a, NEW S, NEW ops \in Seq(S), NEW more \in Seq(S), Len(ops) <= Len(more),
         \A i \in 1 .. Len(ops) : more[i] = ops[i]
  PROVE  \A i \in 0 .. Len(ops) : Effects(g, a, more)[i] = Effects(g, a, ops)[i]
<1> DEFINE f == Effects(g, a, ops)
           h == Effects(g, a, more)
           T == {k \in 0 .. Len(ops) : h[k] = f[k]}
<1> HIDE DEF f, h
<1>1. 0 \in T
  BY EffectsIs DEF f, h
<1>2. ASSUME NEW k \in 0 .. Len(ops) - 1, k \in T PROVE k + 1 \in T
  <2>1. k + 1 \in 1 .. Len(ops) /\ k + 1 \in 1 .. Len(more)
    OBVIOUS
  <2>2. f[k + 1] = Step(f[k + 1 - 1], a, ops[k + 1])
    BY <2>1, EffectsIs DEF f
  <2>3. h[k + 1] = Step(h[k + 1 - 1], a, more[k + 1])
    BY <2>1, EffectsIs DEF h
  <2>4. f[k + 1] = Step(f[k], a, ops[k + 1]) /\ h[k + 1] = Step(h[k], a, ops[k + 1])
    BY <2>1, <2>2, <2>3
  <2>5. QED
    BY <1>2, <2>4
<1>3. 0 .. Len(ops) \subseteq T
  <2>1. Len(ops) \in Nat
    OBVIOUS
  <2> HIDE DEF T
  <2>2. QED
    BY <1>1, <1>2, <2>1, UpTo
<1>4. QED
  BY <1>3 DEF f, h

\* With the first operation made, a graph becomes what it would have.
LEMMA EffectsTail ==
  ASSUME NEW g, NEW a, NEW S, NEW ops \in Seq(S), NEW rest \in Seq(S), Len(ops) = Len(rest) + 1,
         \A i \in 1 .. Len(rest) : rest[i] = ops[i + 1], NEW x, x = Step(g, a, ops[1])
  PROVE  \A i \in 0 .. Len(rest) : Effects(x, a, rest)[i] = Effects(g, a, ops)[i + 1]
<1> DEFINE f == Effects(g, a, ops)
           h == Effects(x, a, rest)
           T == {k \in 0 .. Len(rest) : h[k] = f[k + 1]}
<1> HIDE DEF f, h
<1>1. 0 \in T
  <2>1. h[0] = x
    BY EffectsIs DEF h
  <2>2. f[1] = Step(f[1 - 1], a, ops[1]) /\ f[0] = g
    BY EffectsIs DEF f
  <2>3. f[0 + 1] = Step(f[0], a, ops[1])
    BY <2>2
  <2>4. QED
    BY <2>1, <2>2, <2>3
<1>2. ASSUME NEW k \in 0 .. Len(rest) - 1, k \in T PROVE k + 1 \in T
  <2>1. k + 1 \in 1 .. Len(rest) /\ k + 2 \in 1 .. Len(ops)
    OBVIOUS
  <2>2. h[k + 1] = Step(h[k + 1 - 1], a, rest[k + 1])
    BY <2>1, EffectsIs DEF h
  <2>3. f[k + 2] = Step(f[k + 2 - 1], a, ops[k + 2])
    BY <2>1, EffectsIs DEF f
  <2>4. k + 1 - 1 = k /\ k + 2 - 1 = k + 1 /\ k + 1 + 1 = k + 2 /\ rest[k + 1] = ops[k + 2]
    BY <2>1
  <2>5. QED
    BY <1>2, <2>2, <2>3, <2>4
<1>3. 0 .. Len(rest) \subseteq T
  <2>1. Len(rest) \in Nat
    OBVIOUS
  <2> HIDE DEF T
  <2>2. QED
    BY <1>1, <1>2, <2>1, UpTo
<1>4. QED
  BY <1>3 DEF f, h

LEMMA EffectsTyped ==
  ASSUME NEW g \in HostGraphs, NEW a, NEW ops \in Seq(Ops)
  PROVE  \A i \in 0 .. Len(ops) : Effects(g, a, ops)[i] \in HostGraphs
<1> DEFINE f == Effects(g, a, ops)
           T == {k \in 0 .. Len(ops) : f[k] \in HostGraphs}
<1> HIDE DEF f
<1>1. 0 \in T
  BY EffectsIs DEF f
<1>2. ASSUME NEW k \in 0 .. Len(ops) - 1, k \in T PROVE k + 1 \in T
  <2>1. k + 1 \in 1 .. Len(ops) /\ k + 1 - 1 = k /\ ops[k + 1] \in Ops
    OBVIOUS
  <2>2. f[k + 1] = Step(f[k], a, ops[k + 1])
    BY <2>1, EffectsIs DEF f
  <2>3. Fitting(ops[k + 1])
    BY <2>1, OpsFit
  <2>4. f[k + 1] \in HostGraphs
    BY <1>2, <2>2, <2>3, AfterTyped DEF Step
  <2>5. QED
    BY <2>4
<1>3. 0 .. Len(ops) \subseteq T
  <2>1. Len(ops) \in Nat
    OBVIOUS
  <2> HIDE DEF T
  <2>2. QED
    BY <1>1, <1>2, <2>1, UpTo
<1>4. QED
  BY <1>3 DEF f

\* A hook that no operation attaches may as well be missing before them.
LEMMA EffectsWithout ==
  ASSUME NEW g \in HostGraphs, NEW a, NEW ops \in Seq(Ops), NEW c,
         \A i \in 1 .. Len(ops) : ~ Attaches(ops[i], c)
  PROVE  \A i \in 0 .. Len(ops) :
           Effects(Without(g, c), a, ops)[i] = Without(Effects(g, a, ops)[i], c)
<1> DEFINE f == Effects(g, a, ops)
           h == Effects(Without(g, c), a, ops)
           T == {k \in 0 .. Len(ops) : h[k] = Without(f[k], c)}
<1>0. \A i \in 0 .. Len(ops) : f[i] \in HostGraphs
  BY EffectsTyped
<1> HIDE DEF f, h
<1>1. 0 \in T
  BY EffectsIs DEF f, h
<1>2. ASSUME NEW k \in 0 .. Len(ops) - 1, k \in T PROVE k + 1 \in T
  <2>1. k + 1 \in 1 .. Len(ops) /\ k + 1 - 1 = k /\ ops[k + 1] \in Ops
    OBVIOUS
  <2>2. f[k + 1] = Step(f[k], a, ops[k + 1]) /\ h[k + 1] = Step(h[k], a, ops[k + 1])
    BY <2>1, EffectsIs DEF f, h
  <2>3. Fitting(ops[k + 1]) /\ f[k] \in HostGraphs
    BY <1>0, <2>1, OpsFit
  <2>4. ~ (ops[k + 1].kind \in {"notify", "input"} /\ ops[k + 1].arg = c)
    BY <2>1 DEF Ops, Teardown, Attaches
  <2>5. After(Without(f[k], c), ops[k + 1]) = Without(After(f[k], ops[k + 1]), c)
    BY <2>3, <2>4, AfterWithout
  <2>6. h[k + 1] = Without(f[k + 1], c)
    BY <1>2, <2>2, <2>5 DEF Step
  <2>7. QED
    BY <2>6
<1>3. 0 .. Len(ops) \subseteq T
  <2>1. Len(ops) \in Nat
    OBVIOUS
  <2> HIDE DEF T
  <2>2. QED
    BY <1>1, <1>2, <2>1, UpTo
<1>4. QED
  BY <1>3 DEF f, h

\* A graph has the hooks that it had or that an operation attaches.
LEMMA EffectsHooks ==
  ASSUME NEW g \in HostGraphs, NEW a, NEW ops \in Seq(Ops), NEW c,
         c \notin g.hooks, \A i \in 1 .. Len(ops) : ops[i].graph = a => ~ Attaches(ops[i], c)
  PROVE  \A i \in 0 .. Len(ops) : c \notin Effects(g, a, ops)[i].hooks
<1> DEFINE f == Effects(g, a, ops)
           T == {k \in 0 .. Len(ops) : c \notin f[k].hooks}
<1>0. \A i \in 0 .. Len(ops) : f[i] \in HostGraphs
  BY EffectsTyped
<1> HIDE DEF f
<1>1. 0 \in T
  BY EffectsIs DEF f
<1>2. ASSUME NEW k \in 0 .. Len(ops) - 1, k \in T PROVE k + 1 \in T
  <2>1. k + 1 \in 1 .. Len(ops) /\ k + 1 - 1 = k /\ ops[k + 1] \in Ops /\ k \in 0 .. Len(ops)
    OBVIOUS
  <2>2. f[k + 1] = Step(f[k], a, ops[k + 1]) /\ f[k] \in HostGraphs
    BY <1>0, <2>1, EffectsIs DEF f
  <2>3. PICK h, o : h = After(f[k], o) /\ o = ops[k + 1]
    OBVIOUS
  <2>4. Follows(h, f[k], o)
    BY <2>2, <2>3, AfterIs
  <2>5. o.graph = a => ~ (o.kind \in {"notify", "input"} /\ o.arg = c)
    BY <2>1, <2>3 DEF Ops, Teardown, Attaches
  <2>6. c \notin f[k].hooks
    BY <1>2
  <2>7. o.graph = a => c \notin h.hooks
    BY <2>4, <2>5, <2>6 DEF Follows
  <2>8. c \notin f[k + 1].hooks
    BY <2>2, <2>3, <2>6, <2>7 DEF Step
  <2>9. QED
    BY <2>8
<1>3. 0 .. Len(ops) \subseteq T
  <2>1. Len(ops) \in Nat
    OBVIOUS
  <2> HIDE DEF T
  <2>2. QED
    BY <1>1, <1>2, <2>1, UpTo
<1>4. QED
  BY <1>3 DEF f

-----------------------------------------------------------------------------
(* Operations *)

Plain == {"initialize", "start", "stop", "open"} \cup Teardown

LEMMA OpsAre ==
  ASSUME NEW a \in Addresses
  PROVE  /\ \A k \in Plain : Op(k, a, None) \in Ops
         /\ \A c \in Callbacks : Op("notify", a, c) \in Ops
         /\ Op("parameter", a, TRUE) \in Ops
         /\ Op("refill", None, None) \in Ops
<1>1. a # None
  BY NoneAssumption
<1>2. \A k \in Plain : Op(k, a, None) \in Ops
  BY <1>1 DEF Op, Ops, Plain, Teardown
<1>3. \A c \in Callbacks : Op("notify", a, c) \in Ops
  BY <1>1 DEF Op, Ops, Teardown
<1>4. Op("parameter", a, TRUE) \in Ops
  BY <1>1 DEF Op, Ops, Teardown
<1>5. Op("refill", None, None) \in Ops
  BY DEF Op, Ops, Teardown
<1>6. QED
  BY <1>2, <1>3, <1>4, <1>5

LEMMA OpIs ==
  ASSUME NEW k, NEW a, NEW x
  PROVE  Op(k, a, x).kind = k /\ Op(k, a, x).graph = a /\ Op(k, a, x).arg = x
BY DEF Op

LEMMA OpGraph ==
  ASSUME NEW o \in Ops
  PROVE  /\ o # None /\ o.graph \in Addresses \cup {None}
         /\ o.graph = None <=> o.kind = "refill"
         /\ o.kind # "input" /\ (o.kind = "notify" => o.arg \in Callbacks)
BY NoneAssumption DEF Ops, Teardown

LEMMA WaitingTyped ==
  ASSUME WorkOK
  PROVE  /\ Waiting \in Seq(Ops)
         /\ Len(Waiting) = Len(queue) + IF inProgress.place = "perform" THEN 1 ELSE 0
         /\ \A i \in DOMAIN Waiting : Waiting[i].kind # "open"
<1>1. CASE inProgress.place = "perform"
  <2>1. inProgress.op \in Ops /\ queue \in Seq(Ops) /\ inProgress.op.kind # "open"
    BY <1>1 DEF WorkOK
  <2>2. Waiting = <<inProgress.op>> \o queue
    BY <1>1 DEF Waiting
  <2>3. \A i \in DOMAIN queue : queue[i].kind # "open"
    BY DEF WorkOK
  <2> DEFINE w == <<inProgress.op>> \o queue
  <2>4. w \in Seq(Ops) /\ Len(w) = Len(queue) + 1
    BY <2>1
  <2>5. ASSUME NEW i \in DOMAIN w PROVE w[i].kind # "open"
    <3>1. CASE i = 1
      BY <2>1, <3>1
    <3>2. CASE i # 1
      <4>1. i - 1 \in DOMAIN queue /\ w[i] = queue[i - 1]
        BY <2>1, <2>4, <3>2
      <4>2. QED
        BY <2>3, <4>1
    <3>3. QED
      BY <3>1, <3>2
  <2>6. QED
    BY <1>1, <2>2, <2>4, <2>5
<1>2. CASE inProgress.place # "perform"
  <2>1. queue \in Seq(Ops) /\ Waiting = queue
    BY <1>2 DEF WorkOK, Waiting
  <2>2. QED
    BY <1>2, <2>1 DEF WorkOK
<1>3. QED
  BY <1>1, <1>2

LEMMA PendingTyped ==
  ASSUME WorkOK, CallsOK, NEW t \in Threads
  PROVE  /\ Pending(t) \in Seq(Ops)
         /\ \A i \in 1 .. Len(Waiting) : Pending(t)[i] = Waiting[i]
         /\ pc[t] \notin {"enqueue", "inline"} => Pending(t) = Waiting
         /\ pc[t] \in {"enqueue", "inline"} => /\ Len(Pending(t)) = Len(Waiting) + 1
                                               /\ Pending(t)[Len(Waiting) + 1] = call[t]
<1>1. Waiting \in Seq(Ops)
  BY WaitingTyped
<1>2. CASE pc[t] \in {"enqueue", "inline"}
  <2>1. call[t] \in Ops
    BY <1>2 DEF CallsOK
  <2>2. Pending(t) = Waiting \o <<call[t]>>
    BY <1>2 DEF Pending
  <2> HIDE DEF Waiting
  <2>3. QED
    BY <1>1, <1>2, <2>1, <2>2
<1>3. CASE pc[t] \notin {"enqueue", "inline"}
  <2>1. Pending(t) = Waiting
    BY <1>1, <1>3 DEF Pending
  <2>2. QED
    BY <1>1, <1>3, <2>1
<1>4. QED
  BY <1>2, <1>3

-----------------------------------------------------------------------------
(* Which graphs are there *)

HostOK == host \in [Addresses -> HostGraphs \cup {None}]
CtxOK == ctx \in [Callbacks -> Contexts \cup {None}]

LEMMA TypeParts ==
  TypeOK <=> /\ mode \in Modes /\ HostOK /\ CtxOK /\ quarantined \subseteq Addresses
             /\ HandlesOK /\ WorkOK /\ CallsOK /\ PoolOK
BY Zenon DEF TypeOK, HostOK, CtxOK

LEMMA TypePartsNext ==
  mode' \in Modes /\ HostOK' /\ CtxOK' /\ quarantined' \subseteq Addresses
    /\ HandlesOK' /\ WorkOK' /\ CallsOK' /\ PoolOK' => TypeOK'
BY Zenon DEF TypeOK, HostOK, CtxOK

LEMMA HeldIsMade ==
  ASSUME HostOK, OwnedOnce, NEW a \in Addresses, Held(a)
  PROVE  host[a] \in HostGraphs
BY DEF HostOK, OwnedOnce

LEMMA HandleMade ==
  ASSUME TypeOK, OwnedOnce, NEW t \in Threads, graphOf[t] # None
  PROVE  graphOf[t] \in Addresses /\ host[graphOf[t]] \in HostGraphs /\ want[t] \in HostGraphs
<1>1. graphOf[t] \in Addresses /\ want[t] \in HostGraphs
  BY TypeParts DEF HandlesOK
<1>2. Held(graphOf[t])
  BY DEF Held, Holds
<1>3. QED
  BY <1>1, <1>2, TypeParts, HeldIsMade

LEMMA PooledMade ==
  ASSUME TypeOK, OwnedOnce, NEW i \in DOMAIN pool
  PROVE  pool[i] \in Addresses /\ host[pool[i]] \in HostGraphs
<1>1. pool[i] \in Addresses
  BY TypeParts DEF PoolOK
<1>2. Held(pool[i])
  BY DEF Held, InPool
<1>3. QED
  BY <1>1, <1>2, TypeParts, HeldIsMade

LEMMA CallMade ==
  ASSUME TypeOK, OwnedOnce, OpsOwned, NEW t \in Threads, pc[t] \in {"enqueue", "inline", "swap"}
  PROVE  /\ call[t] \in Ops /\ call[t].graph \in Addresses /\ host[call[t].graph] \in HostGraphs
         /\ pc[t] = "swap" => call[t].kind = "open" /\ InCall(t, call[t].graph)
         /\ pc[t] # "swap" => call[t].kind \notin {"open", "refill", "parameter"}
<1>1. call[t] \in Ops /\ call[t].kind # "refill"
  BY TypeParts DEF CallsOK
<1>2. call[t].graph \in Addresses
  BY <1>1, OpGraph
<1>3. pc[t] # "swap" => call[t].kind \notin {"open", "refill", "parameter"}
  BY TypeParts DEF CallsOK
<1>4. CASE pc[t] = "swap" \/ call[t].kind = "dispose"
  <2>1. InCall(t, call[t].graph)
    BY <1>4 DEF InCall, Disposes
  <2>2. Held(call[t].graph)
    BY <2>1 DEF Held, Holds
  <2>3. pc[t] = "swap" => call[t].kind = "open"
    BY TypeParts DEF CallsOK
  <2>4. QED
    BY <1>1, <1>2, <1>3, <2>1, <2>2, <2>3, TypeParts, HeldIsMade
<1>5. CASE pc[t] # "swap" /\ call[t].kind # "dispose"
  <2>1. call[t].graph = graphOf[t]
    BY <1>5 DEF OpsOwned
  <2>2. QED
    BY <1>1, <1>2, <1>3, <1>5, <2>1, HandleMade, NoneAssumption
<1>6. QED
  BY <1>4, <1>5

LEMMA WaitingMade ==
  ASSUME TypeOK, OwnedOnce, OpsOwned, NEW i \in DOMAIN Waiting, Waiting[i].kind # "refill"
  PROVE  /\ Waiting[i] \in Ops /\ Waiting[i].graph \in Addresses
         /\ host[Waiting[i].graph] \in HostGraphs
<1> DEFINE o == Waiting[i]
           a == o.graph
<1>1. o \in Ops
  BY TypeParts, WaitingTyped
<1>2. a \in Addresses
  BY <1>1, OpGraph
<1>3. Held(a)
  <2>1. CASE o.kind = "dispose"
    BY <2>1 DEF Held, InWaiting, Disposes
  <2>2. CASE o.kind # "dispose"
    <3>1. Survives(a, i)
      BY <2>2 DEF OpsOwned
    <3>2. QED
      BY <3>1 DEF Survives, Held, Holds, InCall, InWaiting
  <2>3. QED
    BY <2>1, <2>2
<1>4. QED
  BY <1>1, <1>2, <1>3, TypeParts, HeldIsMade

\* The operation that the worker performs is the first of those waiting.
LEMMA FirstWaiting ==
  ASSUME WorkOK, inProgress.place = "perform"
  PROVE  1 \in DOMAIN Waiting /\ Waiting[1] = inProgress.op /\ inProgress.op \in Ops
<1>1. inProgress.op \in Ops /\ queue \in Seq(Ops)
  BY DEF WorkOK
<1>2. Waiting = <<inProgress.op>> \o queue
  BY DEF Waiting
<1>3. QED
  BY <1>1, <1>2

LEMMA FreeIs ==
  ASSUME NEW a \in Addresses, a = FirstFree
  PROVE  host[a] = None
BY NoneAssumption DEF FirstFree

LEMMA FreeIsNotHeld ==
  ASSUME OwnedOnce, NEW a \in Addresses, host[a] = None
  PROVE  ~ Held(a)
BY DEF OwnedOnce

-----------------------------------------------------------------------------
(* What a step does *)

LEMMA GoesMoves ==
  ASSUME CallsOK, NEW t \in Threads,
         NEW p \in {"run", "drain", "swap", "enqueue", "inline"}, NEW o \in Ops \cup {None},
         o = None <=> p \in {"run", "drain"}, p = "swap" => o.kind = "open",
         p \in {"enqueue", "inline"} => o.kind \notin {"open", "refill", "parameter"},
         Goes(t, p, o)
  PROVE  /\ CallsOK' /\ pc'[t] = p /\ call'[t] = o
         /\ \A u \in Threads \ {t} : pc'[u] = pc[u] /\ call'[u] = call[u]
BY DEF CallsOK, Goes

LEMMA GoesBack ==
  ASSUME CallsOK, NEW t \in Threads, NEW p \in {"run", "drain"}, Goes(t, p, None)
  PROVE  /\ CallsOK' /\ pc'[t] = p /\ call'[t] = None
         /\ \A u \in Threads \ {t} : pc'[u] = pc[u] /\ call'[u] = call[u]
BY GoesMoves

LEMMA HostMoves ==
  ASSUME HostOK, NEW a \in Addresses, NEW x \in HostGraphs \cup {None},
         host' = [host EXCEPT ![a] = x]
  PROVE  HostOK' /\ host'[a] = x /\ \A b \in Addresses \ {a} : host'[b] = host[b]
BY DEF HostOK

\* What a call makes of a thread's graph, on the host and for the guest.
LEMMA MakesMoves ==
  ASSUME TypeOK, OwnedOnce, NEW t \in Threads, graphOf[t] # None, NEW o,
         Fitting(o), Makes(t, o)
  PROVE  /\ HostOK' /\ host'[graphOf[t]] = After(host[graphOf[t]], o)
         /\ After(host[graphOf[t]], o) \in HostGraphs
         /\ \A b \in Addresses \ {graphOf[t]} : host'[b] = host[b]
         /\ want'[t] = After(want[t], o) /\ After(want[t], o) \in HostGraphs
         /\ \A u \in Threads \ {t} : want'[u] = want[u]
         /\ want' \in [Threads -> HostGraphs \cup {None}]
<1>1. graphOf[t] \in Addresses /\ host[graphOf[t]] \in HostGraphs /\ want[t] \in HostGraphs
  BY HandleMade
<1>2. After(host[graphOf[t]], o) \in HostGraphs /\ After(want[t], o) \in HostGraphs
  BY <1>1, AfterTyped
<1>3. host' = [host EXCEPT ![graphOf[t]] = After(host[graphOf[t]], o)]
  BY DEF Makes
<1>4. want' = [want EXCEPT ![t] = After(want[t], o)]
  BY DEF Makes, Wants
<1>5. HostOK /\ want \in [Threads -> HostGraphs \cup {None}]
  BY TypeParts DEF HandlesOK
<1>6. /\ HostOK' /\ host'[graphOf[t]] = After(host[graphOf[t]], o)
      /\ \A b \in Addresses \ {graphOf[t]} : host'[b] = host[b]
  BY <1>1, <1>2, <1>3, <1>5, HostMoves
<1>7. QED
  BY <1>2, <1>4, <1>5, <1>6

LEMMA WantsMoves ==
  ASSUME TypeOK, NEW t \in Threads, graphOf[t] # None, NEW o \in Ops, Wants(t, o)
  PROVE  /\ want'[t] = After(want[t], o) /\ want[t] \in HostGraphs
         /\ After(want[t], o) \in HostGraphs
         /\ \A u \in Threads \ {t} : want'[u] = want[u]
         /\ want' \in [Threads -> HostGraphs \cup {None}]
<1>1. want[t] \in HostGraphs /\ want \in [Threads -> HostGraphs \cup {None}]
  BY TypeParts DEF HandlesOK
<1>2. After(want[t], o) \in HostGraphs
  BY <1>1, OpsFit, AfterTyped
<1>3. want' = [want EXCEPT ![t] = After(want[t], o)]
  BY DEF Wants
<1>4. QED
  BY <1>1, <1>2, <1>3

LEMMA HandlesKept ==
  ASSUME TypeOK, UNCHANGED graphOf, topology' \in [Threads -> Topologies],
         want' \in [Threads -> HostGraphs \cup {None}],
         \A t \in Threads : want'[t] = want[t] \/ (want[t] # None /\ want'[t] # None)
  PROVE  HandlesOK'
BY TypeParts DEF HandlesOK

LEMMA MutedIs ==
  ASSUME CtxOK, NEW g \in Addresses, NEW m \in BOOLEAN
  PROVE  /\ Muted(g, m) \in [Callbacks -> Contexts \cup {None}]
         /\ \A c \in Callbacks :
              IF ctx[c] # None /\ ctx[c].owner = g
              THEN Muted(g, m)[c] # None /\ Muted(g, m)[c].owner = g /\ Muted(g, m)[c].muted = m
              ELSE Muted(g, m)[c] = ctx[c]
BY NoneAssumption DEF CtxOK, Contexts, Muted, Owned

LEMMA ReleasedIs ==
  ASSUME CtxOK, NEW g \in Addresses
  PROVE  /\ Released(g) \in [Callbacks -> Contexts \cup {None}]
         /\ \A c \in Callbacks :
              Released(g)[c] = IF ctx[c] # None /\ ctx[c].owner = g THEN None ELSE ctx[c]
BY DEF CtxOK, Released, Owned

LEMMA FreshTyped ==
  /\ Fresh \in HostGraphs /\ Fresh # None /\ ~ Fresh.running /\ Fresh.hooks = {} /\ Closed(Fresh)
  /\ ~ Fresh.open
<1>1. Fresh \in HostGraphs
  BY DEF Fresh, HostGraphs
<1>2. ~ Fresh.running /\ Fresh.hooks = {} /\ ~ Fresh.open /\ ~ Fresh.init /\ ~ Fresh.volume
  BY DEF Fresh
<1>3. QED
  BY <1>1, <1>2, NoneAssumption DEF Closed

LEMMA BuiltTyped ==
  ASSUME NEW s \in Shapes
  PROVE  /\ Built(s) \in HostGraphs /\ Built(s) # None
         /\ Built(s).nodes = s.nodes /\ Built(s).connections = s.connections
         /\ Built(s).open /\ ~ Built(s).init /\ ~ Built(s).running /\ ~ Built(s).volume
         /\ Built(s).hooks = {}
BY NoneAssumption DEF Built, Fresh, HostGraphs, Shapes

LEMMA TopologyMoves ==
  ASSUME TypeOK, NEW t \in Threads, NEW s \in Topologies, topology' = [topology EXCEPT ![t] = s]
  PROVE  /\ topology' \in [Threads -> Topologies] /\ topology'[t] = s
         /\ \A u \in Threads \ {t} : topology'[u] = topology[u]
BY TypeParts DEF HandlesOK

LEMMA BlankTyped ==
  /\ Blank \in Topologies /\ NotPoolable \in Topologies
  /\ ~ Blank.unpoolable /\ NotPoolable.unpoolable /\ Shape(Blank) = Shape(Fresh)
<1>1. Blank \in Topologies
  BY AudioGraphsAssumption DEF Blank, Topologies
<1>2. NotPoolable \in Topologies
  BY <1>1 DEF NotPoolable, Topologies
<1>3. NotPoolable \in Topologies /\ NotPoolable.unpoolable
  BY <1>1, <1>2 DEF NotPoolable, Topologies
<1>4. ~ Blank.unpoolable /\ Shape(Blank) = Shape(Fresh)
  BY DEF Blank, Shape, Fresh
<1>5. QED
  BY <1>1, <1>3, <1>4

-----------------------------------------------------------------------------
(* What waits after a step *)

LEMMA WaitingKept ==
  ASSUME UNCHANGED queue, inProgress'.place = "perform" <=> inProgress.place = "perform",
         inProgress.place = "perform" => inProgress'.op = inProgress.op
  PROVE  Waiting' = Waiting
BY DEF Waiting

LEMMA WorkKept ==
  ASSUME UNCHANGED work
  PROVE  Waiting' = Waiting
BY WaitingKept DEF work

LEMMA WaitingTaken ==
  ASSUME WorkOK, TakesOp
  PROVE  /\ Waiting' = Waiting
         /\ inProgress' = [place |-> "perform", op |-> Head(queue), shape |-> None, graph |-> None]
         /\ Head(queue) \in Ops /\ Head(queue).kind # "open" /\ Tail(queue) \in Seq(Ops)
         /\ \A i \in DOMAIN Tail(queue) : Tail(queue)[i].kind # "open"
<1>1. queue \in Seq(Ops) /\ queue # <<>> /\ \A i \in DOMAIN queue : queue[i].kind # "open"
  BY DEF WorkOK, TakesOp
<1>2. inProgress' = [place |-> "perform", op |-> Head(queue), shape |-> None, graph |-> None]
  BY DEF TakesOp, Idle
<1>3. Waiting = queue
  BY <1>1 DEF TakesOp, Waiting
<1>4. Waiting' = <<Head(queue)>> \o Tail(queue)
  BY <1>2 DEF TakesOp, Waiting
<1>5. <<Head(queue)>> \o Tail(queue) = queue
  BY <1>1
<1>6. Head(queue) = queue[1] /\ 1 \in DOMAIN queue
  BY <1>1
<1>7. Tail(queue) \in Seq(Ops) /\ \A i \in DOMAIN Tail(queue) :
                                    i + 1 \in DOMAIN queue /\ Tail(queue)[i] = queue[i + 1]
  BY <1>1
<1>8. QED
  BY <1>1, <1>2, <1>3, <1>4, <1>5, <1>6, <1>7

\* When the worker has performed its operation, the rest moves up.
Shifted ==
  /\ Waiting' = queue /\ Len(Waiting) = Len(Waiting') + 1 /\ Waiting[1] = inProgress.op
  /\ \A i \in 1 .. Len(Waiting') : Waiting'[i] = Waiting[i + 1]

LEMMA WaitingShifts ==
  ASSUME WorkOK, inProgress.place = "perform", UNCHANGED queue, inProgress'.place # "perform"
  PROVE  Shifted
<1>1. Waiting = <<inProgress.op>> \o queue /\ queue \in Seq(Ops) /\ inProgress.op \in Ops
  BY DEF Waiting, WorkOK
<1>2. Waiting' = <<>> \o queue
  BY DEF Waiting
<1>3. Waiting' = queue
  BY <1>1, <1>2
<1> DEFINE w == <<inProgress.op>> \o queue
<1>4. Len(w) = Len(queue) + 1 /\ w[1] = inProgress.op /\ \A i \in 1 .. Len(queue) : queue[i] = w[i + 1]
  BY <1>1
<1>5. QED
  BY <1>1, <1>3, <1>4, Zenon DEF Shifted

Grown(s) ==
  /\ Waiting' \in Seq(Ops) /\ Len(Waiting') = Len(Waiting) + Len(s)
  /\ \A i \in 1 .. Len(Waiting) : Waiting'[i] = Waiting[i]
  /\ \A i \in 1 .. Len(s) : Waiting'[Len(Waiting) + i] = s[i]

LEMMA WaitingGrows ==
  ASSUME WorkOK, UNCHANGED inProgress, NEW s \in Seq(Ops), queue' = queue \o s
  PROVE  Grown(s)
<1>1. PICK p : p = IF inProgress.place = "perform" THEN <<inProgress.op>> ELSE <<>>
  OBVIOUS
<1>2. queue \in Seq(Ops) /\ (inProgress.place = "perform" => inProgress.op \in Ops)
  BY DEF WorkOK
<1>3. p \in Seq(Ops)
  BY <1>1, <1>2
<1>4. Waiting = p \o queue /\ Waiting' = p \o (queue \o s)
  BY <1>1 DEF Waiting
<1>5. p \o (queue \o s) = (p \o queue) \o s
  BY <1>2, <1>3
<1> DEFINE w == p \o queue
           x == w \o s
<1>6. w \in Seq(Ops)
  BY <1>2, <1>3
<1>7. /\ x \in Seq(Ops) /\ Len(x) = Len(w) + Len(s)
      /\ \A i \in 1 .. Len(w) : x[i] = w[i]
      /\ \A i \in 1 .. Len(s) : x[Len(w) + i] = s[i]
  <2> HIDE DEF w
  <2>1. QED
    BY <1>6
<1>8. QED
  BY <1>4, <1>5, <1>7, Zenon DEF Grown

LEMMA WaitingAppends ==
  ASSUME WorkOK, UNCHANGED inProgress, NEW o \in Ops, queue' = Append(queue, o)
  PROVE  /\ Waiting' \in Seq(Ops) /\ Len(Waiting') = Len(Waiting) + 1
         /\ \A i \in 1 .. Len(Waiting) : Waiting'[i] = Waiting[i]
         /\ Waiting'[Len(Waiting) + 1] = o
<1>1. queue' = queue \o <<o>> /\ <<o>> \in Seq(Ops)
  BY DEF WorkOK
<1>2. Grown(<<o>>)
  BY <1>1, WaitingGrows
<1>3. QED
  BY <1>2 DEF Grown

LEMMA WorkStays ==
  ASSUME WorkOK, UNCHANGED inProgress, queue' \in Seq(Ops),
         \A i \in DOMAIN queue' : queue'[i].kind # "open"
  PROVE  WorkOK'
BY DEF WorkOK

-----------------------------------------------------------------------------
(* The ways in which a queued operation is performed *)

Carries(o) ==
  /\ o.kind # "dispose"
  /\ host' = [host EXCEPT ![o.graph] = After(@, o)] /\ UNCHANGED <<ctx, quarantined, want>>
Frees(o) ==
  /\ o.kind = "dispose"
  /\ host' = [host EXCEPT ![o.graph] = None] /\ ctx' = Released(o.graph)
  /\ UNCHANGED <<quarantined, want>>
Abandons(o) ==
  /\ o.kind \in Teardown
  /\ host' = [host EXCEPT ![o.graph] = Left(@, o.kind)]
  /\ ctx' = IF o.kind = "dispose" THEN Released(o.graph) ELSE ctx
  /\ quarantined' = quarantined \cup {o.graph}
  /\ UNCHANGED want
Refuses(o) ==
  /\ o.kind = "notify"
  /\ ctx' = [ctx EXCEPT ![o.arg] = None]
  /\ want' = [t \in Threads |-> IF graphOf[t] = o.graph THEN Without(want[t], o.arg) ELSE want[t]]
  /\ UNCHANGED <<host, quarantined>>
Does(o) == Carries(o) \/ Frees(o) \/ Abandons(o) \/ Refuses(o)

LEMMA PerformsDoes ==
  ASSUME NEW o, Performs(o)
  PROVE  Does(o)
<1>1. CASE o.kind \in Teardown /\ TearsDown(o) /\ UNCHANGED want
  BY <1>1, Zenon DEF TearsDown, DetachFails, Does, Carries, Frees, Abandons
<1>2. CASE /\ o.kind \notin Teardown /\ host' = [host EXCEPT ![o.graph] = After(@, o)]
           /\ UNCHANGED <<ctx, quarantined, want>>
  BY <1>2, Zenon DEF Does, Carries, Teardown
<1>3. CASE /\ o.kind = "notify" /\ ctx' = [ctx EXCEPT ![o.arg] = None]
           /\ want' = [t \in Threads |-> IF graphOf[t] = o.graph
                                        THEN [want[t] EXCEPT !.hooks = @ \ {o.arg}] ELSE want[t]]
           /\ UNCHANGED <<host, quarantined>>
  BY <1>3, Zenon DEF Does, Refuses, Without
<1>4. QED
  BY <1>1, <1>2, <1>3, Zenon DEF Performs

LEMMA InlineDoes ==
  ASSUME NEW t \in Threads, PerformsInline(t)
  PROVE  Does(call[t])
<1>1. CASE mode = "quarantine" /\ call[t].kind \in Teardown
  BY <1>1, Zenon DEF PerformsInline, Does, Abandons
<1>2. CASE ~ (mode = "quarantine" /\ call[t].kind \in Teardown)
  BY <1>2, PerformsDoes, Zenon DEF PerformsInline
<1>3. QED
  BY <1>1, <1>2

LEMMA CarriesMoves ==
  ASSUME HostOK, NEW o \in Ops, o.graph \in Addresses, host[o.graph] \in HostGraphs, Carries(o)
  PROVE  /\ HostOK' /\ host'[o.graph] = After(host[o.graph], o) /\ host'[o.graph] \in HostGraphs
         /\ \A b \in Addresses \ {o.graph} : host'[b] = host[b]
<1>1. After(host[o.graph], o) \in HostGraphs
  BY OpsFit, AfterTyped
<1>2. host' = [host EXCEPT ![o.graph] = After(host[o.graph], o)]
  BY DEF Carries
<1>3. QED
  BY <1>1, <1>2, HostMoves

LEMMA FreesMoves ==
  ASSUME HostOK, CtxOK, NEW o \in Ops, o.graph \in Addresses, Frees(o)
  PROVE  /\ HostOK' /\ CtxOK' /\ host'[o.graph] = None
         /\ \A b \in Addresses \ {o.graph} : host'[b] = host[b]
         /\ \A c \in Callbacks :
              ctx'[c] = IF ctx[c] # None /\ ctx[c].owner = o.graph THEN None ELSE ctx[c]
<1>1. host' = [host EXCEPT ![o.graph] = None]
  BY DEF Frees
<1>2. QED
  BY ZenonT(60), <1>1, HostMoves, ReleasedIs DEF Frees, CtxOK

LEMMA AbandonsMoves ==
  ASSUME HostOK, CtxOK, NEW o \in Ops, o.graph \in Addresses, host[o.graph] \in HostGraphs,
         Abandons(o)
  PROVE  /\ HostOK' /\ CtxOK' /\ host'[o.graph] \in HostGraphs
         /\ host'[o.graph].hooks \subseteq host[o.graph].hooks /\ ~ host'[o.graph].running
         /\ o.kind = "dispose" => host'[o.graph].hooks = {}
         /\ \A b \in Addresses \ {o.graph} : host'[b] = host[b]
         /\ o.kind # "dispose" => ctx' = ctx
         /\ o.kind = "dispose" => \A c \in Callbacks :
              ctx'[c] = IF ctx[c] # None /\ ctx[c].owner = o.graph THEN None ELSE ctx[c]
<1>1. PICK x : x = Left(host[o.graph], o.kind)
  OBVIOUS
<1>2. /\ x \in HostGraphs /\ x.hooks \subseteq host[o.graph].hooks /\ ~ x.running
      /\ o.kind = "dispose" => x.hooks = {}
  <2>1. CASE o.kind = "dispose"
    BY <1>1, <2>1, FreshTyped DEF Left
  <2>2. CASE o.kind # "dispose"
    <3>1. x = [host[o.graph] EXCEPT !.running = FALSE]
      BY <1>1, <2>2 DEF Left
    <3>2. QED
      BY <2>2, <3>1 DEF HostGraphs
  <2>3. QED
    BY <2>1, <2>2
<1>3. host' = [host EXCEPT ![o.graph] = x]
  BY <1>1 DEF Abandons
<1>4. HostOK' /\ host'[o.graph] = x /\ \A b \in Addresses \ {o.graph} : host'[b] = host[b]
  BY <1>2, <1>3, HostMoves
<1>5. CASE o.kind = "dispose"
  BY <1>2, <1>4, <1>5, ReleasedIs DEF Abandons, CtxOK
<1>6. CASE o.kind # "dispose"
  BY <1>2, <1>4, <1>6 DEF Abandons, CtxOK
<1>7. QED
  BY <1>5, <1>6

LEMMA RefusesMoves ==
  ASSUME CtxOK, HandlesOK, NEW o \in Ops, Refuses(o)
  PROVE  /\ CtxOK' /\ o.arg \in Callbacks /\ o.graph # None /\ ctx'[o.arg] = None
         /\ \A c \in Callbacks \ {o.arg} : ctx'[c] = ctx[c]
         /\ want' \in [Threads -> HostGraphs \cup {None}]
         /\ \A t \in Threads : IF graphOf[t] = o.graph
                               THEN /\ want[t] \in HostGraphs /\ want'[t] = Without(want[t], o.arg)
                                    /\ want'[t] \in HostGraphs
                               ELSE want'[t] = want[t]
<1>1. o.arg \in Callbacks /\ o.graph # None
  BY OpGraph DEF Refuses
<1>2. \A t \in Threads : graphOf[t] = o.graph => want[t] \in HostGraphs
  BY <1>1 DEF HandlesOK
<1>3. \A t \in Threads : graphOf[t] = o.graph => Without(want[t], o.arg) \in HostGraphs
  BY <1>2, WithoutIs
<1>4. \A t \in Threads : want'[t] = IF graphOf[t] = o.graph THEN Without(want[t], o.arg) ELSE want[t]
  BY DEF Refuses
<1>5. want' \in [Threads -> HostGraphs \cup {None}]
  BY <1>3, <1>4 DEF Refuses, HandlesOK
<1>6. CtxOK' /\ ctx'[o.arg] = None /\ \A c \in Callbacks \ {o.arg} : ctx'[c] = ctx[c]
  BY <1>1 DEF CtxOK, Refuses
<1>7. QED
  BY <1>1, <1>2, <1>3, <1>4, <1>5, <1>6

LEMMA DoesTyped ==
  ASSUME TypeOK, NEW o \in Ops, o.graph \in Addresses, host[o.graph] \in HostGraphs, Does(o),
         UNCHANGED <<mode, graphOf, topology>>
  PROVE  mode' \in Modes /\ HostOK' /\ CtxOK' /\ quarantined' \subseteq Addresses /\ HandlesOK'
<1>0. /\ mode \in Modes /\ HostOK /\ CtxOK /\ quarantined \subseteq Addresses /\ HandlesOK
      /\ None \notin HostGraphs
  BY TypeParts, NoneAssumption
<1>1. CASE Carries(o)
  BY <1>0, <1>1, CarriesMoves DEF Carries, HandlesOK, CtxOK
<1>2. CASE Frees(o)
  BY <1>0, <1>2, FreesMoves DEF Frees, HandlesOK
<1>3. CASE Abandons(o)
  BY <1>0, <1>3, AbandonsMoves DEF Abandons, HandlesOK
<1>4. CASE Refuses(o)
  <2>1. HandlesOK'
    BY <1>0, <1>4, RefusesMoves DEF HandlesOK
  <2>2. QED
    BY <1>0, <1>4, <2>1, RefusesMoves DEF Refuses, HostOK
<1>5. QED
  BY <1>1, <1>2, <1>3, <1>4 DEF Does

-----------------------------------------------------------------------------
(* Type correctness *)

LEMMA InitTyped == Init => TypeOK
<1> SUFFICES ASSUME Init PROVE TypeOK
  OBVIOUS
<1>1. mode \in Modes /\ HostOK /\ CtxOK /\ quarantined \subseteq Addresses
  BY DEF Init, HostOK, CtxOK
<1>2. HandlesOK
  BY BlankTyped DEF Init, HandlesOK
<1>3. WorkOK
  BY DEF Init, Idle, WorkOK
<1>4. CallsOK
  BY DEF Init, CallsOK
<1>5. PoolOK
  BY AudioGraphsAssumption DEF Init, PoolOK
<1>6. QED
  BY <1>1, <1>2, <1>3, <1>4, <1>5, TypeParts

LEMMA TypeKept ==
  ASSUME TypeOK
  PROVE  /\ UNCHANGED mode => mode' \in Modes
         /\ UNCHANGED host => HostOK'
         /\ UNCHANGED ctx => CtxOK'
         /\ UNCHANGED quarantined => quarantined' \subseteq Addresses
         /\ UNCHANGED <<graphOf, topology, want>> => HandlesOK'
         /\ UNCHANGED <<queue, inProgress>> => WorkOK'
         /\ UNCHANGED <<pc, call>> => CallsOK'
         /\ UNCHANGED <<template, pool, pending>> => PoolOK'
BY TypeParts DEF HostOK, CtxOK, HandlesOK, WorkOK, CallsOK, PoolOK

LEMMA TakesOpTyped ==
  ASSUME TypeOK, TakesOp
  PROVE  TypeOK'
<1>1. WorkOK'
  <2>1. WorkOK
    BY TypeParts
  <2>2. /\ inProgress' = [place |-> "perform", op |-> Head(queue), shape |-> None, graph |-> None]
        /\ Head(queue) \in Ops /\ Head(queue).kind # "open" /\ queue' \in Seq(Ops)
        /\ \A i \in DOMAIN queue' : queue'[i].kind # "open"
    BY <2>1, WaitingTaken DEF TakesOp
  <2>3. Head(queue) # None
    BY <2>2, OpGraph
  <2>4. QED
    BY <2>2, <2>3 DEF WorkOK
<1>2. QED
  BY <1>1, TypeKept, TypePartsNext DEF TakesOp, guest, pools, history

LEMMA PerformedOp ==
  ASSUME TypeOK, OwnedOnce, OpsOwned, PerformsOp
  PROVE  /\ inProgress.op \in Ops /\ inProgress.op.graph \in Addresses
         /\ host[inProgress.op.graph] \in HostGraphs /\ inProgress.op = Waiting[1]
         /\ 1 \in DOMAIN Waiting /\ Does(inProgress.op) /\ inProgress.op.kind # "open"
<1>1. WorkOK /\ inProgress.place = "perform" /\ inProgress.op.kind # "refill"
  BY TypeParts DEF PerformsOp
<1>2. 1 \in DOMAIN Waiting /\ Waiting[1] = inProgress.op
  BY <1>1, FirstWaiting
<1>3. Does(inProgress.op)
  BY PerformsDoes DEF PerformsOp
<1>4. inProgress.op.kind # "open"
  BY <1>1, <1>2, WaitingTyped
<1>5. QED
  BY <1>1, <1>2, <1>3, <1>4, WaitingMade

LEMMA PerformsOpTyped ==
  ASSUME TypeOK, OwnedOnce, OpsOwned, PerformsOp
  PROVE  TypeOK'
<1>1. mode' \in Modes /\ HostOK' /\ CtxOK' /\ quarantined' \subseteq Addresses /\ HandlesOK'
  BY PerformedOp, DoesTyped DEF PerformsOp, guest
<1>2. WorkOK'
  BY TypeParts DEF PerformsOp, WorkOK
<1>3. QED
  BY <1>1, <1>2, TypeKept, TypePartsNext DEF PerformsOp, guest, pools

LEMMA OpDoneTyped ==
  ASSUME TypeOK, OpDone
  PROVE  TypeOK'
<1>1. WorkOK'
  BY TypeParts DEF OpDone, FinishesOp, Idle, WorkOK
<1>2. QED
  BY <1>1, TypeKept, TypePartsNext DEF OpDone, guest, pools, history

LEMMA RefillReadsMoves ==
  ASSUME TypeOK, RefillReads
  PROVE  WorkOK' /\ inProgress'.place = "build" /\ inProgress'.shape = template.shape
         /\ inProgress'.op = inProgress.op /\ inProgress'.graph = None
<1>1. template.shape \in Shapes \cup {None}
  BY TypeParts DEF PoolOK
<1>2. QED
  BY <1>1, TypeParts DEF RefillReads, WorkOK

LEMMA RefillReadsTyped ==
  ASSUME TypeOK, RefillReads
  PROVE  TypeOK'
BY RefillReadsMoves, TypeKept, TypePartsNext DEF RefillReads, guest, pools, history

LEMMA RefillBuildsMoves ==
  ASSUME TypeOK, RefillBuilds
  PROVE  /\ WorkOK' /\ HostOK' /\ inProgress'.place = "store" /\ inProgress'.op = inProgress.op
         /\ inProgress'.shape = inProgress.shape /\ inProgress.graph = None
         /\ \/ /\ inProgress'.graph \in Addresses /\ host[inProgress'.graph] = None
               /\ inProgress.shape \in Shapes
               /\ host'[inProgress'.graph] = Built(inProgress.shape)
               /\ \A b \in Addresses \ {inProgress'.graph} : host'[b] = host[b]
            \/ inProgress'.graph = None /\ host' = host
<1>1. WorkOK /\ HostOK /\ inProgress.graph = None
  BY TypeParts DEF RefillBuilds, WorkOK
<1>2. CASE \E a \in Addresses :
             /\ a = FirstFree /\ inProgress.shape # None
             /\ host' = [host EXCEPT ![a] = Built(inProgress.shape)]
             /\ inProgress' = [inProgress EXCEPT !.place = "store", !.graph = a]
  <2>1. PICK a \in Addresses : /\ a = FirstFree /\ inProgress.shape # None
                               /\ host' = [host EXCEPT ![a] = Built(inProgress.shape)]
                               /\ inProgress' = [inProgress EXCEPT !.place = "store", !.graph = a]
    BY <1>2
  <2>2. inProgress.shape \in Shapes /\ host[a] = None
    BY <1>1, <2>1, FreeIs DEF WorkOK
  <2>3. Built(inProgress.shape) \in HostGraphs
    BY <2>2, BuiltTyped
  <2>4. HostOK' /\ host'[a] = Built(inProgress.shape) /\ \A b \in Addresses \ {a} : host'[b] = host[b]
    BY ZenonT(60), <1>1, <2>1, <2>3, HostMoves
  <2>5. WorkOK' /\ inProgress'.place = "store" /\ inProgress'.op = inProgress.op
        /\ inProgress'.shape = inProgress.shape /\ inProgress'.graph = a
    BY <1>1, <2>1 DEF RefillBuilds, WorkOK
  <2>6. QED
    BY <1>1, <2>2, <2>4, <2>5
<1>3. CASE inProgress' = [inProgress EXCEPT !.place = "store"] /\ UNCHANGED host
  <2>1. WorkOK' /\ inProgress'.place = "store" /\ inProgress'.op = inProgress.op
        /\ inProgress'.shape = inProgress.shape /\ inProgress'.graph = None
    BY <1>1, <1>3 DEF RefillBuilds, WorkOK
  <2>2. QED
    BY <1>1, <1>3, <2>1 DEF HostOK
<1>4. QED
  BY <1>2, <1>3 DEF RefillBuilds

LEMMA RefillBuildsTyped ==
  ASSUME TypeOK, RefillBuilds
  PROVE  TypeOK'
BY RefillBuildsMoves, TypeKept, TypePartsNext DEF RefillBuilds, guest, pools, history

LEMMA RefillStoresMoves ==
  ASSUME TypeOK, RefillStores
  PROVE  /\ WorkOK' /\ HostOK' /\ PoolOK' /\ inProgress'.place = "done" /\ inProgress'.op = inProgress.op
         /\ inProgress'.graph = None
         /\ \/ /\ StillFits /\ inProgress.graph \in Addresses /\ host' = host
               /\ pool' = Append(pool, inProgress.graph)
               /\ Len(pool') + pending' <= Target \/ Len(pool') + pending' <= Len(pool) + pending
            \/ /\ ~ StillFits /\ pool' = pool /\ pending' <= pending
               /\ \A b \in Addresses : host'[b] = IF b = inProgress.graph THEN None ELSE host[b]
<1>1. WorkOK /\ HostOK /\ PoolOK
  BY TypeParts
<1>2. WorkOK' /\ inProgress'.place = "done" /\ inProgress'.op = inProgress.op
      /\ inProgress'.graph = None
  BY <1>1 DEF RefillStores, WorkOK
<1>3. pending \in Nat /\ pending <= Target /\ Target \in Nat
  BY <1>1, AudioGraphsAssumption DEF PoolOK
<1>4. pending' = IF pending - 1 > 0 THEN pending - 1 ELSE 0
  <2>1. pending - 1 \in Int /\ pending' = Max({0, pending - 1})
    BY <1>3 DEF RefillStores
  <2>2. QED
    BY <2>1, MaxIs
<1>5. pending' \in 0 .. Target /\ pending' <= pending
  BY <1>3, <1>4
<1>6. CASE StillFits /\ pool' = Append(pool, inProgress.graph) /\ UNCHANGED host
  <2>1. inProgress.graph \in Addresses
    BY <1>1, <1>6 DEF StillFits, WorkOK
  <2>2. Len(pool) < Target /\ pool \in Seq(Addresses)
    BY <1>1, <1>6 DEF StillFits, PoolOK
  <2>3. pool' \in Seq(Addresses) /\ Len(pool') = Len(pool) + 1
    BY <1>6, <2>1, <2>2
  <2>4. PoolOK'
    BY <1>1, <1>3, <1>5, <2>2, <2>3 DEF RefillStores, PoolOK
  <2>5. Len(pool') + pending' <= Target \/ Len(pool') + pending' <= Len(pool) + pending
    BY <1>3, <1>4, <2>2, <2>3
  <2>6. QED
    BY <1>1, <1>2, <1>6, <2>1, <2>4, <2>5 DEF HostOK
<1>7. CASE /\ ~ StillFits /\ UNCHANGED pool
           /\ host' = [a \in Addresses |-> IF a = inProgress.graph THEN None ELSE host[a]]
  <2>1. HostOK'
    BY <1>1, <1>7 DEF HostOK
  <2>2. PoolOK'
    BY <1>1, <1>5, <1>7 DEF RefillStores, PoolOK
  <2>3. QED
    BY <1>2, <1>5, <1>7, <2>1, <2>2
<1>8. QED
  BY <1>6, <1>7 DEF RefillStores

LEMMA RefillStoresTyped ==
  ASSUME TypeOK, RefillStores
  PROVE  TypeOK'
BY RefillStoresMoves, TypeKept, TypePartsNext DEF RefillStores, guest, history

LEMMA NewAUGraphMoves ==
  ASSUME TypeOK, NEW t \in Threads, NewAUGraph(t)
  PROVE  /\ HostOK' /\ HandlesOK' /\ pc[t] = "run" /\ graphOf[t] = None
         /\ graphOf'[t] \in Addresses /\ host[graphOf'[t]] = None /\ host'[graphOf'[t]] = Fresh
         /\ \A b \in Addresses \ {graphOf'[t]} : host'[b] = host[b]
         /\ want'[t] = Fresh /\ topology'[t] = Blank
         /\ \A u \in Threads \ {t} : graphOf'[u] = graphOf[u] /\ want'[u] = want[u]
                                     /\ topology'[u] = topology[u]
<1>1. HostOK /\ HandlesOK
  BY TypeParts
<1>2. PICK a \in Addresses : /\ a = FirstFree /\ host' = [host EXCEPT ![a] = Fresh]
                             /\ graphOf' = [graphOf EXCEPT ![t] = a]
  BY DEF NewAUGraph
<1>3. host[a] = None
  BY <1>2, FreeIs
<1>4. HostOK' /\ host'[a] = Fresh /\ \A b \in Addresses \ {a} : host'[b] = host[b]
  BY <1>1, <1>2, FreshTyped, HostMoves
<1>5. /\ graphOf'[t] = a /\ want'[t] = Fresh /\ topology'[t] = Blank
      /\ \A u \in Threads \ {t} : graphOf'[u] = graphOf[u] /\ want'[u] = want[u]
                                  /\ topology'[u] = topology[u]
  BY <1>1, <1>2 DEF NewAUGraph, HandlesOK
<1>6. HandlesOK'
  <2>1. graphOf' \in [Threads -> Addresses \cup {None}]
    BY <1>1, <1>2 DEF HandlesOK
  <2>2. topology' \in [Threads -> Topologies] /\ want' \in [Threads -> HostGraphs \cup {None}]
    BY <1>1, FreshTyped, BlankTyped DEF NewAUGraph, HandlesOK
  <2>3. \A u \in Threads : graphOf'[u] = None <=> want'[u] = None
    BY <1>1, <1>5, FreshTyped, NoneAssumption DEF HandlesOK
  <2>4. QED
    BY <2>1, <2>2, <2>3 DEF HandlesOK
<1>7. QED
  BY <1>3, <1>4, <1>5, <1>6 DEF NewAUGraph, Begins

LEMMA NewAUGraphTyped ==
  ASSUME TypeOK, NEW t \in Threads, NewAUGraph(t)
  PROVE  TypeOK'
BY NewAUGraphMoves, TypeKept, TypePartsNext DEF NewAUGraph, pools, work

LEMMA SynchronizesTyped ==
  ASSUME TypeOK, NEW t \in Threads, Synchronizes(t)
  PROVE  TypeOK'
<1>1. CallsOK'
  BY TypeParts, GoesBack DEF Synchronizes
<1>2. QED
  BY <1>1, TypeKept, TypePartsNext DEF Synchronizes, pools, work, history

LEMMA AnswersTyped ==
  ASSUME TypeOK, NEW t \in Threads, Answers(t)
  PROVE  TypeOK'
<1>1. CallsOK'
  BY TypeParts, GoesBack DEF Answers
<1>2. QED
  BY <1>1, TypeKept, TypePartsNext DEF Answers, pools, work, history

\* A thread that has drained its queue has a graph, on which nothing waits.
LEMMA DrainedHas ==
  ASSUME TypeOK, OwnedOnce, OpsOwned, NEW t \in Threads, Drained(t)
  PROVE  /\ pc[t] = "drain" /\ graphOf[t] # None /\ graphOf[t] \in Addresses
         /\ host[graphOf[t]] \in HostGraphs /\ want[t] \in HostGraphs
         /\ \A i \in 1 .. Len(Waiting) : Waiting[i].graph # graphOf[t]
<1>1. pc[t] = "drain" /\ graphOf[t] # None
  BY DEF Drained, OpsOwned
<1>2. ASSUME NEW i \in 1 .. Len(Waiting) PROVE Waiting[i].graph # graphOf[t]
  <2>1. WorkOK
    BY TypeParts
  <2>2. CASE inProgress.place = "perform"
    <3>1. Waiting = <<inProgress.op>> \o queue /\ queue \in Seq(Ops) /\ inProgress.op # None
      BY <2>1, <2>2 DEF Waiting, WorkOK
    <3>2. CASE i = 1
      BY <2>2, <3>1, <3>2 DEF Drained, HasWork, IsOf
    <3>3. CASE i # 1
      <4>1. i - 1 \in DOMAIN queue /\ Waiting[i] = queue[i - 1]
        BY <3>1, <3>3
      <4>2. QED
        BY <4>1 DEF Drained, HasWork, IsOf
    <3>4. QED
      BY <3>2, <3>3
  <2>3. CASE inProgress.place # "perform"
    <3>1. Waiting = queue /\ queue \in Seq(Ops)
      BY <2>1, <2>3 DEF Waiting, WorkOK
    <3>2. QED
      BY <3>1 DEF Drained, HasWork, IsOf
  <2>4. QED
    BY <2>2, <2>3
<1>3. QED
  BY <1>1, <1>2, HandleMade

LEMMA RecordedIs ==
  ASSUME NEW s \in Topologies, NEW o,
         \/ o.kind = "nodes" /\ o.arg \in Nodes
         \/ o.kind = "connections" /\ o.arg \in Connections
  PROVE  /\ Recorded(s, o) \in Topologies
         /\ \/ Recorded(s, o) = NotPoolable
            \/ /\ ~ s.unpoolable /\ ~ Recorded(s, o).unpoolable
               /\ o.kind = "nodes" => /\ Recorded(s, o).nodes = Append(s.nodes, o.arg)
                                      /\ Recorded(s, o).connections = s.connections
               /\ o.kind = "connections" =>
                    /\ Recorded(s, o).nodes = s.nodes
                    /\ Recorded(s, o).connections = Append(s.connections, o.arg)
<1>1. Capacity \in Nat /\ s.nodes \in Seq(Nodes) /\ s.connections \in Seq(Connections)
  BY AudioGraphsAssumption DEF Topologies
<1>2. CASE s.unpoolable \/ Len(s[o.kind]) >= Capacity
  BY <1>2, BlankTyped, Zenon DEF Recorded
<1>3. CASE ~ (s.unpoolable \/ Len(s[o.kind]) >= Capacity) /\ o.kind = "nodes"
  <2>1. Len(s.nodes) < Capacity /\ o.arg \in Nodes
    BY <1>1, <1>3
  <2>2. Append(s.nodes, o.arg) \in Seq(Nodes) /\ Len(Append(s.nodes, o.arg)) <= Capacity
    BY <1>1, <2>1
  <2>3. Recorded(s, o) = [s EXCEPT !.nodes = Append(s.nodes, o.arg)]
    BY <1>3, Zenon DEF Recorded
  <2>4. QED
    BY <1>1, <1>3, <2>2, <2>3 DEF Topologies
<1>4. CASE ~ (s.unpoolable \/ Len(s[o.kind]) >= Capacity) /\ o.kind = "connections"
  <2>1. Len(s.connections) < Capacity /\ o.arg \in Connections
    BY <1>1, <1>4
  <2>2. /\ Append(s.connections, o.arg) \in Seq(Connections)
        /\ Len(Append(s.connections, o.arg)) <= Capacity
    BY <1>1, <2>1
  <2>3. Recorded(s, o) = [s EXCEPT !.connections = Append(s.connections, o.arg)]
    BY <1>4, Zenon DEF Recorded
  <2>4. QED
    BY <1>1, <1>4, <2>2, <2>3 DEF Topologies
<1>5. QED
  BY <1>2, <1>3, <1>4

LEMMA RecordsMoves ==
  ASSUME TypeOK, NEW t \in Threads, NEW o, Records(t, o),
         \/ o.kind = "nodes" /\ o.arg \in Nodes
         \/ o.kind = "connections" /\ o.arg \in Connections
  PROVE  /\ topology' \in [Threads -> Topologies] /\ topology'[t] = Recorded(topology[t], o)
         /\ \A u \in Threads \ {t} : topology'[u] = topology[u]
<1>1. topology[t] \in Topologies
  BY TypeParts DEF HandlesOK
<1>2. Recorded(topology[t], o) \in Topologies
  BY <1>1, RecordedIs
<1>3. QED
  BY <1>2, TopologyMoves DEF Records

LEMMA UnpoolableMoves ==
  ASSUME TypeOK, NEW t \in Threads, Unpoolable(t)
  PROVE  /\ topology' \in [Threads -> Topologies] /\ topology'[t] = NotPoolable
         /\ \A u \in Threads \ {t} : topology'[u] = topology[u]
BY TopologyMoves, BlankTyped DEF Unpoolable

\* What a call that builds the graph does: one part added or taken away, or nothing.
Adds(t, o) ==
  /\ Fitting(o) /\ Makes(t, o)
  /\ o.kind \in {"nodes", "connections", "disconnect", "open"}

LEMMA BuildsMoves ==
  ASSUME TypeOK, OwnedOnce, OpsOwned, NEW t \in Threads, Builds(t)
  PROVE  /\ Drained(t) /\ Goes(t, "run", None) /\ ~ want[t].open
         /\ \/ \E o : Adds(t, o) /\ Records(t, o) /\ o.kind \in {"nodes", "connections"}
            \/ Unpoolable(t) /\ UNCHANGED <<host, want>>
<1>1. PICK o \in {Op("nodes", graphOf[t], n) : n \in Nodes}
                 \cup {Op("connections", graphOf[t], c) :
                         c \in IF want[t].nodes = <<>> THEN {} ELSE Connections} :
           \/ Makes(t, o) /\ Records(t, o)
           \/ Unpoolable(t) /\ UNCHANGED <<host, want>>
  BY Zenon DEF Builds
<1>2. \/ o.kind = "nodes" /\ o.arg \in Nodes
      \/ o.kind = "connections" /\ o.arg \in Connections
  <2>1. CASE o \in {Op("nodes", graphOf[t], n) : n \in Nodes}
    BY <2>1, OpIs
  <2>2. CASE o \in {Op("connections", graphOf[t], c) :
                      c \in IF want[t].nodes = <<>> THEN {} ELSE Connections}
    <3>1. PICK c \in Connections : o = Op("connections", graphOf[t], c)
      BY <2>2, Zenon
    <3>2. QED
      BY <3>1, OpIs
  <2>3. QED
    BY <1>1, <2>1, <2>2
<1>3. Fitting(o)
  BY <1>2 DEF Fitting
<1>4. QED
  BY <1>1, <1>2, <1>3, Zenon DEF Builds, Adds

\* A call at a drained queue leaves the work and the pool alone, or lets both grow.
LEMMA AddsTyped ==
  ASSUME TypeOK, OwnedOnce, NEW t \in Threads, graphOf[t] # None, NEW o, Adds(t, o),
         Goes(t, "run", None), UNCHANGED <<mode, ctx, graphOf, quarantined>>,
         topology' \in [Threads -> Topologies], WorkOK', PoolOK'
  PROVE  TypeOK'
<1>1. /\ HostOK' /\ want'[t] \in HostGraphs /\ want' \in [Threads -> HostGraphs \cup {None}]
      /\ \A u \in Threads \ {t} : want'[u] = want[u]
  BY MakesMoves DEF Adds
<1>2. want[t] # None /\ want'[t] # None
  BY <1>1, NoneAssumption, TypeParts DEF HandlesOK
<1>3. HandlesOK'
  BY <1>1, <1>2, HandlesKept
<1>4. CallsOK'
  BY TypeParts, GoesBack
<1>5. QED
  BY <1>1, <1>3, <1>4, TypeKept, TypePartsNext

LEMMA BuildsTyped ==
  ASSUME TypeOK, OwnedOnce, OpsOwned, NEW t \in Threads, Builds(t)
  PROVE  TypeOK'
<1>1. /\ UNCHANGED <<mode, ctx, graphOf, queue, inProgress, template, pool, pending, quarantined>>
      /\ graphOf[t] # None /\ Goes(t, "run", None)
  BY DrainedHas, BuildsMoves DEF Builds, pools, work
<1>2. CASE \E o : Adds(t, o) /\ Records(t, o) /\ o.kind \in {"nodes", "connections"}
  <2>1. PICK o : Adds(t, o) /\ Records(t, o) /\ o.kind \in {"nodes", "connections"}
    BY <1>2
  <2>2. \/ o.kind = "nodes" /\ o.arg \in Nodes
        \/ o.kind = "connections" /\ o.arg \in Connections
    BY <2>1 DEF Adds, Fitting
  <2>3. QED
    BY <1>1, <2>1, <2>2, RecordsMoves, TypeKept, AddsTyped
<1>3. CASE Unpoolable(t) /\ UNCHANGED <<host, want>>
  <2>1. HandlesOK'
    BY <1>1, <1>3, UnpoolableMoves, TypeParts DEF HandlesOK
  <2>2. CallsOK'
    BY <1>1, TypeParts, GoesBack
  <2>3. QED
    BY <1>1, <1>3, <2>1, <2>2, TypeKept, TypePartsNext
<1>4. QED
  BY <1>2, <1>3, BuildsMoves

LEMMA DisconnectsMoves ==
  ASSUME NEW t \in Threads, Disconnects(t)
  PROVE  /\ Drained(t) /\ Goes(t, "run", None) /\ Unpoolable(t)
         /\ Adds(t, Op("disconnect", graphOf[t], None))
BY OpIs DEF Disconnects, Adds, Fitting

LEMMA DisconnectsTyped ==
  ASSUME TypeOK, OwnedOnce, OpsOwned, NEW t \in Threads, Disconnects(t)
  PROVE  TypeOK'
<1>1. UNCHANGED <<mode, ctx, graphOf, queue, inProgress, template, pool, pending, quarantined>>
  BY DEF Disconnects, pools, work
<1>2. graphOf[t] # None
  BY DisconnectsMoves, DrainedHas
<1>3. QED
  BY <1>1, <1>2, DisconnectsMoves, UnpoolableMoves, TypeKept, AddsTyped

\* A callback is given to the host at once.
Gives(t, c) ==
  /\ c \in Callbacks /\ ctx[c] = None
  /\ ctx' = [ctx EXCEPT ![c] = [owner |-> graphOf[t], muted |-> FALSE]]

LEMMA GivesMoves ==
  ASSUME CtxOK, NEW t \in Threads, graphOf[t] \in Addresses, NEW c, Gives(t, c)
  PROVE  /\ CtxOK' /\ c \in Callbacks /\ ctx[c] = None /\ ctx'[c] # None
         /\ ctx'[c].owner = graphOf[t] /\ ~ ctx'[c].muted
         /\ \A d \in Callbacks \ {c} : ctx'[d] = ctx[d]
<1>1. PICK x : x = [owner |-> graphOf[t], muted |-> FALSE]
  OBVIOUS
<1>5. x \in Contexts
  BY <1>1 DEF Contexts
<1>2. x \in Contexts /\ x # None /\ x.owner = graphOf[t] /\ ~ x.muted
  BY <1>1, <1>5, NoneAssumption
<1>3. ctx' = [ctx EXCEPT ![c] = x]
  BY <1>1 DEF Gives
<1>4. QED
  BY <1>2, <1>3 DEF CtxOK, Gives

LEMMA SetsInputMoves ==
  ASSUME NEW t \in Threads, SetsInput(t)
  PROVE  /\ Drained(t) /\ Goes(t, "run", None) /\ Unpoolable(t)
         /\ \/ \E c \in Callbacks : Gives(t, c) /\ Makes(t, Op("input", graphOf[t], c))
            \/ UNCHANGED <<host, want, ctx>>
BY Zenon DEF SetsInput, Gives

LEMMA SetsInputTyped ==
  ASSUME TypeOK, OwnedOnce, OpsOwned, NEW t \in Threads, SetsInput(t)
  PROVE  TypeOK'
<1>1. UNCHANGED <<mode, graphOf, queue, inProgress, template, pool, pending, quarantined>>
  BY DEF SetsInput, pools, work
<1>2. graphOf[t] # None /\ graphOf[t] \in Addresses
  BY SetsInputMoves, DrainedHas
<1>3. CallsOK'
  BY SetsInputMoves, TypeParts, GoesBack
<1>4. topology' \in [Threads -> Topologies]
  BY SetsInputMoves, UnpoolableMoves
<1>5. CASE \E c \in Callbacks : Gives(t, c) /\ Makes(t, Op("input", graphOf[t], c))
  <2>1. PICK c \in Callbacks : Gives(t, c) /\ Makes(t, Op("input", graphOf[t], c))
    BY <1>5
  <2>2. Fitting(Op("input", graphOf[t], c))
    BY OpIs DEF Fitting
  <2>3. /\ HostOK' /\ want'[t] \in HostGraphs /\ want' \in [Threads -> HostGraphs \cup {None}]
        /\ \A u \in Threads \ {t} : want'[u] = want[u]
    BY <1>2, <2>1, <2>2, MakesMoves
  <2>4. want[t] # None /\ want'[t] # None
    BY <1>2, <2>3, NoneAssumption, TypeParts DEF HandlesOK
  <2>5. HandlesOK'
    BY <1>1, <1>4, <2>3, <2>4, HandlesKept
  <2>6. CtxOK'
    BY <1>2, <2>1, GivesMoves, TypeParts
  <2>7. QED
    BY <1>1, <1>3, <2>3, <2>5, <2>6, TypeKept, TypePartsNext
<1>6. CASE UNCHANGED <<host, want, ctx>>
  <2>1. HandlesOK'
    BY <1>1, <1>4, <1>6, TypeParts DEF HandlesOK
  <2>2. QED
    BY <1>1, <1>3, <1>6, <2>1, TypeKept, TypePartsNext
<1>7. QED
  BY <1>5, <1>6, SetsInputMoves

LEMMA OpensMoves ==
  ASSUME NEW t \in Threads, OpensOwn(t)
  PROVE  Adds(t, Op("open", graphOf[t], None)) /\ Goes(t, "run", None)
BY OpIs DEF OpensOwn, Adds, Fitting

LEMMA OpensUnpooledTyped ==
  ASSUME TypeOK, OwnedOnce, OpsOwned, NEW t \in Threads, OpensUnpooled(t)
  PROVE  TypeOK'
<1>1. UNCHANGED <<mode, ctx, graphOf, topology, queue, inProgress, template, pool, pending, quarantined>>
  BY DEF OpensUnpooled, pools, work
<1>2. graphOf[t] # None /\ topology' \in [Threads -> Topologies]
  BY <1>1, DrainedHas, TypeParts DEF OpensUnpooled, Opens, HandlesOK
<1>3. QED
  BY <1>1, <1>2, OpensMoves, TypeKept, AddsTyped DEF OpensUnpooled

-----------------------------------------------------------------------------
(* The pool *)

\* Refills are scheduled up to the target.
LEMMA RefillsTyped ==
  ASSUME NEW n \in Nat
  PROVE  /\ Refills(n) \in Seq(Ops) /\ Len(Refills(n)) = n
         /\ \A i \in 1 .. n : Refills(n)[i].kind = "refill" /\ Refills(n)[i].graph = None
<1>1. Op("refill", None, None) \in Ops
  BY DEF Op, Ops, Teardown
<1>2. Refills(n) \in [1 .. n -> Ops]
  BY <1>1 DEF Refills
<1>3. Refills(n) \in Seq(Ops) /\ Len(Refills(n)) = n
  BY <1>2
<1>4. ASSUME NEW i \in 1 .. n PROVE Refills(n)[i] = Op("refill", None, None)
  BY DEF Refills
<1>5. QED
  BY <1>3, <1>4, OpIs

\* What is queued with the refills comes before them.
LEMMA SchedulesMoves ==
  ASSUME TypeOK, NEW kept \in Seq(Addresses), Len(kept) <= Target, NEW ops \in Seq(Ops),
         \A i \in DOMAIN ops : ops[i].kind # "open", UNCHANGED inProgress, Schedules(kept, ops)
  PROVE  /\ WorkOK' /\ pool' = kept /\ pending' \in 0 .. Target /\ Waiting' \in Seq(Ops)
         /\ Len(pool') + pending' <= Target \/ Len(pool') + pending' = Len(kept) + pending
         /\ \A i \in 1 .. Len(Waiting) : Waiting'[i] = Waiting[i]
         /\ \A i \in 1 .. Len(ops) : Waiting'[Len(Waiting) + i] = ops[i]
         /\ Len(Waiting') >= Len(Waiting) + Len(ops)
         /\ \A i \in Len(Waiting) + Len(ops) + 1 .. Len(Waiting') :
              Waiting'[i].kind = "refill" /\ Waiting'[i].graph = None
<1>1. WorkOK /\ PoolOK /\ Target \in Nat /\ queue \in Seq(Ops)
      /\ \A i \in DOMAIN queue : queue[i].kind # "open"
  BY TypeParts, AudioGraphsAssumption DEF WorkOK
<1>2. pending \in Nat /\ pending <= Target
  BY <1>1 DEF PoolOK
<1>3. PICK n : n = Max({0, Target - Len(kept) - pending})
  OBVIOUS
<1>4. Target - Len(kept) - pending \in Int
  BY <1>1, <1>2
<1>5. n = IF Target - Len(kept) - pending > 0 THEN Target - Len(kept) - pending ELSE 0
  BY <1>3, <1>4, MaxIs
<1>6. n \in Nat
  BY <1>4, <1>5
<1>7. pool' = kept /\ pending' = pending + n /\ queue' = queue \o ops \o Refills(n)
  BY <1>3 DEF Schedules
<1>8. /\ pending' \in 0 .. Target
      /\ Len(pool') + pending' <= Target \/ Len(pool') + pending' = Len(kept) + pending
  BY <1>1, <1>2, <1>5, <1>7
<1>9. PICK r \in Seq(Ops) : r = Refills(n) /\ Len(r) = n
                            /\ \A i \in 1 .. n : r[i].kind = "refill" /\ r[i].graph = None
  BY <1>6, RefillsTyped
<1> DEFINE s == ops \o r
<1>10. /\ s \in Seq(Ops) /\ Len(s) = Len(ops) + n
       /\ \A i \in 1 .. Len(ops) : s[i] = ops[i]
       /\ \A i \in Len(ops) + 1 .. Len(s) : s[i] = r[i - Len(ops)] /\ i - Len(ops) \in 1 .. n
  <2>5. s \in Seq(Ops) /\ Len(s) = Len(ops) + Len(r)
    OBVIOUS
  <2>1. s \in Seq(Ops) /\ Len(s) = Len(ops) + n
    BY <1>9, <2>5
  <2>2. ASSUME NEW i \in 1 .. Len(ops) PROVE s[i] = ops[i]
    OBVIOUS
  <2>3. ASSUME NEW i \in Len(ops) + 1 .. Len(s)
        PROVE  s[i] = r[i - Len(ops)] /\ i - Len(ops) \in 1 .. n
    BY <1>6, <1>9, <2>1
  <2>4. QED
    BY <2>1, <2>2, <2>3
<1>11. \A i \in Len(ops) + 1 .. Len(s) : s[i].kind = "refill" /\ s[i].graph = None
  BY <1>9, <1>10
<1>12. queue' = queue \o s
  <2>1. queue' = (queue \o ops) \o r
    BY <1>7, <1>9
  <2>2. queue \in Seq(Ops) /\ ops \in Seq(Ops) /\ r \in Seq(Ops)
    BY <1>1
  <2>3. QED
    BY SMTT(30), <2>1, <2>2
<1> HIDE DEF s
<1>13. Grown(s)
  BY <1>1, <1>10, <1>12, WaitingGrows
<1>14. Waiting \in Seq(Ops)
  BY <1>1, WaitingTyped
<1>15. ASSUME NEW i \in Len(Waiting) + Len(ops) + 1 .. Len(Waiting')
       PROVE  Waiting'[i].kind = "refill" /\ Waiting'[i].graph = None
  <2>1. i - Len(Waiting) \in Len(ops) + 1 .. Len(s) /\ i - Len(Waiting) \in 1 .. Len(s)
        /\ Len(Waiting) + (i - Len(Waiting)) = i
    BY <1>13, <1>14, <1>10 DEF Grown
  <2>2. Waiting'[Len(Waiting) + (i - Len(Waiting))] = s[i - Len(Waiting)]
    BY <1>13, <2>1 DEF Grown
  <2>3. QED
    BY <1>11, <2>1, <2>2
<1>16. ASSUME NEW i \in 1 .. Len(ops) PROVE Waiting'[Len(Waiting) + i] = ops[i]
  BY <1>6, <1>10, <1>13 DEF Grown
<1>17. ASSUME NEW i \in DOMAIN queue' PROVE queue'[i].kind # "open"
  <2>1. CASE i \in DOMAIN queue
    <3>1. queue'[i] = queue[i]
      BY <1>1, <1>10, <1>12, <2>1
    <3>2. QED
      BY <1>1, <2>1, <3>1
  <2>2. CASE i \notin DOMAIN queue
    <3>1. i - Len(queue) \in 1 .. Len(s) /\ queue'[i] = s[i - Len(queue)]
      BY <1>1, <1>10, <1>12, <2>2
    <3>2. s[i - Len(queue)].kind # "open"
      BY SMTT(30), <1>10, <1>11, <3>1
    <3>3. QED
      BY <3>1, <3>2
  <2>3. QED
    BY <2>1, <2>2
<1>18. queue' \in Seq(Ops)
  BY <1>1, <1>10, <1>12
<1>19. WorkOK'
  BY <1>1, <1>17, <1>18, WorkStays
<1>20. QED
  BY <1>6, <1>7, <1>8, <1>10, <1>13, <1>14, <1>15, <1>16, <1>19 DEF Grown

\* The template's counts move, and its shape is the given one.
TemplateMoves(shape) ==
  template' \in [shape : {shape}, matches : BOOLEAN, mismatches : 0 .. Relearn - 1]

LEMMA TemplateTyped ==
  ASSUME PoolOK, NEW s \in Shapes \cup {None}, TemplateMoves(s),
         pool' \in Seq(Addresses), Len(pool') <= Target, pending' \in 0 .. Target
  PROVE  PoolOK' /\ template'.shape = s
BY DEF PoolOK, TemplateMoves

LEMMA MatchedMoves ==
  ASSUME PoolOK, template' = [template EXCEPT !.matches = TRUE, !.mismatches = 0]
  PROVE  TemplateMoves(template.shape) /\ template.shape \in Shapes \cup {None}
<1>1. template \in [shape : Shapes \cup {None}, matches : BOOLEAN, mismatches : 0 .. Relearn - 1]
  BY DEF PoolOK
<1>2. 0 \in 0 .. Relearn - 1
  BY AudioGraphsAssumption
<1>3. template' = [shape |-> template.shape, matches |-> TRUE, mismatches |-> 0]
  BY <1>1
<1>4. QED
  BY <1>1, <1>2, <1>3 DEF TemplateMoves

LEMMA LastIs ==
  ASSUME PoolOK, pool # <<>>
  PROVE  /\ Len(pool) \in DOMAIN pool /\ Last(pool) = pool[Len(pool)] /\ Last(pool) \in Addresses
         /\ Front(pool) \in Seq(Addresses) /\ Len(Front(pool)) = Len(pool) - 1
         /\ \A i \in 1 .. Len(pool) - 1 : Front(pool)[i] = pool[i]
<1>1. pool \in Seq(Addresses)
  BY DEF PoolOK
<1>2. Len(pool) \in DOMAIN pool /\ Last(pool) = pool[Len(pool)] /\ Last(pool) \in Addresses
  BY <1>1 DEF Last
<1>3. QED
  BY <1>1, <1>2, FrontIs

LEMMA TakesPooledMoves ==
  ASSUME TypeOK, OwnedOnce, OpsOwned, NEW t \in Threads, TakesPooled(t)
  PROVE  /\ Drained(t) /\ ~ want[t].open /\ ~ topology[t].unpoolable /\ pool # <<>> /\ Deferred
         /\ template.shape = Shape(topology[t]) /\ template'.shape = template.shape
         /\ Last(pool) \in Addresses /\ pool' = Front(pool) /\ Len(pool) \in DOMAIN pool
         /\ Last(pool) = pool[Len(pool)] /\ Len(pool') = Len(pool) - 1
         /\ \A i \in 1 .. Len(pool) - 1 : pool'[i] = pool[i]
         /\ WorkOK' /\ PoolOK' /\ CallsOK' /\ pc'[t] = "swap" /\ call'[t] = Op("open", Last(pool), None)
         /\ \A u \in Threads \ {t} : pc'[u] = pc[u] /\ call'[u] = call[u]
         /\ Waiting' \in Seq(Ops) /\ Len(Waiting') >= Len(Waiting)
         /\ \A i \in 1 .. Len(Waiting) : Waiting'[i] = Waiting[i]
         /\ \A i \in Len(Waiting) + 1 .. Len(Waiting') :
              Waiting'[i].kind = "refill" /\ Waiting'[i].graph = None
         /\ Len(pool) + pending <= Target => Len(pool') + pending' <= Target
<1>1. PoolOK /\ CallsOK /\ Target \in Nat
  BY TypeParts, AudioGraphsAssumption
<1>2. /\ Drained(t) /\ ~ want[t].open /\ ~ topology[t].unpoolable /\ pool # <<>> /\ Deferred
      /\ template.shape = Shape(topology[t])
  BY DEF TakesPooled, Opens, Poolable, Matches
<1>3. /\ Last(pool) \in Addresses /\ Front(pool) \in Seq(Addresses) /\ Len(pool) \in DOMAIN pool
      /\ Last(pool) = pool[Len(pool)] /\ Len(Front(pool)) = Len(pool) - 1
      /\ \A i \in 1 .. Len(pool) - 1 : Front(pool)[i] = pool[i]
  BY <1>1, <1>2, LastIs
<1>4. Len(pool) \in Nat /\ Len(pool) <= Target /\ pending \in Nat
  BY <1>1 DEF PoolOK
<1>5. Len(Front(pool)) <= Target
  BY <1>1, <1>3, <1>4
<1>6. <<>> \in Seq(Ops) /\ Len(<<>>) = 0 /\ \A i \in DOMAIN <<>> : <<>>[i].kind # "open"
  OBVIOUS
<1>7. UNCHANGED inProgress /\ Schedules(Front(pool), <<>>)
  BY DEF TakesPooled
<1>8. /\ WorkOK' /\ pool' = Front(pool) /\ pending' \in 0 .. Target /\ Waiting' \in Seq(Ops)
      /\ Len(pool') + pending' <= Target \/ Len(pool') + pending' = Len(Front(pool)) + pending
      /\ \A i \in 1 .. Len(Waiting) : Waiting'[i] = Waiting[i]
      /\ Len(Waiting') >= Len(Waiting) + 0
      /\ \A i \in Len(Waiting) + 0 + 1 .. Len(Waiting') :
           Waiting'[i].kind = "refill" /\ Waiting'[i].graph = None
  BY <1>3, <1>5, <1>6, <1>7, SchedulesMoves
<1>9. TemplateMoves(template.shape) /\ template.shape \in Shapes \cup {None}
  BY <1>1, MatchedMoves DEF TakesPooled
<1>10. PoolOK' /\ template'.shape = template.shape
  BY <1>1, <1>3, <1>5, <1>8, <1>9, TemplateTyped
<1>11. Op("open", Last(pool), None) \in Ops /\ Op("open", Last(pool), None) # None
       /\ Op("open", Last(pool), None).kind = "open"
  <2>1. Op("open", Last(pool), None) \in Ops
    BY <1>3, OpsAre DEF Plain
  <2>2. QED
    BY <2>1, OpGraph, OpIs
<1>12. CallsOK' /\ pc'[t] = "swap" /\ call'[t] = Op("open", Last(pool), None)
       /\ \A u \in Threads \ {t} : pc'[u] = pc[u] /\ call'[u] = call[u]
  BY <1>1, <1>11, GoesMoves DEF TakesPooled
<1>13. Len(Waiting) \in Nat
  BY TypeParts, WaitingTyped
<1>14. Len(Waiting') >= Len(Waiting) /\ \A i \in Len(Waiting) + 1 .. Len(Waiting') :
                                           Waiting'[i].kind = "refill" /\ Waiting'[i].graph = None
  BY <1>8, <1>13
<1>15. Len(pool) + pending <= Target => Len(pool') + pending' <= Target
  BY <1>1, <1>3, <1>4, <1>8
<1>16. QED
  BY <1>2, <1>3, <1>8, <1>10, <1>12, <1>14, <1>15

LEMMA TakesPooledTyped ==
  ASSUME TypeOK, OwnedOnce, OpsOwned, NEW t \in Threads, TakesPooled(t)
  PROVE  TypeOK'
<1>1. UNCHANGED <<mode, host, ctx, graphOf, topology, want, quarantined>>
  BY DEF TakesPooled, history
<1>2. WorkOK' /\ PoolOK' /\ CallsOK'
  BY TakesPooledMoves
<1>3. QED
  BY <1>1, <1>2, TypeKept, TypePartsNext

Disposal == [i \in DOMAIN pool |-> Op("dispose", pool[i], None)]

LEMMA DisposalTyped ==
  ASSUME PoolOK
  PROVE  /\ Disposal \in Seq(Ops) /\ Len(Disposal) = Len(pool)
         /\ \A i \in 1 .. Len(pool) : /\ Disposal[i].kind = "dispose" /\ Disposal[i].graph = pool[i]
                                      /\ Disposal[i] = Op("dispose", pool[i], None)
<1>1. pool \in Seq(Addresses) /\ DOMAIN pool = 1 .. Len(pool) /\ Len(pool) \in Nat
  BY DEF PoolOK
<1>2. ASSUME NEW i \in 1 .. Len(pool) PROVE Op("dispose", pool[i], None) \in Ops
  <2>1. pool[i] \in Addresses
    BY <1>1
  <2>2. QED
    BY <2>1, OpsAre DEF Plain, Teardown
<1>3. Disposal \in [1 .. Len(pool) -> Ops]
  BY <1>1, <1>2 DEF Disposal
<1>4. Disposal \in Seq(Ops) /\ Len(Disposal) = Len(pool)
  BY <1>1, <1>3
<1>5. \A i \in 1 .. Len(pool) : Disposal[i] = Op("dispose", pool[i], None)
  BY <1>1 DEF Disposal
<1>6. QED
  BY <1>4, <1>5, OpIs

\* A miss keeps the pool, or disposes of it and learns another template.
LEMMA MissesPoolMoves ==
  ASSUME TypeOK, OwnedOnce, OpsOwned, NEW t \in Threads, MissesPool(t)
  PROVE  /\ Drained(t) /\ ~ want[t].open /\ OpensOwn(t) /\ Deferred
         /\ WorkOK' /\ PoolOK' /\ Waiting' \in Seq(Ops)
         /\ \A i \in 1 .. Len(Waiting) : Waiting'[i] = Waiting[i]
         /\ Len(pool) + pending <= Target => Len(pool') + pending' <= Target
         /\ \/ /\ pool' = pool /\ template'.shape = template.shape
               /\ Len(Waiting') >= Len(Waiting)
               /\ \A i \in Len(Waiting) + 1 .. Len(Waiting') :
                    Waiting'[i].kind = "refill" /\ Waiting'[i].graph = None
            \/ /\ pool' = <<>> /\ Len(Waiting') >= Len(Waiting) + Len(pool)
               /\ \A i \in 1 .. Len(pool) :
                    Waiting'[Len(Waiting) + i] = Op("dispose", pool[i], None)
               /\ \A i \in Len(Waiting) + Len(pool) + 1 .. Len(Waiting') :
                    Waiting'[i].kind = "refill" /\ Waiting'[i].graph = None
<1>1. PoolOK /\ Target \in Nat /\ Relearn \in Nat /\ pool \in Seq(Addresses) /\ Len(pool) <= Target
      /\ pending \in Nat /\ Len(Waiting) \in Nat
  BY TypeParts, WaitingTyped, AudioGraphsAssumption DEF PoolOK
<1>2. Drained(t) /\ ~ want[t].open /\ OpensOwn(t) /\ UNCHANGED inProgress /\ Deferred
  BY DEF MissesPool, Opens, Poolable
<1>3. <<>> \in Seq(Ops) /\ Len(<<>>) = 0 /\ (\A i \in DOMAIN <<>> : <<>>[i].kind # "open")
      /\ <<>> \in Seq(Addresses)
  OBVIOUS
<1>4. CASE Schedules(pool, <<>>) /\ TemplateMoves(template.shape)
  <2>1. /\ WorkOK' /\ pool' = pool /\ pending' \in 0 .. Target /\ Waiting' \in Seq(Ops)
        /\ Len(pool') + pending' <= Target \/ Len(pool') + pending' = Len(pool) + pending
        /\ \A i \in 1 .. Len(Waiting) : Waiting'[i] = Waiting[i]
        /\ Len(Waiting') >= Len(Waiting) + 0
        /\ \A i \in Len(Waiting) + 0 + 1 .. Len(Waiting') :
             Waiting'[i].kind = "refill" /\ Waiting'[i].graph = None
    BY <1>1, <1>2, <1>3, <1>4, SchedulesMoves
  <2>2. template.shape \in Shapes \cup {None}
    BY <1>1 DEF PoolOK
  <2>3. PoolOK' /\ template'.shape = template.shape
    BY <1>1, <1>4, <2>1, <2>2, TemplateTyped
  <2>4. Len(Waiting') >= Len(Waiting) /\ \A i \in Len(Waiting) + 1 .. Len(Waiting') :
                                            Waiting'[i].kind = "refill" /\ Waiting'[i].graph = None
    BY <1>1, <2>1
  <2>5. QED
    BY <1>2, <2>1, <2>3, <2>4
<1>5. CASE Schedules(<<>>, Disposal) /\ TemplateMoves(Shape(topology[t]))
  <2>1. /\ Disposal \in Seq(Ops) /\ Len(Disposal) = Len(pool)
        /\ \A i \in 1 .. Len(pool) : Disposal[i].kind = "dispose"
                                     /\ Disposal[i] = Op("dispose", pool[i], None)
    BY <1>1, DisposalTyped
  <2>2. \A i \in DOMAIN Disposal : Disposal[i].kind # "open"
    BY <2>1
  <2>3. /\ WorkOK' /\ pool' = <<>> /\ pending' \in 0 .. Target /\ Waiting' \in Seq(Ops)
        /\ Len(pool') + pending' <= Target \/ Len(pool') + pending' = Len(<<>>) + pending
        /\ \A i \in 1 .. Len(Waiting) : Waiting'[i] = Waiting[i]
        /\ \A i \in 1 .. Len(Disposal) : Waiting'[Len(Waiting) + i] = Disposal[i]
        /\ Len(Waiting') >= Len(Waiting) + Len(Disposal)
        /\ \A i \in Len(Waiting) + Len(Disposal) + 1 .. Len(Waiting') :
             Waiting'[i].kind = "refill" /\ Waiting'[i].graph = None
    <3>1. /\ Disposal \in Seq(Ops) /\ <<>> \in Seq(Addresses) /\ Len(<<>>) <= Target
          /\ UNCHANGED inProgress /\ Schedules(<<>>, Disposal)
      BY <1>1, <1>2, <1>3, <1>5, <2>1
    <3> HIDE DEF Disposal
    <3>2. QED
      BY <2>2, <3>1, SchedulesMoves
  <2>4. Shape(topology[t]) \in Shapes
    BY TypeParts DEF HandlesOK, Topologies, Shape, Shapes
  <2>5. PoolOK'
    BY <1>1, <1>3, <1>5, <2>3, <2>4, TemplateTyped
  <2>6. Len(pool) + pending <= Target => Len(pool') + pending' <= Target
    <3>1. Len(<<>>) = 0 /\ Len(pool) \in Nat /\ pending \in Nat /\ Len(pool') \in Nat /\ pending' \in Nat
          /\ Target \in Nat
      BY <1>1, <1>3, <2>3
    <3>2. Len(pool') + pending' <= Target \/ Len(pool') + pending' = 0 + pending
      BY <2>3, <3>1, Zenon
    <3>3. QED
      BY <3>1, <3>2
  <2>7. \A i \in 1 .. Len(pool) : Waiting'[Len(Waiting) + i] = Op("dispose", pool[i], None)
    BY <2>1, <2>3
  <2>8. /\ Len(Waiting') >= Len(Waiting) + Len(pool)
        /\ \A i \in Len(Waiting) + Len(pool) + 1 .. Len(Waiting') :
             Waiting'[i].kind = "refill" /\ Waiting'[i].graph = None
    BY <2>1, <2>3
  <2>9. QED
    BY <1>2, <2>3, <2>5, <2>6, <2>7, <2>8
<1>6. CASE /\ Matches(t) /\ pool = <<>> /\ Schedules(pool, <<>>)
           /\ template' = [template EXCEPT !.matches = TRUE, !.mismatches = 0]
  BY <1>1, <1>4, <1>6, MatchedMoves
<1>7. CASE /\ ~ Matches(t) /\ Relearns
           /\ template' = [shape |-> Shape(topology[t]), matches |-> FALSE, mismatches |-> 0]
           /\ Schedules(<<>>, [i \in DOMAIN pool |-> Op("dispose", pool[i], None)])
  <2>1. TemplateMoves(Shape(topology[t]))
    BY <1>7, AudioGraphsAssumption DEF TemplateMoves
  <2>2. Schedules(<<>>, Disposal)
    BY <1>7 DEF Disposal
  <2>3. QED
    BY <1>5, <2>1, <2>2
<1>8. CASE /\ ~ Matches(t) /\ ~ Relearns /\ Schedules(pool, <<>>)
           /\ template' = [template EXCEPT !.mismatches = @ + 1]
  <2>1. template.mismatches + 1 < Relearn
    BY <1>1, <1>8 DEF Relearns, PoolOK
  <2>2. TemplateMoves(template.shape)
    BY <1>1, <1>8, <2>1 DEF PoolOK, TemplateMoves
  <2>3. QED
    BY <1>4, <1>8, <2>2
<1>9. QED
  BY <1>6, <1>7, <1>8 DEF MissesPool

LEMMA MissesPoolTyped ==
  ASSUME TypeOK, OwnedOnce, OpsOwned, NEW t \in Threads, MissesPool(t)
  PROVE  TypeOK'
<1>1. UNCHANGED <<mode, ctx, graphOf, topology, quarantined>>
  BY DEF MissesPool
<1>2. graphOf[t] # None /\ topology' \in [Threads -> Topologies]
  BY <1>1, MissesPoolMoves, DrainedHas, TypeParts DEF HandlesOK
<1>3. QED
  BY <1>1, <1>2, MissesPoolMoves, OpensMoves, AddsTyped

-----------------------------------------------------------------------------
(* The calls that are queued *)

Queued == {"initialize", "start", "stop", "notify"} \cup Teardown

LEMMA QueuesMoves ==
  ASSUME TypeOK, NEW t \in Threads, NEW o \in Ops, o.kind \in Queued, Queues(t, o)
  PROVE  /\ CallsOK' /\ pc'[t] = (IF Deferred THEN "enqueue" ELSE "inline") /\ call'[t] = o
         /\ \A u \in Threads \ {t} : pc'[u] = pc[u] /\ call'[u] = call[u]
<1>1. PICK p : p = (IF Deferred THEN "enqueue" ELSE "inline")
  OBVIOUS
<1>2. Goes(t, p, o)
  BY <1>1 DEF Queues
<1>3. o # None /\ o.kind \notin {"open", "refill", "parameter"}
  BY OpGraph DEF Queued, Teardown
<1>4. p \in {"enqueue", "inline"} /\ CallsOK
  BY <1>1, TypeParts
<1>5. QED
  BY <1>1, <1>2, <1>3, <1>4, GoesMoves

\* A queued call that keeps the handle is made of the graph it names; its
\* callbacks are muted, unmuted or given another.
Asks(t, o) ==
  /\ o \in Ops /\ o.kind \in Queued \ {"dispose"} /\ o.graph = graphOf[t]
  /\ Queues(t, o) /\ Wants(t, o)

LEMMA InitializeMoves ==
  ASSUME TypeOK, NEW t \in Threads, Initialize(t)
  PROVE  /\ Has(t) /\ graphOf[t] \in Addresses /\ want[t].open /\ ~ want[t].init
         /\ Asks(t, Op("initialize", graphOf[t], None))
<1>1. Has(t) /\ graphOf[t] \in Addresses
  BY TypeParts DEF Initialize, Has, HandlesOK
<1>2. Op("initialize", graphOf[t], None) \in Ops
  BY <1>1, OpsAre DEF Plain
<1>3. QED
  BY <1>1, <1>2, OpIs DEF Initialize, Asks, Queued, Teardown

LEMMA StartMoves ==
  ASSUME TypeOK, NEW t \in Threads, Start(t)
  PROVE  /\ Has(t) /\ graphOf[t] \in Addresses /\ want[t].init /\ ctx' = Muted(graphOf[t], FALSE)
         /\ Asks(t, Op("start", graphOf[t], None))
<1>1. Has(t) /\ graphOf[t] \in Addresses
  BY TypeParts DEF Start, Has, HandlesOK
<1>2. Op("start", graphOf[t], None) \in Ops
  BY <1>1, OpsAre DEF Plain
<1>3. QED
  BY <1>1, <1>2, OpIs DEF Start, Asks, Queued, Teardown

LEMMA StopMoves ==
  ASSUME TypeOK, NEW t \in Threads, Stop(t)
  PROVE  /\ Has(t) /\ graphOf[t] \in Addresses /\ want[t].running /\ StopMutes(graphOf[t])
         /\ Asks(t, Op("stop", graphOf[t], None))
<1>1. Has(t) /\ graphOf[t] \in Addresses
  BY TypeParts DEF Stop, Has, HandlesOK
<1>2. Op("stop", graphOf[t], None) \in Ops
  BY <1>1, OpsAre DEF Plain
<1>3. QED
  BY <1>1, <1>2, OpIs DEF Stop, Asks, Queued, Teardown

LEMMA AddRenderNotifyMoves ==
  ASSUME TypeOK, NEW t \in Threads, AddRenderNotify(t)
  PROVE  /\ Has(t) /\ graphOf[t] \in Addresses /\ Unpoolable(t)
         /\ \E c \in Callbacks : Gives(t, c) /\ Asks(t, Op("notify", graphOf[t], c))
<1>1. Has(t) /\ graphOf[t] \in Addresses /\ Unpoolable(t)
  BY TypeParts DEF AddRenderNotify, Has, HandlesOK
<1>2. PICK c \in Callbacks :
        /\ Gives(t, c) /\ Queues(t, Op("notify", graphOf[t], c)) /\ Wants(t, Op("notify", graphOf[t], c))
  BY DEF AddRenderNotify, Gives
<1>3. Op("notify", graphOf[t], c) \in Ops
  BY <1>1, OpsAre
<1>4. QED
  BY <1>1, <1>2, <1>3, OpIs DEF Asks, Queued, Teardown

Drops(t) ==
  /\ Queues(t, Op("dispose", graphOf[t], None))
  /\ want' = [want EXCEPT ![t] = None] /\ graphOf' = [graphOf EXCEPT ![t] = None]
  /\ topology' = [topology EXCEPT ![t] = Blank]

LEMMA TearDownMoves ==
  ASSUME TypeOK, NEW t \in Threads, TearDown(t)
  PROVE  /\ Begins(t) /\ graphOf[t] \in Addresses /\ StopMutes(graphOf[t])
         /\ \/ Drops(t)
            \/ /\ Has(t) /\ UNCHANGED <<graphOf, topology>>
               /\ \E k \in {"uninitialize", "close"} : Asks(t, Op(k, graphOf[t], None))
<1>1. Begins(t) /\ graphOf[t] \in Addresses /\ StopMutes(graphOf[t])
  BY TypeParts DEF TearDown, HandlesOK
<1>2. PICK k \in Teardown :
        /\ Queues(t, Op(k, graphOf[t], None))
        /\ k # "dispose" => Has(t)
        /\ IF k = "dispose"
           THEN /\ want' = [want EXCEPT ![t] = None]
                /\ graphOf' = [graphOf EXCEPT ![t] = None]
                /\ topology' = [topology EXCEPT ![t] = Blank]
           ELSE Wants(t, Op(k, graphOf[t], None)) /\ UNCHANGED <<graphOf, topology>>
  BY Zenon DEF TearDown
<1>3. CASE k = "dispose"
  BY <1>1, <1>2, <1>3 DEF Drops
<1>4. CASE k # "dispose"
  <2>1. k \in {"uninitialize", "close"} /\ k \in Plain /\ k \in Queued
    BY <1>2, <1>4 DEF Teardown, Plain, Queued
  <2>2. Op(k, graphOf[t], None) \in Ops
    BY <1>1, <2>1, OpsAre
  <2>3. Asks(t, Op(k, graphOf[t], None))
    BY <1>2, <1>4, <2>1, <2>2, OpIs DEF Asks
  <2>4. QED
    BY <1>1, <1>2, <1>4, <2>1, <2>3
<1>5. QED
  BY <1>3, <1>4

LEMMA AsksMoves ==
  ASSUME TypeOK, NEW t \in Threads, graphOf[t] # None, NEW o, Asks(t, o)
  PROVE  /\ CallsOK' /\ pc'[t] = (IF Deferred THEN "enqueue" ELSE "inline") /\ call'[t] = o
         /\ \A u \in Threads \ {t} : pc'[u] = pc[u] /\ call'[u] = call[u] /\ want'[u] = want[u]
         /\ want'[t] = After(want[t], o) /\ want[t] \in HostGraphs
         /\ After(want[t], o) \in HostGraphs /\ want' \in [Threads -> HostGraphs \cup {None}]
BY QueuesMoves, WantsMoves DEF Asks

LEMMA StopMutesMoves ==
  ASSUME CtxOK, NEW g \in Addresses, StopMutes(g)
  PROVE  /\ CtxOK'
         /\ \A c \in Callbacks : /\ ctx[c] = None <=> ctx'[c] = None
                                 /\ ctx[c] # None => ctx'[c].owner = ctx[c].owner
                                 /\ ctx'[c] # ctx[c] => ctx[c].owner = g /\ ctx'[c].muted
         /\ mode \notin {"synchronous", "quarantine"} =>
              \A c \in Callbacks : ctx[c] # None /\ ctx[c].owner = g => ctx'[c].muted
<1>1. CASE mode \in {"synchronous", "quarantine"}
  BY <1>1 DEF StopMutes, CtxOK
<1>2. CASE mode \notin {"synchronous", "quarantine"}
  <2>1. ctx' = Muted(g, TRUE)
    BY <1>2 DEF StopMutes
  <2>2. QED
    BY ZenonT(60), <1>2, <2>1, MutedIs DEF CtxOK
<1>3. QED
  BY <1>1, <1>2

LEMMA AsksTyped ==
  ASSUME TypeOK, NEW t \in Threads, graphOf[t] # None, NEW o, Asks(t, o),
         UNCHANGED <<mode, host, graphOf, template, pool, pending, queue, inProgress, quarantined>>,
         topology' \in [Threads -> Topologies], CtxOK'
  PROVE  TypeOK'
<1>1. /\ CallsOK' /\ want'[t] # None /\ want[t] # None
      /\ want' \in [Threads -> HostGraphs \cup {None}] /\ \A u \in Threads \ {t} : want'[u] = want[u]
  BY AsksMoves, NoneAssumption
<1>2. HandlesOK'
  BY <1>1, HandlesKept
<1>3. QED
  BY <1>1, <1>2, TypeKept, TypePartsNext

LEMMA InitializeTyped ==
  ASSUME TypeOK, NEW t \in Threads, Initialize(t)
  PROVE  TypeOK'
<1>1. UNCHANGED <<mode, host, ctx, graphOf, topology, template, pool, pending, queue, inProgress, quarantined>>
  BY DEF Initialize, pools, work
<1>2. CtxOK' /\ topology' \in [Threads -> Topologies] /\ graphOf[t] # None
  BY <1>1, TypeParts, InitializeMoves, NoneAssumption DEF HandlesOK, CtxOK
<1>3. QED
  BY <1>1, <1>2, InitializeMoves, AsksTyped

LEMMA StartTyped ==
  ASSUME TypeOK, NEW t \in Threads, Start(t)
  PROVE  TypeOK'
<1>1. UNCHANGED <<mode, host, graphOf, topology, template, pool, pending, queue, inProgress, quarantined>>
  BY DEF Start, pools, work
<1>2. topology' \in [Threads -> Topologies] /\ graphOf[t] # None
  BY <1>1, TypeParts, StartMoves, NoneAssumption DEF HandlesOK
<1>3. CtxOK'
  <2>1. CtxOK /\ graphOf[t] \in Addresses /\ ctx' = Muted(graphOf[t], FALSE)
    BY StartMoves, TypeParts
  <2>2. Muted(graphOf[t], FALSE) \in [Callbacks -> Contexts \cup {None}]
    BY <2>1, MutedIs
  <2>3. QED
    BY <2>1, <2>2 DEF CtxOK
<1>4. QED
  BY <1>1, <1>2, <1>3, StartMoves, AsksTyped

LEMMA StopTyped ==
  ASSUME TypeOK, NEW t \in Threads, Stop(t)
  PROVE  TypeOK'
<1>1. UNCHANGED <<mode, host, graphOf, topology, template, pool, pending, queue, inProgress, quarantined>>
  BY DEF Stop, pools, work
<1>2. topology' \in [Threads -> Topologies] /\ graphOf[t] # None
  BY <1>1, TypeParts, StopMoves, NoneAssumption DEF HandlesOK
<1>3. CtxOK'
  BY StopMoves, StopMutesMoves, TypeParts
<1>4. QED
  BY <1>1, <1>2, <1>3, StopMoves, AsksTyped

LEMMA AddRenderNotifyTyped ==
  ASSUME TypeOK, NEW t \in Threads, AddRenderNotify(t)
  PROVE  TypeOK'
<1>1. UNCHANGED <<mode, host, graphOf, template, pool, pending, queue, inProgress, quarantined>>
  BY DEF AddRenderNotify, pools, work
<1>2. PICK c \in Callbacks : Gives(t, c) /\ Asks(t, Op("notify", graphOf[t], c))
  BY AddRenderNotifyMoves
<1>3. topology' \in [Threads -> Topologies] /\ graphOf[t] # None
  BY AddRenderNotifyMoves, UnpoolableMoves, NoneAssumption
<1>4. CtxOK'
  BY <1>2, AddRenderNotifyMoves, GivesMoves, TypeParts
<1>5. QED
  BY <1>1, <1>2, <1>3, <1>4, AsksTyped

LEMMA DropsMoves ==
  ASSUME TypeOK, NEW t \in Threads, graphOf[t] \in Addresses, Drops(t)
  PROVE  /\ HandlesOK' /\ CallsOK' /\ pc'[t] = (IF Deferred THEN "enqueue" ELSE "inline")
         /\ call'[t] = Op("dispose", graphOf[t], None) /\ graphOf'[t] = None /\ want'[t] = None
         /\ \A u \in Threads \ {t} : /\ pc'[u] = pc[u] /\ call'[u] = call[u] /\ want'[u] = want[u]
                                     /\ graphOf'[u] = graphOf[u] /\ topology'[u] = topology[u]
<1>1. Op("dispose", graphOf[t], None) \in Ops
  BY OpsAre DEF Plain, Teardown
<1>2. HandlesOK
  BY TypeParts
<1>3. HandlesOK'
  BY <1>2, BlankTyped DEF Drops, HandlesOK
<1>4. /\ graphOf'[t] = None /\ want'[t] = None
      /\ \A u \in Threads \ {t} : /\ want'[u] = want[u]
                                  /\ graphOf'[u] = graphOf[u] /\ topology'[u] = topology[u]
  BY <1>2 DEF Drops, HandlesOK
<1>5. QED
  BY <1>1, <1>3, <1>4, QueuesMoves, OpIs DEF Drops, Queued, Teardown

LEMMA TearDownTyped ==
  ASSUME TypeOK, NEW t \in Threads, TearDown(t)
  PROVE  TypeOK'
<1>1. UNCHANGED <<mode, host, template, pool, pending, queue, inProgress, quarantined>>
  BY DEF TearDown, pools, work
<1>2. graphOf[t] \in Addresses /\ graphOf[t] # None
  BY TearDownMoves, NoneAssumption
<1>3. CtxOK'
  BY TearDownMoves, StopMutesMoves, TypeParts
<1>4. CASE Drops(t)
  BY <1>1, <1>2, <1>3, <1>4, DropsMoves, TypeKept, TypePartsNext
<1>5. CASE /\ UNCHANGED <<graphOf, topology>>
           /\ \E k \in {"uninitialize", "close"} : Asks(t, Op(k, graphOf[t], None))
  <2>1. topology' \in [Threads -> Topologies]
    BY <1>5, TypeParts DEF HandlesOK
  <2>2. QED
    BY <1>1, <1>2, <1>3, <1>5, <2>1, AsksTyped
<1>6. QED
  BY <1>4, <1>5, TearDownMoves

LEMMA EnqueuesMoves ==
  ASSUME TypeOK, NEW t \in Threads, Enqueues(t)
  PROVE  /\ WorkOK' /\ CallsOK' /\ pc[t] = "enqueue" /\ pc'[t] = "run" /\ call[t] \in Ops
         /\ call[t].kind \notin {"open", "refill", "parameter"}
         /\ \A u \in Threads \ {t} : pc'[u] = pc[u] /\ call'[u] = call[u]
         /\ Waiting' \in Seq(Ops) /\ Len(Waiting') = Len(Waiting) + 1
         /\ \A i \in 1 .. Len(Waiting) : Waiting'[i] = Waiting[i]
         /\ Waiting'[Len(Waiting) + 1] = call[t]
<1>1. WorkOK /\ CallsOK
  BY TypeParts
<1>2. pc[t] = "enqueue" /\ call[t] \in Ops /\ call[t].kind \notin {"open", "refill", "parameter"}
  BY <1>1 DEF Enqueues, CallsOK
<1>3. UNCHANGED inProgress /\ queue' = Append(queue, call[t]) /\ Goes(t, "run", None)
  BY DEF Enqueues
<1>4. /\ Waiting' \in Seq(Ops) /\ Len(Waiting') = Len(Waiting) + 1
      /\ \A i \in 1 .. Len(Waiting) : Waiting'[i] = Waiting[i]
      /\ Waiting'[Len(Waiting) + 1] = call[t]
  BY <1>1, <1>2, <1>3, WaitingAppends
<1>5. CallsOK' /\ pc'[t] = "run" /\ \A u \in Threads \ {t} : pc'[u] = pc[u] /\ call'[u] = call[u]
  BY <1>1, <1>3, GoesBack
<1>6. queue' \in Seq(Ops) /\ \A i \in DOMAIN queue' : queue'[i].kind # "open"
  BY <1>1, <1>2, <1>3 DEF WorkOK
<1>7. WorkOK'
  BY <1>1, <1>3, <1>6, WorkStays
<1>8. QED
  BY <1>2, <1>4, <1>5, <1>7

LEMMA EnqueuesTyped ==
  ASSUME TypeOK, NEW t \in Threads, Enqueues(t)
  PROVE  TypeOK'
BY EnqueuesMoves, TypeKept, TypePartsNext DEF Enqueues, pools, history

LEMMA InlineMoves ==
  ASSUME TypeOK, OwnedOnce, OpsOwned, NEW t \in Threads, PerformsInline(t)
  PROVE  /\ CallsOK' /\ pc[t] = "inline" /\ pc'[t] = "run" /\ Does(call[t])
         /\ call[t] \in Ops /\ call[t].graph \in Addresses /\ host[call[t].graph] \in HostGraphs
         /\ call[t].kind \notin {"open", "refill", "parameter"}
         /\ \A u \in Threads \ {t} : pc'[u] = pc[u] /\ call'[u] = call[u]
         /\ UNCHANGED <<mode, graphOf, topology, queue, inProgress, template, pool, pending>>
<1>1. pc[t] = "inline" /\ Goes(t, "run", None)
      /\ UNCHANGED <<mode, graphOf, topology, queue, inProgress, template, pool, pending>>
  BY DEF PerformsInline, pools, work
<1>2. CallsOK' /\ pc'[t] = "run" /\ \A u \in Threads \ {t} : pc'[u] = pc[u] /\ call'[u] = call[u]
  BY <1>1, TypeParts, GoesBack
<1>3. QED
  BY <1>1, <1>2, InlineDoes, CallMade

LEMMA PerformsInlineTyped ==
  ASSUME TypeOK, OwnedOnce, OpsOwned, NEW t \in Threads, PerformsInline(t)
  PROVE  TypeOK'
<1>1. UNCHANGED <<mode, graphOf, topology, queue, inProgress, template, pool, pending>>
  BY InlineMoves
<1>2. mode' \in Modes /\ HostOK' /\ CtxOK' /\ quarantined' \subseteq Addresses /\ HandlesOK'
  BY <1>1, InlineMoves, DoesTyped
<1>3. QED
  BY <1>1, <1>2, InlineMoves, TypeKept, TypePartsNext

LEMMA SwapsGraphMoves ==
  ASSUME TypeOK, OwnedOnce, OpsOwned, NEW t \in Threads, SwapsGraph(t)
  PROVE  /\ HandlesOK' /\ CallsOK' /\ pc[t] = "swap" /\ pc'[t] = "enqueue"
         /\ call[t] \in Ops /\ call[t].graph \in Addresses /\ host[call[t].graph] \in HostGraphs
         /\ call[t].kind = "open" /\ graphOf[t] \in Addresses /\ want[t] \in HostGraphs
         /\ InCall(t, call[t].graph)
         /\ call'[t] = Op("dispose", graphOf[t], None) /\ call'[t] \in Ops
         /\ graphOf'[t] = call[t].graph /\ want'[t] = After(want[t], call[t])
         /\ want'[t] \in HostGraphs
         /\ \A u \in Threads \ {t} : /\ pc'[u] = pc[u] /\ call'[u] = call[u] /\ want'[u] = want[u]
                                     /\ graphOf'[u] = graphOf[u]
         /\ UNCHANGED <<mode, host, ctx, topology, queue, inProgress, template, pool, pending,
                        quarantined>>
<1>1. /\ pc[t] = "swap" /\ graphOf' = [graphOf EXCEPT ![t] = call[t].graph] /\ Wants(t, call[t])
      /\ Goes(t, "enqueue", Op("dispose", graphOf[t], None))
      /\ UNCHANGED <<mode, host, ctx, topology, queue, inProgress, template, pool, pending, quarantined>>
  BY DEF SwapsGraph, pools, work
<1>2. /\ call[t] \in Ops /\ call[t].graph \in Addresses /\ host[call[t].graph] \in HostGraphs
      /\ call[t].kind = "open" /\ InCall(t, call[t].graph)
  BY <1>1, CallMade
<1>3. graphOf[t] # None
  BY <1>1 DEF OpsOwned
<1>4. graphOf[t] \in Addresses /\ want[t] \in HostGraphs
  BY <1>3, HandleMade
<1>5. Op("dispose", graphOf[t], None) \in Ops
  BY <1>4, OpsAre DEF Plain, Teardown
<1>6. Op("dispose", graphOf[t], None) # None /\ Op("dispose", graphOf[t], None).kind = "dispose"
  BY <1>5, OpGraph, OpIs
<1>7. /\ CallsOK' /\ pc'[t] = "enqueue" /\ call'[t] = Op("dispose", graphOf[t], None)
      /\ \A u \in Threads \ {t} : pc'[u] = pc[u] /\ call'[u] = call[u]
  BY <1>1, <1>5, <1>6, TypeParts, GoesMoves
<1>8. /\ want'[t] = After(want[t], call[t]) /\ want'[t] \in HostGraphs
      /\ \A u \in Threads \ {t} : want'[u] = want[u]
      /\ want' \in [Threads -> HostGraphs \cup {None}]
  BY <1>1, <1>2, <1>3, WantsMoves
<1>9. HandlesOK
  BY TypeParts
<1>10. graphOf' \in [Threads -> Addresses \cup {None}] /\ graphOf'[t] = call[t].graph
       /\ \A u \in Threads \ {t} : graphOf'[u] = graphOf[u]
  BY <1>1, <1>2, <1>9 DEF HandlesOK
<1>11. HandlesOK'
  BY <1>1, <1>2, <1>8, <1>9, <1>10, NoneAssumption DEF HandlesOK
<1>12. QED
  BY <1>1, <1>2, <1>4, <1>5, <1>7, <1>8, <1>10, <1>11

LEMMA SwapsGraphTyped ==
  ASSUME TypeOK, OwnedOnce, OpsOwned, NEW t \in Threads, SwapsGraph(t)
  PROVE  TypeOK'
BY SwapsGraphMoves, TypeKept, TypePartsNext

LEMMA SetParameterMoves ==
  ASSUME TypeOK, OwnedOnce, NEW t \in Threads, SetParameter(t)
  PROVE  LET o == Op("parameter", graphOf[t], TRUE)
         IN  /\ Has(t) /\ graphOf[t] \in Addresses /\ o \in Ops /\ want[t].open /\ host[graphOf[t]] \in HostGraphs
             /\ Persists \/ ~ (want[t].init /\ HasWork(graphOf[t], TRUE))
             /\ want'[t] = After(want[t], o) /\ want[t] \in HostGraphs /\ want'[t] \in HostGraphs
             /\ \A u \in Threads \ {t} : want'[u] = want[u]
             /\ UNCHANGED <<mode, ctx, graphOf, topology, pc, call, inProgress, template, pool, pending,
                            quarantined>>
             /\ HandlesOK' /\ HostOK' /\ WorkOK'
             /\ \/ HasWork(graphOf[t], TRUE) /\ UNCHANGED <<host, queue>>
                \/ /\ UNCHANGED host /\ Waiting' \in Seq(Ops) /\ Len(Waiting') = Len(Waiting) + 1
                   /\ \A i \in 1 .. Len(Waiting) : Waiting'[i] = Waiting[i]
                   /\ Waiting'[Len(Waiting) + 1] = o
                   /\ queue' = Append(queue, o) /\ HasWork(graphOf[t], FALSE)
                \/ /\ ~ HasWork(graphOf[t], FALSE) /\ UNCHANGED queue
                   /\ host'[graphOf[t]] = After(host[graphOf[t]], o)
                   /\ \A b \in Addresses \ {graphOf[t]} : host'[b] = host[b]
<1> DEFINE o == Op("parameter", graphOf[t], TRUE)
<1>1. /\ Has(t) /\ Wants(t, o) /\ want[t].open
      /\ Persists \/ ~ (want[t].init /\ HasWork(graphOf[t], TRUE))
      /\ UNCHANGED <<mode, ctx, graphOf, topology, pc, call, inProgress, template, pool, pending, quarantined>>
  BY DEF SetParameter, guest, pools
<1>2. graphOf[t] # None /\ HandlesOK /\ HostOK /\ WorkOK
  BY <1>1, TypeParts DEF Has
<1>3. graphOf[t] \in Addresses /\ host[graphOf[t]] \in HostGraphs
  BY <1>2, HandleMade
<1>4. o \in Ops /\ o.kind = "parameter"
  <2>1. Op("parameter", graphOf[t], TRUE) \in Ops
    BY <1>3, OpsAre
  <2>2. QED
    BY <2>1 DEF Op
<1> HIDE DEF o
<1>5. /\ want'[t] = After(want[t], o) /\ want[t] \in HostGraphs /\ want'[t] \in HostGraphs
      /\ \A u \in Threads \ {t} : want'[u] = want[u]
      /\ want' \in [Threads -> HostGraphs \cup {None}]
  BY <1>1, <1>2, <1>4, WantsMoves
<1>6. HandlesOK'
  BY <1>1, <1>2, <1>5, HandlesKept, NoneAssumption DEF HandlesOK
<1>7. \/ HasWork(graphOf[t], TRUE) /\ UNCHANGED <<host, queue>>
      \/ HasWork(graphOf[t], FALSE) /\ queue' = Append(queue, o) /\ UNCHANGED host
      \/ /\ ~ HasWork(graphOf[t], FALSE) /\ host' = [host EXCEPT ![graphOf[t]] = After(@, o)]
         /\ UNCHANGED queue
  BY Zenon DEF SetParameter, o
<1>8. CASE HasWork(graphOf[t], TRUE) /\ UNCHANGED <<host, queue>>
  <2>1. HostOK' /\ WorkOK'
    BY <1>1, <1>8, TypeKept
  <2>2. QED
    BY <1>1, <1>3, <1>4, <1>5, <1>6, <1>8, <2>1 DEF o
<1>9. CASE HasWork(graphOf[t], FALSE) /\ queue' = Append(queue, o) /\ UNCHANGED host
  <2>1. HostOK'
    BY <1>9, TypeKept
  <2>2. /\ Waiting' \in Seq(Ops) /\ Len(Waiting') = Len(Waiting) + 1
        /\ \A i \in 1 .. Len(Waiting) : Waiting'[i] = Waiting[i]
        /\ Waiting'[Len(Waiting) + 1] = o
    BY <1>1, <1>2, <1>4, <1>9, WaitingAppends
  <2>3. queue' \in Seq(Ops) /\ \A i \in DOMAIN queue' : queue'[i].kind # "open"
    BY <1>2, <1>4, <1>9 DEF WorkOK
  <2>4. WorkOK'
    BY <1>1, <1>2, <2>3, WorkStays
  <2>5. QED
    BY <1>1, <1>3, <1>4, <1>5, <1>6, <1>9, <2>1, <2>2, <2>4 DEF o
<1>10. CASE /\ ~ HasWork(graphOf[t], FALSE) /\ host' = [host EXCEPT ![graphOf[t]] = After(@, o)]
            /\ UNCHANGED queue
  <2>1. After(host[graphOf[t]], o) \in HostGraphs
    BY <1>3, <1>4, OpsFit, AfterTyped
  <2>2. host' = [host EXCEPT ![graphOf[t]] = After(host[graphOf[t]], o)]
    BY <1>10
  <2>3. /\ HostOK' /\ host'[graphOf[t]] = After(host[graphOf[t]], o)
        /\ \A b \in Addresses \ {graphOf[t]} : host'[b] = host[b]
    BY <1>2, <1>3, <2>1, <2>2, HostMoves
  <2>4. WorkOK'
    BY <1>1, <1>10, TypeKept
  <2>5. QED
    BY <1>1, <1>3, <1>4, <1>5, <1>6, <1>10, <2>3, <2>4 DEF o
<1>11. QED
  BY <1>7, <1>8, <1>9, <1>10

LEMMA SetParameterTyped ==
  ASSUME TypeOK, OwnedOnce, NEW t \in Threads, SetParameter(t)
  PROVE  TypeOK'
<1>1. /\ HandlesOK' /\ HostOK' /\ WorkOK'
      /\ UNCHANGED <<mode, ctx, pc, call, inProgress, template, pool, pending, quarantined>>
  BY SetParameterMoves
<1>2. QED
  BY <1>1, TypeKept, TypePartsNext

LEMMA StepTyped ==
  ASSUME TypeOK, OwnedOnce, OpsOwned, [Next]_vars
  PROVE  TypeOK'
<1>1. CASE Worker
  BY <1>1, TakesOpTyped, PerformsOpTyped, OpDoneTyped, RefillReadsTyped, RefillBuildsTyped,
     RefillStoresTyped DEF Worker
<1>2. ASSUME NEW t \in Threads, Guest(t) PROVE TypeOK'
  <2>1. CASE \/ NewAUGraph(t) \/ Synchronizes(t) \/ Builds(t) \/ Disconnects(t) \/ SetsInput(t)
             \/ Answers(t) \/ OpensUnpooled(t) \/ TakesPooled(t) \/ MissesPool(t)
    BY <2>1, NewAUGraphTyped, SynchronizesTyped, BuildsTyped, DisconnectsTyped, SetsInputTyped,
       AnswersTyped, OpensUnpooledTyped, TakesPooledTyped, MissesPoolTyped
  <2>2. CASE \/ SwapsGraph(t) \/ Initialize(t) \/ Start(t) \/ Stop(t) \/ AddRenderNotify(t)
             \/ TearDown(t) \/ Enqueues(t) \/ PerformsInline(t) \/ SetParameter(t)
    BY <2>2, SwapsGraphTyped, InitializeTyped, StartTyped, StopTyped, AddRenderNotifyTyped,
       TearDownTyped, EnqueuesTyped, PerformsInlineTyped, SetParameterTyped
  <2>3. QED
    BY <1>2, <2>1, <2>2, Zenon DEF Guest
<1>3. CASE UNCHANGED vars
  BY <1>3, TypeKept, TypePartsNext DEF vars, guest, pools, work, history
<1>4. QED
  BY <1>1, <1>2, <1>3 DEF Next

-----------------------------------------------------------------------------
(* Where what is queued and pooled can be *)

\* The worker does nothing to a call, nor to the mode.
LEMMA StepMode ==
  ASSUME TypeOK, OwnedOnce, OpsOwned, [Next]_vars
  PROVE  UNCHANGED mode
<1>1. CASE Worker
  BY <1>1, Zenon DEF Worker, TakesOp, PerformsOp, OpDone, RefillReads, RefillBuilds, RefillStores
<1>2. ASSUME NEW t \in Threads, Guest(t) PROVE UNCHANGED mode
  BY <1>2, Zenon DEF Guest, NewAUGraph, Synchronizes, Builds, Disconnects, SetsInput, Answers,
     OpensUnpooled, TakesPooled, MissesPool, SwapsGraph, Initialize, Start, Stop, AddRenderNotify,
     TearDown, Enqueues, PerformsInline, SetParameter
<1>3. CASE UNCHANGED vars
  BY <1>3 DEF vars
<1>4. QED
  BY <1>1, <1>2, <1>3 DEF Next

LEMMA GuestGoes ==
  ASSUME TypeOK, NEW t \in Threads, Guest(t)
  PROVE  \/ UNCHANGED <<pc, queue, pool, inProgress>>
         \/ Goes(t, "drain", None) /\ UNCHANGED <<queue, pool, inProgress>>
         \/ Goes(t, "run", None) /\ UNCHANGED <<queue, pool, inProgress>>
         \/ \E o : Queues(t, o) /\ UNCHANGED <<queue, pool, inProgress>>
         \/ Deferred /\ UNCHANGED inProgress /\ \E p \in {"run", "swap"} : \E o : Goes(t, p, o)
         \/ Enqueues(t)
         \/ SwapsGraph(t) /\ \E o : Goes(t, "enqueue", o) /\ UNCHANGED <<queue, pool, inProgress>>
         \/ HasWork(graphOf[t], FALSE) /\ UNCHANGED <<pc, pool, inProgress>>
<1>1. CASE NewAUGraph(t)
  BY <1>1 DEF NewAUGraph, pools, work
<1>2. CASE Synchronizes(t) \/ Answers(t)
  BY <1>2 DEF Synchronizes, Answers, pools, work
<1>3. CASE Builds(t) \/ Disconnects(t) \/ SetsInput(t)
  BY <1>3, Zenon DEF Builds, Disconnects, SetsInput, pools, work
<1>4. CASE OpensUnpooled(t)
  BY <1>4 DEF OpensUnpooled, OpensOwn, pools, work
<1>5. CASE TakesPooled(t) \/ MissesPool(t)
  BY <1>5, Zenon DEF TakesPooled, MissesPool, OpensOwn, Poolable
<1>6. CASE SwapsGraph(t)
  BY <1>6 DEF SwapsGraph, pools, work
<1>7. CASE Initialize(t) \/ Start(t) \/ Stop(t) \/ AddRenderNotify(t)
  BY <1>7, Zenon DEF Initialize, Start, Stop, AddRenderNotify, pools, work
<1>8. CASE TearDown(t)
  BY <1>8, Zenon DEF TearDown, pools, work
<1>9. CASE PerformsInline(t)
  BY <1>9, Zenon DEF PerformsInline, pools, work
<1>10. CASE SetParameter(t)
  BY <1>10 DEF SetParameter, guest, pools
<1>11. QED
  BY <1>1, <1>2, <1>3, <1>4, <1>5, <1>6, <1>7, <1>8, <1>9, <1>10, Zenon DEF Guest

LEMMA ModeKeptStep ==
  ASSUME TypeOK, ModeKept, OwnedOnce, OpsOwned, [Next]_vars
  PROVE  ModeKept'
<1>1. UNCHANGED mode /\ CallsOK /\ WorkOK
  BY StepMode, TypeParts
<1>2. CASE Deferred
  <2>1. \A u \in Threads : pc[u] # "inline"
    BY <1>2 DEF ModeKept
  <2>2. CASE UNCHANGED pc
    BY <1>1, <1>2, <2>1, <2>2 DEF ModeKept, Deferred
  <2>3. ASSUME NEW t \in Threads, Guest(t) PROVE \A u \in Threads : pc'[u] # "inline"
    <3>1. CASE \E p \in {"run", "drain", "swap", "enqueue"} : \E o : Goes(t, p, o)
      BY <1>1, <2>1, <3>1 DEF Goes, CallsOK
    <3>2. CASE UNCHANGED pc
      BY <2>1, <3>2
    <3>3. CASE \E o : Queues(t, o)
      BY <1>2, <3>1, <3>3 DEF Queues
    <3>4. CASE Enqueues(t)
      BY <3>1, <3>4 DEF Enqueues
    <3>5. QED
      BY <2>3, <3>1, <3>2, <3>3, <3>4, GuestGoes
  <2>4. CASE Worker
    BY <1>1, <2>2, <2>4, Zenon DEF Worker, TakesOp, PerformsOp, OpDone, RefillReads, RefillBuilds,
       RefillStores, guest
  <2>5. CASE UNCHANGED vars
    BY <2>2, <2>5 DEF vars, guest
  <2>6. QED
    BY <1>1, <1>2, <2>3, <2>4, <2>5 DEF Next, ModeKept, Deferred
<1>3. CASE ~ Deferred
  <2>1. /\ queue = <<>> /\ pool = <<>> /\ inProgress = Idle
        /\ \A u \in Threads : pc[u] \notin {"enqueue", "swap"}
    BY <1>3 DEF ModeKept
  <2>2. ~ Worker
    BY <2>1 DEF Idle, Worker, TakesOp, PerformsOp, OpDone, RefillReads, RefillBuilds, RefillStores
  <2>3. ASSUME NEW t \in Threads, Guest(t)
        PROVE  /\ UNCHANGED <<queue, pool, inProgress>>
               /\ \A u \in Threads : pc'[u] \notin {"enqueue", "swap"}
    <3>1. ~ HasWork(graphOf[t], FALSE)
      BY <2>1 DEF HasWork, Idle
    <3>2. ~ Enqueues(t) /\ ~ SwapsGraph(t)
      BY <2>1 DEF Enqueues, SwapsGraph
    <3>3. CASE \E p \in {"run", "drain", "inline"} : \E o : Goes(t, p, o)
      <4>1. \A u \in Threads : pc'[u] \notin {"enqueue", "swap"}
        BY <1>1, <2>1, <3>3 DEF Goes, CallsOK
      <4>2. QED
        BY <1>3, <2>3, <3>1, <3>2, <4>1, GuestGoes DEF Goes
    <3>4. CASE UNCHANGED <<pc, queue, pool, inProgress>>
      BY <2>1, <3>4
    <3>5. CASE \E o : Queues(t, o)
      BY <1>3, <3>3, <3>5 DEF Queues
    <3>6. QED
      BY <1>3, <2>3, <3>1, <3>2, <3>3, <3>4, <3>5, GuestGoes
  <2>4. CASE UNCHANGED vars
    BY <1>1, <1>3, <2>1, <2>4 DEF vars, guest, pools, work, ModeKept, Deferred
  <2>5. QED
    BY <1>1, <1>3, <2>1, <2>2, <2>3, <2>4 DEF Next, ModeKept, Deferred
<1>4. QED
  BY <1>2, <1>3

\* The worker takes k operations off, and others may be queued.
Slides(k) ==
  /\ k \in {0, 1} /\ k <= Len(Waiting) /\ Waiting \in Seq(Ops) /\ Waiting' \in Seq(Ops)
  /\ Len(Waiting') >= Len(Waiting) - k
  /\ \A i \in 1 .. Len(Waiting) - k : Waiting'[i] = Waiting[i + k]
Added(k) == Len(Waiting) - k + 1 .. Len(Waiting')

LEMMA SlidesSame ==
  ASSUME TypeOK, Waiting' = Waiting
  PROVE  Slides(0) /\ Added(0) = {}
<1>1. Waiting \in Seq(Ops)
  BY TypeParts, WaitingTyped
<1>2. QED
  BY <1>1 DEF Slides, Added

LEMMA SlidesOff ==
  ASSUME TypeOK, inProgress.place = "perform", inProgress'.place # "perform", UNCHANGED queue
  PROVE  Slides(1) /\ Added(1) = {} /\ Waiting[1] = inProgress.op /\ 1 \in DOMAIN Waiting
<1>1. Shifted /\ Waiting \in Seq(Ops) /\ queue \in Seq(Ops)
  BY TypeParts, WaitingTyped, WaitingShifts DEF WorkOK
<1>2. Waiting' = queue /\ Len(Waiting) = Len(Waiting') + 1 /\ Waiting[1] = inProgress.op
      /\ \A i \in 1 .. Len(Waiting') : Waiting'[i] = Waiting[i + 1]
  BY <1>1 DEF Shifted
<1>3. Len(Waiting') \in Nat /\ Waiting' \in Seq(Ops)
  BY <1>1, <1>2
<1>4. Added(1) = {} /\ 1 \in DOMAIN Waiting
  BY <1>1, <1>2, <1>3 DEF Added
<1>5. QED
  BY <1>1, <1>2, <1>3, <1>4 DEF Slides

LEMMA SlidesOn ==
  ASSUME TypeOK, Waiting' \in Seq(Ops), Len(Waiting') >= Len(Waiting),
         \A i \in 1 .. Len(Waiting) : Waiting'[i] = Waiting[i]
  PROVE  Slides(0) /\ Added(0) = Len(Waiting) + 1 .. Len(Waiting')
<1>1. Waiting \in Seq(Ops)
  BY TypeParts, WaitingTyped
<1>2. QED
  BY <1>1 DEF Slides, Added

-----------------------------------------------------------------------------
(* Every graph is in one place *)

PoolOnce(a) == \A i, j \in DOMAIN pool : pool[i] = a /\ pool[j] = a => i = j
WaitingOnce(a) ==
  \A i, j \in DOMAIN Waiting : Disposes(Waiting[i], a) /\ Disposes(Waiting[j], a) => i = j
Apart(a) ==
  /\ \A t, u \in Threads : Holds(t, a) /\ Holds(u, a) => t = u
  /\ \A t \in Threads : Holds(t, a) =>
        ~ (graphOf[t] = a /\ InCall(t, a)) /\ ~ InPool(a) /\ ~ InWaiting(a) /\ inProgress.graph # a
  /\ InPool(a) => ~ InWaiting(a) /\ inProgress.graph # a
  /\ InWaiting(a) => inProgress.graph # a
OwnedAt(a) ==
  /\ Apart(a) /\ PoolOnce(a) /\ WaitingOnce(a)
  /\ Held(a) => host[a] # None
  /\ host[a] # None /\ a \notin quarantined => Held(a)

LEMMA OwnedParts == OwnedOnce <=> \A a \in Addresses : OwnedAt(a)
BY DEF OwnedOnce, OwnedAt, HeldOnce, Apart, PoolOnce, WaitingOnce

LEMMA OwnedPartsNext == (\A a \in Addresses : OwnedAt(a)') => OwnedOnce'
BY DEF OwnedOnce, OwnedAt, HeldOnce, Apart, PoolOnce, WaitingOnce

LEMMA WaitingSame ==
  ASSUME NEW a, NEW k, Slides(k), k = 1 => ~ Disposes(Waiting[1], a),
         \A i \in Added(k) : ~ Disposes(Waiting'[i], a)
  PROVE  (InWaiting(a)' <=> InWaiting(a)) /\ (WaitingOnce(a) => WaitingOnce(a)')
<1>1. ASSUME NEW i \in DOMAIN Waiting', Disposes(Waiting'[i], a)
      PROVE  i + k \in DOMAIN Waiting /\ Disposes(Waiting[i + k], a)
  <2>1. i \in 1 .. Len(Waiting) - k
    BY <1>1 DEF Slides, Added
  <2>2. QED
    BY <1>1, <2>1 DEF Slides
<1>2. ASSUME NEW i \in DOMAIN Waiting, Disposes(Waiting[i], a)
      PROVE  i - k \in DOMAIN Waiting' /\ Disposes(Waiting'[i - k], a)
  <2>1. i - k \in 1 .. Len(Waiting) - k
    BY <1>2 DEF Slides
  <2>2. i - k \in DOMAIN Waiting' /\ (i - k) + k = i
    BY <2>1 DEF Slides
  <2>3. QED
    BY <1>2, <2>1, <2>2 DEF Slides
<1>4. InWaiting(a)' <=> InWaiting(a)
  BY <1>1, <1>2 DEF InWaiting, Disposes
<1>5. ASSUME WaitingOnce(a) PROVE WaitingOnce(a)'
  <2>1. ASSUME NEW i \in DOMAIN Waiting', NEW j \in DOMAIN Waiting',
               Disposes(Waiting'[i], a), Disposes(Waiting'[j], a)
        PROVE  i = j
    <3>1. i + k = j + k
      BY <1>1, <1>5, <2>1 DEF WaitingOnce
    <3>2. QED
      BY <3>1 DEF Slides
  <2>2. QED
    BY <2>1 DEF WaitingOnce, Disposes
<1>6. QED
  BY <1>4, <1>5

LEMMA PoolSame ==
  ASSUME NEW a, UNCHANGED pool
  PROVE  (InPool(a)' <=> InPool(a)) /\ (PoolOnce(a) => PoolOnce(a)')
BY DEF InPool, PoolOnce

\* A graph stays where it is.
LEMMA OwnedStays ==
  ASSUME NEW a \in Addresses, OwnedAt(a),
         \A t \in Threads : (graphOf'[t] = a <=> graphOf[t] = a) /\ (InCall(t, a)' <=> InCall(t, a)),
         InPool(a)' <=> InPool(a), PoolOnce(a) => PoolOnce(a)',
         InWaiting(a)' <=> InWaiting(a), WaitingOnce(a) => WaitingOnce(a)',
         inProgress'.graph = a <=> inProgress.graph = a,
         host'[a] = None <=> host[a] = None, quarantined \subseteq quarantined'
  PROVE  OwnedAt(a)'
<1>1. \A t \in Threads : Holds(t, a)' <=> Holds(t, a)
  BY DEF Holds
<1>2. Apart(a)'
  BY <1>1 DEF OwnedAt, Apart
<1>3. Held(a)' <=> Held(a)
  BY <1>1 DEF Held
<1>4. QED
  BY <1>2, <1>3 DEF OwnedAt

\* A graph leaves the only place where it was, and is none or left for good.
LEMMA OwnedGone ==
  ASSUME NEW a \in Addresses,
         \A t \in Threads : ~ Holds(t, a)', ~ InPool(a)', ~ InWaiting(a)', inProgress'.graph # a,
         host'[a] = None \/ a \in quarantined'
  PROVE  OwnedAt(a)'
<1>1. ~ Held(a)'
  BY DEF Held
<1>2. PoolOnce(a)' /\ WaitingOnce(a)'
  BY DEF PoolOnce, WaitingOnce, InPool, InWaiting
<1>3. Apart(a)'
  BY DEF Apart
<1>4. QED
  BY <1>1, <1>2, <1>3 DEF OwnedAt

\* A thread has it, by its handle or in its call.
LEMMA OwnedByThread ==
  ASSUME NEW a \in Addresses, NEW t \in Threads, Holds(t, a)',
         ~ (graphOf'[t] = a /\ InCall(t, a)'),
         \A u \in Threads \ {t} : ~ Holds(u, a)', ~ InPool(a)', ~ InWaiting(a)',
         inProgress'.graph # a, host'[a] # None
  PROVE  OwnedAt(a)'
<1>1. PoolOnce(a)' /\ WaitingOnce(a)'
  BY DEF PoolOnce, WaitingOnce, InPool, InWaiting
<1>2. Apart(a)'
  BY DEF Apart
<1>3. Held(a)'
  BY DEF Held
<1>4. QED
  BY <1>1, <1>2, <1>3 DEF OwnedAt

LEMMA OwnedByQueue ==
  ASSUME NEW a \in Addresses, InWaiting(a)', WaitingOnce(a)', \A u \in Threads : ~ Holds(u, a)',
         ~ InPool(a)', inProgress'.graph # a, host'[a] # None
  PROVE  OwnedAt(a)'
<1>1. PoolOnce(a)'
  BY DEF PoolOnce, InPool
<1>2. Apart(a)'
  BY DEF Apart
<1>3. Held(a)'
  BY DEF Held
<1>4. QED
  BY <1>1, <1>2, <1>3 DEF OwnedAt

LEMMA OwnedByPool ==
  ASSUME NEW a \in Addresses, InPool(a)', PoolOnce(a)', \A u \in Threads : ~ Holds(u, a)',
         ~ InWaiting(a)', inProgress'.graph # a, host'[a] # None
  PROVE  OwnedAt(a)'
<1>1. WaitingOnce(a)'
  BY DEF WaitingOnce, InWaiting
<1>2. Apart(a)'
  BY DEF Apart
<1>3. Held(a)'
  BY DEF Held
<1>4. QED
  BY <1>1, <1>2, <1>3 DEF OwnedAt

LEMMA OwnedByRefill ==
  ASSUME NEW a \in Addresses, inProgress'.graph = a, \A u \in Threads : ~ Holds(u, a)',
         ~ InPool(a)', ~ InWaiting(a)', host'[a] # None
  PROVE  OwnedAt(a)'
<1>1. PoolOnce(a)' /\ WaitingOnce(a)'
  BY DEF PoolOnce, WaitingOnce, InPool, InWaiting
<1>2. Apart(a)'
  BY DEF Apart
<1>3. Held(a)'
  BY DEF Held
<1>4. QED
  BY <1>1, <1>2, <1>3 DEF OwnedAt

\* Calls that have no graph in hand before nor after.
Still(t) == pc'[t] = pc[t] /\ call'[t] = call[t]
Plainly(t) ==
  /\ pc[t] # "swap" /\ (pc[t] \in {"enqueue", "inline"} => call[t].kind # "dispose")
  /\ pc'[t] # "swap" /\ (pc'[t] \in {"enqueue", "inline"} => call'[t].kind # "dispose")

LEMMA CallSame ==
  ASSUME NEW t, NEW a, Still(t) \/ Plainly(t)
  PROVE  InCall(t, a)' <=> InCall(t, a)
BY DEF Still, Plainly, InCall, Disposes

\* No graph changes hands.
LEMMA OwnedKept ==
  ASSUME OwnedOnce, UNCHANGED <<graphOf, pool>>, inProgress'.graph = inProgress.graph,
         \A t \in Threads : Still(t) \/ Plainly(t),
         NEW k, Slides(k), k = 1 => Waiting[1].kind # "dispose",
         \A i \in Added(k) : Waiting'[i].kind # "dispose",
         \A a \in Addresses : host'[a] = None <=> host[a] = None, quarantined \subseteq quarantined'
  PROVE  OwnedOnce'
<1>1. ASSUME NEW a \in Addresses PROVE OwnedAt(a)'
  <2>1. OwnedAt(a)
    BY OwnedParts
  <2>2. (InWaiting(a)' <=> InWaiting(a)) /\ (WaitingOnce(a) => WaitingOnce(a)')
    BY WaitingSame DEF Disposes
  <2>3. \A t \in Threads : InCall(t, a)' <=> InCall(t, a)
    BY CallSame
  <2>4. QED
    BY <2>1, <2>2, <2>3, PoolSame, OwnedStays
<1>2. QED
  BY <1>1, OwnedPartsNext

LEMMA DoesHost ==
  ASSUME TypeOK, NEW o \in Ops, o.graph \in Addresses, host[o.graph] \in HostGraphs, Does(o)
  PROVE  /\ quarantined \subseteq quarantined'
         /\ \A b \in Addresses \ {o.graph} : host'[b] = host[b]
         /\ o.kind # "dispose" => host'[o.graph] \in HostGraphs
         /\ o.kind = "dispose" => host'[o.graph] = None \/ o.graph \in quarantined'
<1>0. HostOK /\ CtxOK
  BY TypeParts
<1>1. CASE Carries(o)
  BY <1>0, <1>1, CarriesMoves DEF Carries
<1>2. CASE Frees(o)
  BY <1>0, <1>2, FreesMoves DEF Frees
<1>3. CASE Abandons(o)
  BY <1>0, <1>3, AbandonsMoves DEF Abandons
<1>4. CASE Refuses(o)
  BY <1>4 DEF Refuses
<1>5. QED
  BY <1>1, <1>2, <1>3, <1>4 DEF Does

LEMMA DoesMade ==
  ASSUME TypeOK, NEW o \in Ops, o.graph \in Addresses, host[o.graph] \in HostGraphs, Does(o),
         o.kind # "dispose"
  PROVE  \A a \in Addresses : host'[a] = None <=> host[a] = None
BY DoesHost, NoneAssumption

LEMMA PerformsOpMoves ==
  ASSUME TypeOK, OwnedOnce, OpsOwned, PerformsOp
  PROVE  /\ inProgress.op \in Ops /\ inProgress.op.graph \in Addresses
         /\ host[inProgress.op.graph] \in HostGraphs /\ Does(inProgress.op)
         /\ inProgress.op = Waiting[1] /\ 1 \in DOMAIN Waiting /\ Slides(1) /\ Added(1) = {}
         /\ inProgress'.graph = inProgress.graph /\ inProgress.graph = None
         /\ inProgress'.shape = inProgress.shape
         /\ UNCHANGED <<graphOf, topology, pc, call, template, pool, pending>>
<1>1. WorkOK /\ inProgress.place = "perform" /\ UNCHANGED queue
  BY TypeParts DEF PerformsOp
<1>2. /\ inProgress'.place = "done" /\ inProgress'.graph = inProgress.graph
      /\ inProgress'.shape = inProgress.shape /\ inProgress.graph = None
  BY <1>1 DEF PerformsOp, WorkOK
<1>3. Slides(1) /\ Added(1) = {}
  BY <1>1, <1>2, SlidesOff
<1>4. QED
  BY <1>2, <1>3, PerformedOp DEF PerformsOp, guest, pools

LEMMA PerformsOpOwned ==
  ASSUME TypeOK, OwnedOnce, OpsOwned, PerformsOp
  PROVE  OwnedOnce'
<1> DEFINE o == inProgress.op
<1>1. /\ o \in Ops /\ o.graph \in Addresses /\ host[o.graph] \in HostGraphs /\ Does(o)
      /\ o = Waiting[1] /\ 1 \in DOMAIN Waiting /\ Slides(1) /\ Added(1) = {}
      /\ inProgress'.graph = inProgress.graph /\ inProgress.graph = None
      /\ UNCHANGED <<graphOf, pc, call, pool>>
  BY PerformsOpMoves
<1>2. \A t \in Threads : Still(t)
  BY <1>1 DEF Still
<1>3. CASE o.kind # "dispose"
  BY <1>1, <1>2, <1>3, DoesMade, DoesHost, OwnedKept
<1>4. CASE o.kind = "dispose"
  <2>1. /\ quarantined \subseteq quarantined' /\ \A b \in Addresses \ {o.graph} : host'[b] = host[b]
        /\ host'[o.graph] = None \/ o.graph \in quarantined'
    BY <1>1, <1>4, DoesHost
  <2>2. ASSUME NEW a \in Addresses, a # o.graph PROVE OwnedAt(a)'
    <3>1. ~ Disposes(Waiting[1], a)
      BY <1>1, <2>2 DEF Disposes
    <3>2. (InWaiting(a)' <=> InWaiting(a)) /\ (WaitingOnce(a) => WaitingOnce(a)')
      BY <1>1, <3>1, WaitingSame
    <3>3. \A t \in Threads : InCall(t, a)' <=> InCall(t, a)
      BY <1>2, CallSame
    <3>4. OwnedAt(a)
      BY OwnedParts
    <3>5. QED
      BY <1>1, <2>1, <2>2, <3>2, <3>3, <3>4, PoolSame, OwnedStays
  <2>3. ASSUME NEW a \in Addresses, a = o.graph PROVE OwnedAt(a)'
    <3>1. OwnedAt(a) /\ Disposes(Waiting[1], a)
      BY <1>1, <1>4, <2>3, OwnedParts DEF Disposes
    <3>2. InWaiting(a)
      BY <1>1, <3>1 DEF InWaiting
    <3>3. ~ InPool(a) /\ (\A t \in Threads : ~ Holds(t, a)) /\ inProgress.graph # a
      BY <3>1, <3>2 DEF OwnedAt, Apart
    <3>4. ASSUME InWaiting(a)' PROVE FALSE
      <4>1. PICK i \in DOMAIN Waiting' : Disposes(Waiting'[i], a)
        BY <3>4 DEF InWaiting, Disposes
      <4>2. i \in 1 .. Len(Waiting) - 1
        BY <1>1 DEF Slides, Added
      <4>3. Disposes(Waiting[i + 1], a) /\ i + 1 \in DOMAIN Waiting /\ i + 1 # 1
        BY <1>1, <4>1, <4>2 DEF Slides
      <4>4. QED
        BY <1>1, <3>1, <4>3 DEF OwnedAt, WaitingOnce
    <3>5. \A t \in Threads : ~ Holds(t, a)'
      BY <1>1, <1>2, <3>3, CallSame DEF Holds
    <3>6. ~ InPool(a)'
      BY <1>1, <3>3, PoolSame
    <3>7. QED
      BY <1>1, <2>1, <2>3, <3>3, <3>4, <3>5, <3>6, OwnedGone
  <2>4. QED
    BY <2>2, <2>3, OwnedPartsNext
<1>5. QED
  BY <1>3, <1>4

\* A step that only the worker or the waiting thread sees.
Resting(t) ==
  pc[t] \in {"run", "drain"} /\ pc'[t] \in {"run", "drain"} /\ (pc'[t] = "drain" => graphOf[t] # None)
Takes(k) == Slides(k) /\ Added(k) = {} /\ (k = 1 => Waiting[1].kind = "refill" /\ Waiting[1].graph = None)
Quiet ==
  /\ UNCHANGED <<host, ctx, graphOf, topology, template, pool, pending, want, quarantined>>
  /\ inProgress'.graph = inProgress.graph
  /\ inProgress.graph # None => inProgress'.shape = inProgress.shape
  /\ \A t \in Threads : Still(t) \/ Resting(t)
  /\ \E k \in {0, 1} : Takes(k)

LEMMA RestingPlainly ==
  ASSUME NEW t, Resting(t)
  PROVE  Plainly(t)
BY DEF Resting, Plainly

LEMMA TakesNone ==
  ASSUME TypeOK, Waiting' = Waiting
  PROVE  Takes(0)
BY SlidesSame DEF Takes

LEMMA GuestQuiet ==
  ASSUME TypeOK, NEW t \in Threads, Synchronizes(t) \/ Answers(t), graphOf[t] # None
  PROVE  Quiet
<1>1. /\ UNCHANGED <<host, ctx, graphOf, topology, template, pool, pending, want, quarantined>>
      /\ UNCHANGED work /\ inProgress' = inProgress
  BY DEF Synchronizes, Answers, pools, history, work
<1>2. Takes(0)
  BY <1>1, WorkKept, TakesNone
<1>3. pc[t] \in {"run", "drain"} /\ \E p \in {"run", "drain"} : Goes(t, p, None)
  BY DEF Synchronizes, Answers, Has, Begins, Drained
<1>4. PICK p \in {"run", "drain"} : Goes(t, p, None)
  BY <1>3
<1>5. pc'[t] = p /\ \A u \in Threads \ {t} : Still(u)
  BY <1>4, TypeParts, GoesBack DEF Still
<1>6. Resting(t)
  BY <1>3, <1>5 DEF Resting
<1>7. QED
  BY <1>1, <1>2, <1>5, <1>6 DEF Quiet

LEMMA WorkerQuiet ==
  ASSUME TypeOK, TakesOp \/ OpDone \/ RefillReads
  PROVE  Quiet
<1>1. /\ UNCHANGED <<host, ctx, graphOf, topology, template, pool, pending, want, quarantined, pc, call>>
  BY DEF TakesOp, OpDone, RefillReads, pools, history, guest
<1>2. WorkOK /\ \A t \in Threads : Still(t)
  BY <1>1, TypeParts DEF Still
<1>3. CASE TakesOp
  <2>1. Waiting' = Waiting /\ inProgress'.graph = None /\ inProgress.graph = None
    BY <1>2, <1>3, WaitingTaken DEF WorkOK, TakesOp
  <2>2. QED
    BY <1>1, <1>2, <2>1, TakesNone DEF Quiet
<1>4. CASE OpDone
  <2>1. inProgress'.graph = None /\ inProgress.graph = None /\ inProgress.place = "done"
        /\ inProgress'.place = "idle" /\ UNCHANGED queue
    BY <1>2, <1>4 DEF WorkOK, OpDone, FinishesOp, Idle
  <2>2. Waiting' = Waiting
    BY <2>1, WaitingKept
  <2>3. QED
    BY <1>1, <1>2, <2>1, <2>2, TakesNone DEF Quiet
<1>5. CASE RefillReads
  <2>1. /\ inProgress.place = "perform" /\ inProgress.op.kind = "refill" /\ UNCHANGED queue
        /\ inProgress'.place = "build" /\ inProgress'.graph = None /\ inProgress.graph = None
    BY <1>2, <1>5, RefillReadsMoves DEF RefillReads, WorkOK
  <2>2. inProgress.op.graph = None
    BY <1>2, <2>1, FirstWaiting, OpGraph
  <2>3. Slides(1) /\ Added(1) = {} /\ Waiting[1] = inProgress.op
    BY <2>1, SlidesOff
  <2>4. Takes(1)
    BY <2>1, <2>2, <2>3 DEF Takes
  <2>5. QED
    BY <1>1, <1>2, <2>1, <2>4 DEF Quiet
<1>6. QED
  BY <1>3, <1>4, <1>5

LEMMA StutterQuiet ==
  ASSUME TypeOK, UNCHANGED vars
  PROVE  Quiet
<1>1. /\ UNCHANGED <<host, ctx, graphOf, topology, template, pool, pending, want, quarantined, pc, call>>
      /\ UNCHANGED work /\ UNCHANGED inProgress
  BY DEF vars, guest, pools, work, history
<1>2. Takes(0)
  BY <1>1, WorkKept, TakesNone
<1>3. QED
  BY <1>1, <1>2 DEF Quiet, Still

LEMMA QuietOwned ==
  ASSUME OwnedOnce, Quiet
  PROVE  OwnedOnce'
<1>1. PICK k \in {0, 1} : Takes(k)
  BY DEF Quiet
<1>2. Slides(k) /\ (k = 1 => Waiting[1].kind # "dispose") /\ \A i \in Added(k) : Waiting'[i].kind # "dispose"
  BY <1>1 DEF Takes
<1>3. \A t \in Threads : Still(t) \/ Plainly(t)
  BY RestingPlainly DEF Quiet
<1>4. /\ UNCHANGED <<graphOf, pool>> /\ inProgress'.graph = inProgress.graph
      /\ \A a \in Addresses : host'[a] = None <=> host[a] = None
      /\ quarantined \subseteq quarantined'
  BY DEF Quiet
<1>5. QED
  BY <1>2, <1>3, <1>4, OwnedKept

LEMMA InlineOwned ==
  ASSUME TypeOK, ModeKept, OwnedOnce, OpsOwned, NEW t \in Threads, PerformsInline(t)
  PROVE  OwnedOnce'
<1>1. PICK o : o = call[t]
  OBVIOUS
<1>2. /\ o \in Ops /\ o.graph \in Addresses /\ host[o.graph] \in HostGraphs /\ Does(o)
      /\ pc[t] = "inline" /\ pc'[t] = "run" /\ \A u \in Threads \ {t} : Still(u)
      /\ UNCHANGED <<mode, graphOf, queue, inProgress, pool>>
  BY <1>1, InlineMoves DEF Still
<1>3. Slides(0) /\ Added(0) = {}
  BY <1>2, WaitingKept, SlidesSame
<1>4. CASE o.kind # "dispose"
  <2>1. Plainly(t)
    BY <1>1, <1>2, <1>4 DEF Plainly
  <2>2. QED
    BY <1>2, <1>3, <1>4, <2>1, DoesMade, DoesHost, OwnedKept
<1>5. CASE o.kind = "dispose"
  <2>1. /\ quarantined \subseteq quarantined' /\ \A b \in Addresses \ {o.graph} : host'[b] = host[b]
        /\ host'[o.graph] = None \/ o.graph \in quarantined'
    BY <1>2, <1>5, DoesHost
  <2>2. \A a : ~ InCall(t, a)'
    BY <1>2 DEF InCall
  <2>3. ASSUME NEW a \in Addresses
        PROVE  (InWaiting(a)' <=> InWaiting(a)) /\ (WaitingOnce(a) => WaitingOnce(a)')
    BY <1>3, WaitingSame
  <2>4. ASSUME NEW a \in Addresses, a # o.graph PROVE OwnedAt(a)'
    <3>1. ~ InCall(t, a)
      BY <1>1, <1>2, <2>4 DEF InCall, Disposes
    <3>2. \A u \in Threads : InCall(u, a)' <=> InCall(u, a)
      BY <1>2, <2>2, <3>1, CallSame
    <3>3. OwnedAt(a)
      BY OwnedParts
    <3>4. QED
      BY <1>2, <2>1, <2>3, <2>4, <3>2, <3>3, PoolSame, OwnedStays
  <2>5. ASSUME NEW a \in Addresses, a = o.graph PROVE OwnedAt(a)'
    <3>1. OwnedAt(a) /\ InCall(t, a)
      BY <1>1, <1>2, <1>5, <2>5, OwnedParts DEF InCall, Disposes
    <3>2. /\ ~ InPool(a) /\ ~ InWaiting(a) /\ inProgress.graph # a /\ graphOf[t] # a
          /\ \A u \in Threads \ {t} : ~ Holds(u, a)
      BY <3>1 DEF OwnedAt, Apart, Holds
    <3>3. \A u \in Threads \ {t} : ~ Holds(u, a)'
      BY <1>2, <3>2, CallSame DEF Holds
    <3>4. ~ Holds(t, a)'
      BY <1>2, <2>2, <3>2 DEF Holds
    <3>5. QED
      BY <1>2, <2>1, <2>3, <2>5, <3>2, <3>3, <3>4, PoolSame, OwnedGone
  <2>6. QED
    BY <2>4, <2>5, OwnedPartsNext
<1>6. QED
  BY <1>4, <1>5

\* A free address has no owner.
LEMMA FreeApart ==
  ASSUME OwnedOnce, NEW a \in Addresses, host[a] = None
  PROVE  /\ \A t \in Threads : graphOf[t] # a /\ ~ InCall(t, a) /\ ~ Holds(t, a)
         /\ ~ InPool(a) /\ ~ InWaiting(a) /\ inProgress.graph # a
BY FreeIsNotHeld DEF Held, Holds

LEMMA RefillBuildsOwned ==
  ASSUME TypeOK, OwnedOnce, RefillBuilds
  PROVE  OwnedOnce'
<1>1. /\ HostOK' /\ inProgress'.place = "store" /\ inProgress.graph = None
      /\ \/ /\ inProgress'.graph \in Addresses /\ host[inProgress'.graph] = None
            /\ inProgress.shape \in Shapes
            /\ host'[inProgress'.graph] = Built(inProgress.shape)
            /\ \A b \in Addresses \ {inProgress'.graph} : host'[b] = host[b]
         \/ inProgress'.graph = None /\ host' = host
  BY RefillBuildsMoves
<1>2. UNCHANGED <<graphOf, pc, call, pool, queue, quarantined>> /\ inProgress.place = "build"
  BY DEF RefillBuilds, guest, pools, history
<1>3. Waiting' = Waiting
  BY <1>1, <1>2, WaitingKept
<1>4. Slides(0) /\ Added(0) = {} /\ \A t \in Threads : Still(t)
  BY <1>2, <1>3, SlidesSame DEF Still
<1>5. ASSUME NEW a \in Addresses
      PROVE  /\ (InWaiting(a)' <=> InWaiting(a)) /\ (WaitingOnce(a) => WaitingOnce(a)')
             /\ \A t \in Threads : (InCall(t, a)' <=> InCall(t, a)) /\ (Holds(t, a)' <=> Holds(t, a))
  BY <1>2, <1>4, WaitingSame, CallSame DEF Holds
<1>6. ASSUME NEW a \in Addresses, a # inProgress'.graph PROVE OwnedAt(a)'
  <2>1. OwnedAt(a) /\ host'[a] = host[a] /\ inProgress.graph # a
    BY <1>1, <1>6, OwnedParts, NoneAssumption
  <2>2. QED
    BY <1>2, <1>5, <1>6, <2>1, PoolSame, OwnedStays
<1>7. ASSUME NEW a \in Addresses, a = inProgress'.graph PROVE OwnedAt(a)'
  <2>1. host[a] = None /\ host'[a] # None
    BY <1>1, <1>7, BuiltTyped, NoneAssumption
  <2>2. ~ InPool(a) /\ ~ InWaiting(a) /\ \A t \in Threads : ~ Holds(t, a)
    BY <2>1, FreeApart
  <2>3. ~ InPool(a)' /\ ~ InWaiting(a)' /\ \A t \in Threads : ~ Holds(t, a)'
    BY <1>2, <1>5, <2>2, PoolSame
  <2>4. QED
    BY <1>7, <2>1, <2>3, OwnedByRefill
<1>8. QED
  BY <1>6, <1>7, OwnedPartsNext

LEMMA RefillStoresOwned ==
  ASSUME TypeOK, OwnedOnce, RefillStores
  PROVE  OwnedOnce'
<1>1. /\ inProgress'.place = "done" /\ inProgress'.graph = None
      /\ \/ /\ inProgress.graph \in Addresses /\ host' = host /\ pool' = Append(pool, inProgress.graph)
         \/ /\ pool' = pool /\ \A b \in Addresses : host'[b] = IF b = inProgress.graph THEN None ELSE host[b]
  BY RefillStoresMoves
<1>2. UNCHANGED <<graphOf, pc, call, queue, quarantined>> /\ inProgress.place = "store"
  BY DEF RefillStores, guest, history
<1>3. Waiting' = Waiting
  BY <1>1, <1>2, WaitingKept
<1>4. Slides(0) /\ Added(0) = {} /\ \A t \in Threads : Still(t)
  BY <1>2, <1>3, SlidesSame DEF Still
<1>5. ASSUME NEW a \in Addresses
      PROVE  /\ (InWaiting(a)' <=> InWaiting(a)) /\ (WaitingOnce(a) => WaitingOnce(a)')
             /\ \A t \in Threads : (InCall(t, a)' <=> InCall(t, a)) /\ (Holds(t, a)' <=> Holds(t, a))
  BY <1>2, <1>4, WaitingSame, CallSame DEF Holds
<1>6. pool \in Seq(Addresses)
  BY TypeParts DEF PoolOK
<1>7. ASSUME NEW a \in Addresses, a # inProgress.graph PROVE OwnedAt(a)'
  <2>1. OwnedAt(a) /\ host'[a] = host[a] /\ inProgress'.graph # a
    BY <1>1, <1>7, OwnedParts, NoneAssumption
  <2>2. (InPool(a)' <=> InPool(a)) /\ (PoolOnce(a) => PoolOnce(a)')
    <3>1. CASE pool' = pool
      BY <3>1, PoolSame
    <3>2. CASE pool' = Append(pool, inProgress.graph) /\ inProgress.graph \in Addresses
      <4>1. ASSUME NEW i \in DOMAIN pool', pool'[i] = a PROVE i \in DOMAIN pool /\ pool[i] = a
        BY <1>6, <1>7, <3>2, <4>1
      <4>2. ASSUME NEW i \in DOMAIN pool, pool[i] = a PROVE i \in DOMAIN pool' /\ pool'[i] = a
        BY <1>6, <3>2, <4>2
      <4>3. QED
        BY <4>1, <4>2 DEF InPool, PoolOnce
    <3>3. QED
      BY <1>1, <3>1, <3>2
  <2>3. QED
    BY <1>2, <1>5, <1>7, <2>1, <2>2, OwnedStays
<1>8. ASSUME NEW a \in Addresses, a = inProgress.graph PROVE OwnedAt(a)'
  <2>1. OwnedAt(a) /\ host[a] # None
    BY <1>8, OwnedParts DEF OwnedAt, Held
  <2>2. ~ InPool(a) /\ ~ InWaiting(a) /\ \A t \in Threads : ~ Holds(t, a)
    BY <1>8, <2>1 DEF OwnedAt, Apart
  <2>3. ~ InWaiting(a)' /\ (\A t \in Threads : ~ Holds(t, a)') /\ inProgress'.graph # a
    BY <1>1, <1>5, <2>2, NoneAssumption
  <2>4. CASE pool' = pool /\ host'[a] = None
    BY <2>2, <2>3, <2>4, PoolSame, OwnedGone
  <2>5. CASE pool' = Append(pool, a) /\ host' = host
    <3>1. Len(pool) + 1 \in DOMAIN pool' /\ pool'[Len(pool) + 1] = a
      BY <1>6, <2>5
    <3>2. ASSUME NEW i \in DOMAIN pool', pool'[i] = a PROVE i = Len(pool) + 1
      BY <1>6, <2>2, <2>5, <3>2 DEF InPool
    <3>3. InPool(a)' /\ PoolOnce(a)'
      BY <3>1, <3>2 DEF InPool, PoolOnce
    <3>4. QED
      BY <2>1, <2>3, <2>5, <3>3, OwnedByPool
  <2>6. QED
    BY <1>1, <1>8, <2>4, <2>5
<1>9. QED
  BY <1>7, <1>8, OwnedPartsNext

LEMMA NewAUGraphOwned ==
  ASSUME TypeOK, OwnedOnce, NEW t \in Threads, NewAUGraph(t)
  PROVE  OwnedOnce'
<1>1. /\ pc[t] = "run" /\ graphOf[t] = None
      /\ graphOf'[t] \in Addresses /\ host[graphOf'[t]] = None /\ host'[graphOf'[t]] = Fresh
      /\ \A b \in Addresses \ {graphOf'[t]} : host'[b] = host[b]
      /\ \A u \in Threads \ {t} : graphOf'[u] = graphOf[u]
  BY NewAUGraphMoves
<1>2. UNCHANGED <<pc, call, pool, work, quarantined>> /\ inProgress' = inProgress
  BY DEF NewAUGraph, pools, work
<1>3. Slides(0) /\ Added(0) = {} /\ \A u \in Threads : Still(u)
  BY <1>2, WorkKept, SlidesSame DEF Still
<1>4. ASSUME NEW a \in Addresses
      PROVE  /\ (InWaiting(a)' <=> InWaiting(a)) /\ (WaitingOnce(a) => WaitingOnce(a)')
             /\ \A u \in Threads : InCall(u, a)' <=> InCall(u, a)
  BY <1>3, WaitingSame, CallSame
<1>5. ASSUME NEW a \in Addresses, a # graphOf'[t] PROVE OwnedAt(a)'
  <2>1. OwnedAt(a) /\ host'[a] = host[a] /\ \A u \in Threads : graphOf'[u] = a <=> graphOf[u] = a
    BY <1>1, <1>5, OwnedParts, NoneAssumption
  <2>2. QED
    BY <1>2, <1>4, <1>5, <2>1, PoolSame, OwnedStays
<1>6. ASSUME NEW a \in Addresses, a = graphOf'[t] PROVE OwnedAt(a)'
  <2>1. host[a] = None /\ host'[a] # None
    BY <1>1, <1>6, FreshTyped
  <2>2. /\ ~ InPool(a) /\ ~ InWaiting(a) /\ inProgress.graph # a
        /\ \A u \in Threads : graphOf[u] # a /\ ~ InCall(u, a)
    BY <2>1, FreeApart
  <2>3. ~ InPool(a)' /\ ~ InWaiting(a)' /\ inProgress'.graph # a
    BY <1>2, <1>4, <2>2, PoolSame
  <2>4. (\A u \in Threads \ {t} : ~ Holds(u, a)') /\ Holds(t, a)' /\ ~ (graphOf'[t] = a /\ InCall(t, a)')
    BY <1>1, <1>4, <1>6, <2>2 DEF Holds
  <2>5. QED
    BY <2>1, <2>3, <2>4, OwnedByThread
<1>7. QED
  BY <1>5, <1>6, OwnedPartsNext

LEMMA SwapsGraphOwned ==
  ASSUME TypeOK, OwnedOnce, OpsOwned, NEW t \in Threads, SwapsGraph(t)
  PROVE  OwnedOnce'
<1>1. PICK a, b : a = graphOf[t] /\ b = call[t].graph
  OBVIOUS
<1>2. /\ pc[t] = "swap" /\ pc'[t] = "enqueue" /\ b \in Addresses /\ host[b] \in HostGraphs
      /\ a \in Addresses /\ InCall(t, b) /\ call'[t] = Op("dispose", a, None) /\ graphOf'[t] = b
      /\ \A u \in Threads \ {t} : Still(u) /\ graphOf'[u] = graphOf[u]
      /\ UNCHANGED <<host, queue, inProgress, pool, quarantined>>
  BY <1>1, SwapsGraphMoves DEF Still
<1>3. Slides(0) /\ Added(0) = {}
  BY <1>2, WaitingKept, SlidesSame
<1>4. ASSUME NEW x \in Addresses
      PROVE  /\ (InWaiting(x)' <=> InWaiting(x)) /\ (WaitingOnce(x) => WaitingOnce(x)')
             /\ \A u \in Threads \ {t} : (InCall(u, x)' <=> InCall(u, x)) /\ (Holds(u, x)' <=> Holds(u, x))
  BY <1>2, <1>3, WaitingSame, CallSame DEF Holds
<1>5. call'[t].kind = "dispose" /\ call'[t].graph = a
  BY <1>2, OpIs
<1>6. \A x : InCall(t, x)' <=> x = a
  BY <1>2, <1>5 DEF InCall, Disposes
<1>7. \A x : InCall(t, x) <=> x = b
  BY <1>1, <1>2 DEF InCall, Disposes
<1>8. a # b
  BY <1>1, <1>2, OwnedParts DEF OwnedAt, Apart, Holds
<1>9. ASSUME NEW x \in Addresses, x \notin {a, b} PROVE OwnedAt(x)'
  <2>1. \A u \in Threads : (graphOf'[u] = x <=> graphOf[u] = x) /\ (InCall(u, x)' <=> InCall(u, x))
    BY <1>1, <1>2, <1>4, <1>6, <1>7, <1>9
  <2>2. OwnedAt(x)
    BY OwnedParts
  <2>3. QED
    BY <1>2, <1>4, <2>1, <2>2, PoolSame, OwnedStays
<1>10. ASSUME NEW x \in Addresses, x \in {a, b} PROVE OwnedAt(x)'
  <2>1. OwnedAt(x) /\ Holds(t, x)
    BY <1>1, <1>2, <1>10, OwnedParts DEF Holds
  <2>2. /\ ~ InPool(x) /\ ~ InWaiting(x) /\ inProgress.graph # x /\ host[x] # None
        /\ \A u \in Threads \ {t} : ~ Holds(u, x)
    BY <2>1 DEF OwnedAt, Apart, Held
  <2>3. Holds(t, x)' /\ ~ (graphOf'[t] = x /\ InCall(t, x)')
    BY <1>2, <1>6, <1>8, <1>10 DEF Holds
  <2>4. QED
    BY <1>2, <1>4, <2>2, <2>3, PoolSame, OwnedByThread
<1>11. QED
  BY <1>9, <1>10, OwnedPartsNext

LEMMA DropsOwned ==
  ASSUME TypeOK, OwnedOnce, NEW t \in Threads, graphOf[t] \in Addresses, pc[t] = "run", Drops(t),
         UNCHANGED <<host, queue, inProgress, pool, quarantined>>
  PROVE  OwnedOnce'
<1>1. PICK a : a = graphOf[t]
  OBVIOUS
<1>2. /\ pc'[t] \in {"enqueue", "inline"} /\ call'[t] = Op("dispose", a, None) /\ graphOf'[t] = None
      /\ \A u \in Threads \ {t} : Still(u) /\ graphOf'[u] = graphOf[u]
  BY <1>1, DropsMoves DEF Still
<1>3. Slides(0) /\ Added(0) = {}
  BY WaitingKept, SlidesSame
<1>4. ASSUME NEW x \in Addresses
      PROVE  /\ (InWaiting(x)' <=> InWaiting(x)) /\ (WaitingOnce(x) => WaitingOnce(x)')
             /\ \A u \in Threads \ {t} : (InCall(u, x)' <=> InCall(u, x)) /\ (Holds(u, x)' <=> Holds(u, x))
  BY <1>2, <1>3, WaitingSame, CallSame DEF Holds
<1>5. call'[t].kind = "dispose" /\ call'[t].graph = a
  BY <1>2, OpIs
<1>6. \A x : (InCall(t, x)' <=> x = a) /\ ~ InCall(t, x)
  BY <1>2, <1>5 DEF InCall, Disposes
<1>7. ASSUME NEW x \in Addresses, x # a PROVE OwnedAt(x)'
  <2>1. \A u \in Threads : (graphOf'[u] = x <=> graphOf[u] = x) /\ (InCall(u, x)' <=> InCall(u, x))
    BY <1>1, <1>2, <1>4, <1>6, <1>7, NoneAssumption
  <2>2. OwnedAt(x)
    BY OwnedParts
  <2>3. QED
    BY <1>4, <2>1, <2>2, PoolSame, OwnedStays
<1>8. ASSUME NEW x \in Addresses, x = a PROVE OwnedAt(x)'
  <2>1. OwnedAt(x) /\ Holds(t, x)
    BY <1>1, <1>8, OwnedParts DEF Holds
  <2>2. /\ ~ InPool(x) /\ ~ InWaiting(x) /\ inProgress.graph # x /\ host[x] # None
        /\ \A u \in Threads \ {t} : ~ Holds(u, x)
    BY <2>1 DEF OwnedAt, Apart, Held
  <2>3. Holds(t, x)' /\ ~ (graphOf'[t] = x /\ InCall(t, x)')
    BY <1>2, <1>6, <1>8, NoneAssumption DEF Holds
  <2>4. QED
    BY <1>4, <2>2, <2>3, PoolSame, OwnedByThread
<1>9. QED
  BY <1>7, <1>8, OwnedPartsNext

LEMMA AsksOwned ==
  ASSUME TypeOK, OwnedOnce, NEW t \in Threads, graphOf[t] # None, pc[t] = "run", NEW o, Asks(t, o),
         UNCHANGED <<host, graphOf, queue, inProgress, pool, quarantined>>
  PROVE  OwnedOnce'
<1>1. /\ call'[t] = o /\ o.kind # "dispose" /\ pc'[t] \in {"enqueue", "inline"}
      /\ \A u \in Threads \ {t} : Still(u)
  BY AsksMoves DEF Asks, Still
<1>2. Slides(0) /\ Added(0) = {}
  BY WaitingKept, SlidesSame
<1>3. Plainly(t)
  BY <1>1 DEF Plainly
<1>4. QED
  BY <1>1, <1>2, <1>3, OwnedKept

LEMMA TearDownOwned ==
  ASSUME TypeOK, OwnedOnce, NEW t \in Threads, TearDown(t)
  PROVE  OwnedOnce'
<1>1. UNCHANGED <<host, queue, inProgress, pool, quarantined>>
  BY DEF TearDown, pools, work
<1>2. graphOf[t] \in Addresses /\ graphOf[t] # None /\ pc[t] = "run"
  BY TearDownMoves, NoneAssumption DEF Begins
<1>3. CASE Drops(t)
  BY <1>1, <1>2, <1>3, DropsOwned
<1>4. CASE /\ UNCHANGED <<graphOf, topology>>
           /\ \E k \in {"uninitialize", "close"} : Asks(t, Op(k, graphOf[t], None))
  BY <1>1, <1>2, <1>4, AsksOwned
<1>5. QED
  BY <1>3, <1>4, TearDownMoves

LEMMA QueuesOwned ==
  ASSUME TypeOK, OwnedOnce, NEW t \in Threads,
         Initialize(t) \/ Start(t) \/ Stop(t) \/ AddRenderNotify(t)
  PROVE  OwnedOnce'
<1>1. UNCHANGED <<host, graphOf, queue, inProgress, pool, quarantined>>
  BY DEF Initialize, Start, Stop, AddRenderNotify, pools, work
<1>2. Has(t) /\ \E o : Asks(t, o)
  BY InitializeMoves, StartMoves, StopMoves, AddRenderNotifyMoves
<1>3. graphOf[t] # None /\ pc[t] = "run"
  BY <1>2 DEF Has, Begins
<1>4. QED
  BY <1>1, <1>2, <1>3, AsksOwned

LEMMA EnqueuesOwned ==
  ASSUME TypeOK, OwnedOnce, OpsOwned, NEW t \in Threads, Enqueues(t)
  PROVE  OwnedOnce'
<1>1. PICK o : o = call[t]
  OBVIOUS
<1>2. /\ pc[t] = "enqueue" /\ pc'[t] = "run" /\ o \in Ops /\ \A u \in Threads \ {t} : Still(u)
      /\ Waiting' \in Seq(Ops) /\ Len(Waiting') = Len(Waiting) + 1
      /\ \A i \in 1 .. Len(Waiting) : Waiting'[i] = Waiting[i]
      /\ Waiting'[Len(Waiting) + 1] = o
  BY <1>1, EnqueuesMoves DEF Still
<1>3. UNCHANGED <<host, graphOf, pool, inProgress, quarantined>>
  BY DEF Enqueues, pools, history
<1>4. Waiting \in Seq(Ops)
  BY TypeParts, WaitingTyped
<1>5. Slides(0) /\ Added(0) = {Len(Waiting) + 1}
  BY <1>2, <1>4, SlidesOn
<1>6. CASE o.kind # "dispose"
  <2>1. Plainly(t)
    BY <1>1, <1>2, <1>6 DEF Plainly
  <2>2. QED
    BY <1>2, <1>3, <1>5, <1>6, <2>1, OwnedKept
<1>7. CASE o.kind = "dispose"
  <2>1. \A x : ~ InCall(t, x)' /\ (InCall(t, x) <=> x = o.graph)
    BY <1>1, <1>2, <1>7 DEF InCall, Disposes
  <2>2. ASSUME NEW a \in Addresses, a # o.graph PROVE OwnedAt(a)'
    <3>1. ~ Disposes(Waiting'[Len(Waiting) + 1], a)
      BY <1>2, <2>2 DEF Disposes
    <3>2. (InWaiting(a)' <=> InWaiting(a)) /\ (WaitingOnce(a) => WaitingOnce(a)')
      BY <1>5, <3>1, WaitingSame
    <3>3. \A u \in Threads : InCall(u, a)' <=> InCall(u, a)
      BY <1>2, <2>1, <2>2, CallSame
    <3>4. OwnedAt(a)
      BY OwnedParts
    <3>5. QED
      BY <1>3, <3>2, <3>3, <3>4, PoolSame, OwnedStays
  <2>3. ASSUME NEW a \in Addresses, a = o.graph PROVE OwnedAt(a)'
    <3>1. OwnedAt(a) /\ InCall(t, a)
      BY <2>1, <2>3, OwnedParts
    <3>2. /\ ~ InPool(a) /\ ~ InWaiting(a) /\ inProgress.graph # a /\ graphOf[t] # a
          /\ (\A u \in Threads \ {t} : ~ Holds(u, a)) /\ host[a] # None
      BY <3>1 DEF OwnedAt, Apart, Holds, Held
    <3>3. \A u \in Threads : ~ Holds(u, a)'
      <4>1. \A u \in Threads \ {t} : ~ Holds(u, a)'
        BY <1>2, <1>3, <3>2, CallSame DEF Holds
      <4>2. ~ Holds(t, a)'
        BY <1>3, <2>1, <3>2 DEF Holds
      <4>3. QED
        BY <4>1, <4>2
    <3>4. Disposes(Waiting'[Len(Waiting) + 1], a) /\ Len(Waiting) + 1 \in DOMAIN Waiting'
      BY <1>2, <1>4, <1>7, <2>3 DEF Disposes
    <3>5. \A i \in DOMAIN Waiting' : Disposes(Waiting'[i], a) => i = Len(Waiting) + 1
      BY <1>2, <1>4, <3>2 DEF InWaiting
    <3>6. InWaiting(a)' /\ WaitingOnce(a)'
      BY <3>4, <3>5 DEF InWaiting, WaitingOnce, Disposes
    <3>7. QED
      BY <1>3, <3>2, <3>3, <3>6, PoolSame, OwnedByQueue
  <2>4. QED
    BY <2>2, <2>3, OwnedPartsNext
<1>8. QED
  BY <1>6, <1>7

LEMMA SetParameterOwned ==
  ASSUME TypeOK, OwnedOnce, NEW t \in Threads, SetParameter(t)
  PROVE  OwnedOnce'
<1>1. PICK o : o = Op("parameter", graphOf[t], TRUE)
  OBVIOUS
<1>2. /\ graphOf[t] \in Addresses /\ host[graphOf[t]] \in HostGraphs /\ o \in Ops
      /\ UNCHANGED <<graphOf, pc, call, inProgress, pool, quarantined>>
      /\ \/ UNCHANGED <<host, queue>>
         \/ /\ UNCHANGED host /\ Waiting' \in Seq(Ops) /\ Len(Waiting') = Len(Waiting) + 1
            /\ \A i \in 1 .. Len(Waiting) : Waiting'[i] = Waiting[i]
            /\ Waiting'[Len(Waiting) + 1] = o
         \/ /\ UNCHANGED queue /\ host'[graphOf[t]] = After(host[graphOf[t]], o)
            /\ \A b \in Addresses \ {graphOf[t]} : host'[b] = host[b]
  BY <1>1, SetParameterMoves
<1>3. o.kind = "parameter"
  BY <1>1 DEF Op
<1>4. \A u \in Threads : Still(u)
  BY <1>2 DEF Still
<1>5. \E k : Slides(k) /\ k = 0 /\ \A i \in Added(k) : Waiting'[i].kind # "dispose"
  <2>1. CASE UNCHANGED queue
    BY <1>2, <2>1, WaitingKept, SlidesSame
  <2>2. CASE /\ Waiting' \in Seq(Ops) /\ Len(Waiting') = Len(Waiting) + 1
             /\ \A i \in 1 .. Len(Waiting) : Waiting'[i] = Waiting[i]
             /\ Waiting'[Len(Waiting) + 1] = o
    <3>1. Waiting \in Seq(Ops)
      BY TypeParts, WaitingTyped
    <3>2. Slides(0) /\ Added(0) = {Len(Waiting) + 1}
      BY <2>2, <3>1, SlidesOn
    <3>3. QED
      BY <1>3, <2>2, <3>2
  <2>3. QED
    BY <1>2, <2>1, <2>2
<1>6. \A a \in Addresses : host'[a] = None <=> host[a] = None
  <2>1. After(host[graphOf[t]], o) \in HostGraphs
    BY <1>2, OpsFit, AfterTyped
  <2>2. QED
    BY <1>2, <2>1, NoneAssumption
<1>7. QED
  BY <1>2, <1>4, <1>5, <1>6, OwnedKept

-----------------------------------------------------------------------------
(* What the calls that find the queue drained have in common *)

\* The thread's graph and what it wants of it change alike, or not at all; its
\* callback may be given one context, and nothing is queued but refills and
\* the disposal of what was pooled.
Alters(t) ==
  /\ Drained(t) /\ UNCHANGED <<graphOf, quarantined, inProgress>>
  /\ pc'[t] = "run" /\ \A u \in Threads \ {t} : Still(u)
  /\ \/ UNCHANGED <<host, want, ctx>>
     \/ /\ \E o : Fitting(o) /\ Makes(t, o) /\ o.kind \in {"nodes", "connections", "disconnect", "open"}
        /\ UNCHANGED ctx
     \/ \E o : Fitting(o) /\ Makes(t, o) /\ o.kind = "input" /\ Gives(t, o.arg)

LEMMA AltersMoves ==
  ASSUME TypeOK, OwnedOnce, OpsOwned, NEW t \in Threads,
         \/ Builds(t) \/ Disconnects(t) \/ SetsInput(t) \/ OpensUnpooled(t) \/ MissesPool(t)
  PROVE  Alters(t)
<1>1. CASE Builds(t)
  <2>1. Goes(t, "run", None) /\ Drained(t) /\ UNCHANGED <<graphOf, quarantined, inProgress, ctx>>
    BY <1>1, BuildsMoves DEF Builds, work
  <2>2. \/ UNCHANGED <<host, want>>
        \/ \E o : Fitting(o) /\ Makes(t, o) /\ o.kind \in {"nodes", "connections", "disconnect", "open"}
    BY <1>1, BuildsMoves, Zenon DEF Adds
  <2>3. pc'[t] = "run" /\ \A u \in Threads \ {t} : Still(u)
    BY <2>1, TypeParts, GoesBack DEF Still
  <2>4. QED
    BY <2>1, <2>2, <2>3, Zenon DEF Alters
<1>2. CASE Disconnects(t)
  <2>1. Goes(t, "run", None) /\ Drained(t) /\ UNCHANGED <<graphOf, quarantined, inProgress, ctx>>
    BY <1>2, DisconnectsMoves DEF Disconnects, work
  <2>2. \E o : Fitting(o) /\ Makes(t, o) /\ o.kind \in {"nodes", "connections", "disconnect", "open"}
    BY <1>2, DisconnectsMoves DEF Adds
  <2>3. pc'[t] = "run" /\ \A u \in Threads \ {t} : Still(u)
    BY <2>1, TypeParts, GoesBack DEF Still
  <2>4. QED
    BY <2>1, <2>2, <2>3, Zenon DEF Alters
<1>3. CASE SetsInput(t)
  <2>1. Goes(t, "run", None) /\ Drained(t) /\ UNCHANGED <<graphOf, quarantined, inProgress>>
    BY <1>3, SetsInputMoves DEF SetsInput, work
  <2>2. \/ UNCHANGED <<host, want, ctx>>
        \/ \E o : Fitting(o) /\ Makes(t, o) /\ o.kind = "input" /\ Gives(t, o.arg)
    <3>1. ASSUME NEW c \in Callbacks, Gives(t, c), Makes(t, Op("input", graphOf[t], c))
          PROVE  \E o : Fitting(o) /\ Makes(t, o) /\ o.kind = "input" /\ Gives(t, o.arg)
      <4>1. PICK o : o = Op("input", graphOf[t], c)
        OBVIOUS
      <4>2. o.kind = "input" /\ o.arg = c
        BY <4>1, OpIs
      <4>3. Fitting(o)
        BY <4>2 DEF Fitting
      <4>4. QED
        BY <3>1, <4>1, <4>2, <4>3
    <3>2. QED
      BY <1>3, <3>1, SetsInputMoves
  <2>3. pc'[t] = "run" /\ \A u \in Threads \ {t} : Still(u)
    BY <2>1, TypeParts, GoesBack DEF Still
  <2>4. QED
    BY <2>1, <2>2, <2>3, Zenon DEF Alters
<1>4. CASE OpensUnpooled(t) \/ MissesPool(t)
  <2>1. OpensOwn(t) /\ Drained(t) /\ UNCHANGED <<graphOf, quarantined, inProgress, ctx>>
    BY <1>4, MissesPoolMoves DEF OpensUnpooled, MissesPool, Opens, work
  <2>2. \E o : Fitting(o) /\ Makes(t, o) /\ o.kind \in {"nodes", "connections", "disconnect", "open"}
    BY <2>1, OpensMoves DEF Adds
  <2>3. pc'[t] = "run" /\ \A u \in Threads \ {t} : Still(u)
    BY <2>1, OpensMoves, TypeParts, GoesBack DEF Still
  <2>4. QED
    BY <2>1, <2>2, <2>3, Zenon DEF Alters
<1>5. QED
  BY <1>1, <1>2, <1>3, <1>4

LEMMA AltersHost ==
  ASSUME TypeOK, OwnedOnce, OpsOwned, NEW t \in Threads, Alters(t)
  PROVE  /\ pc[t] = "drain" /\ pc'[t] = "run" /\ graphOf[t] \in Addresses
         /\ host[graphOf[t]] \in HostGraphs /\ want[t] \in HostGraphs
         /\ \A i \in 1 .. Len(Waiting) : Waiting[i].graph # graphOf[t]
         /\ \A b \in Addresses \ {graphOf[t]} : host'[b] = host[b]
         /\ host'[graphOf[t]] \in HostGraphs /\ want'[t] \in HostGraphs
         /\ \A u \in Threads \ {t} : want'[u] = want[u]
         /\ \A a \in Addresses : host'[a] = None <=> host[a] = None
<1>1. /\ pc[t] = "drain" /\ graphOf[t] # None /\ graphOf[t] \in Addresses
      /\ host[graphOf[t]] \in HostGraphs /\ want[t] \in HostGraphs
      /\ \A i \in 1 .. Len(Waiting) : Waiting[i].graph # graphOf[t]
  BY DrainedHas DEF Alters
<1>2. CASE UNCHANGED <<host, want>>
  BY <1>1, <1>2 DEF Alters
<1>3. ASSUME NEW o, Fitting(o), Makes(t, o)
      PROVE  /\ \A b \in Addresses \ {graphOf[t]} : host'[b] = host[b]
             /\ host'[graphOf[t]] \in HostGraphs /\ want'[t] \in HostGraphs
             /\ \A u \in Threads \ {t} : want'[u] = want[u]
  BY <1>1, <1>3, MakesMoves
<1>4. /\ \A b \in Addresses \ {graphOf[t]} : host'[b] = host[b]
      /\ host'[graphOf[t]] \in HostGraphs /\ want'[t] \in HostGraphs
      /\ \A u \in Threads \ {t} : want'[u] = want[u]
  BY <1>1, <1>2, <1>3 DEF Alters
<1>5. QED
  BY <1>1, <1>4, NoneAssumption DEF Alters

LEMMA AltersOwned ==
  ASSUME TypeOK, OwnedOnce, OpsOwned, NEW t \in Threads, Alters(t), UNCHANGED pool,
         Slides(0), \A i \in Added(0) : Waiting'[i].kind = "refill"
  PROVE  OwnedOnce'
<1>1. /\ pc[t] = "drain" /\ pc'[t] = "run" /\ UNCHANGED <<graphOf, quarantined, inProgress>>
      /\ (\A u \in Threads \ {t} : Still(u)) /\ \A a \in Addresses : host'[a] = None <=> host[a] = None
  BY AltersHost DEF Alters
<1>2. Plainly(t)
  BY <1>1 DEF Plainly
<1>3. QED
  BY <1>1, <1>2, OwnedKept

LEMMA BuildingWaits ==
  ASSUME TypeOK, NEW t \in Threads,
         Builds(t) \/ Disconnects(t) \/ SetsInput(t) \/ OpensUnpooled(t)
  PROVE  /\ UNCHANGED <<pool, pending, template>> /\ Slides(0) /\ Added(0) = {} /\ Waiting' = Waiting
<1>1. UNCHANGED <<pool, pending, template>> /\ UNCHANGED work
  BY DEF Builds, Disconnects, SetsInput, OpensUnpooled, pools
<1>2. QED
  BY <1>1, WorkKept, SlidesSame

\* What a miss leaves in the queue behind what waits.
LEMMA MissesWaits ==
  ASSUME TypeOK, OwnedOnce, OpsOwned, NEW t \in Threads, MissesPool(t)
  PROVE  /\ Slides(0) /\ Added(0) = Len(Waiting) + 1 .. Len(Waiting') /\ Waiting \in Seq(Ops)
         /\ \/ /\ pool' = pool /\ template'.shape = template.shape
               /\ \A i \in Added(0) : Waiting'[i].kind = "refill" /\ Waiting'[i].graph = None
            \/ /\ pool' = <<>> /\ Len(Waiting') >= Len(Waiting) + Len(pool)
               /\ \A i \in 1 .. Len(pool) :
                    /\ Waiting'[Len(Waiting) + i].kind = "dispose"
                    /\ Waiting'[Len(Waiting) + i].graph = pool[i]
               /\ \A i \in Len(Waiting) + Len(pool) + 1 .. Len(Waiting') :
                    Waiting'[i].kind = "refill" /\ Waiting'[i].graph = None
<1>1. Waiting \in Seq(Ops) /\ pool \in Seq(Addresses)
  BY TypeParts, WaitingTyped DEF PoolOK
<1>2. Len(pool) \in Nat /\ Len(Waiting) \in Nat
  BY <1>1
<1>3. /\ Waiting' \in Seq(Ops) /\ Len(Waiting') >= Len(Waiting)
      /\ \A i \in 1 .. Len(Waiting) : Waiting'[i] = Waiting[i]
  BY <1>2, MissesPoolMoves
<1>4. Slides(0) /\ Added(0) = Len(Waiting) + 1 .. Len(Waiting')
  BY <1>3, SlidesOn
<1>5. \/ /\ pool' = pool /\ template'.shape = template.shape
         /\ \A i \in Added(0) : Waiting'[i].kind = "refill" /\ Waiting'[i].graph = None
      \/ /\ pool' = <<>> /\ Len(Waiting') >= Len(Waiting) + Len(pool)
         /\ \A i \in 1 .. Len(pool) : Waiting'[Len(Waiting) + i] = Op("dispose", pool[i], None)
         /\ \A i \in Len(Waiting) + Len(pool) + 1 .. Len(Waiting') :
              Waiting'[i].kind = "refill" /\ Waiting'[i].graph = None
  BY <1>4, MissesPoolMoves
<1>6. QED
  BY SMTT(30), <1>1, <1>4, <1>5, OpIs

LEMMA MissesPoolOwned ==
  ASSUME TypeOK, OwnedOnce, OpsOwned, NEW t \in Threads, MissesPool(t)
  PROVE  OwnedOnce'
<1>1. Alters(t)
  BY AltersMoves
<1>2. Slides(0) /\ Added(0) = Len(Waiting) + 1 .. Len(Waiting') /\ Waiting \in Seq(Ops)
  BY MissesWaits
<1>3. CASE pool' = pool /\ \A i \in Added(0) : Waiting'[i].kind = "refill"
  BY <1>1, <1>2, <1>3, AltersOwned
<1>4. CASE /\ pool' = <<>> /\ Len(Waiting') >= Len(Waiting) + Len(pool)
           /\ \A i \in 1 .. Len(pool) : /\ Waiting'[Len(Waiting) + i].kind = "dispose"
                                        /\ Waiting'[Len(Waiting) + i].graph = pool[i]
           /\ \A i \in Len(Waiting) + Len(pool) + 1 .. Len(Waiting') : Waiting'[i].kind = "refill"
  <2>1. pool \in Seq(Addresses) /\ Len(pool) \in Nat /\ DOMAIN pool = 1 .. Len(pool)
    BY TypeParts DEF PoolOK
  <2>2. /\ pc[t] = "drain" /\ pc'[t] = "run" /\ UNCHANGED <<graphOf, quarantined, inProgress>>
        /\ (\A u \in Threads \ {t} : Still(u)) /\ \A a \in Addresses : host'[a] = None <=> host[a] = None
    BY <1>1, AltersHost DEF Alters
  <2>3. ASSUME NEW i \in Added(0), NEW a, Disposes(Waiting'[i], a)
        PROVE  i - Len(Waiting) \in DOMAIN pool /\ pool[i - Len(Waiting)] = a
    <3>1. i - Len(Waiting) \in 1 .. Len(pool)
      <4>1. Len(Waiting) \in Nat /\ Len(Waiting') \in Nat /\ i \in Len(Waiting) + 1 .. Len(Waiting')
        BY <1>2, <2>3 DEF Slides
      <4>2. i \notin Len(Waiting) + Len(pool) + 1 .. Len(Waiting')
        BY <1>4, <2>3 DEF Disposes
      <4>3. QED
        BY <2>1, <4>1, <4>2
    <3>2. Waiting'[Len(Waiting) + (i - Len(Waiting))].graph = pool[i - Len(Waiting)]
          /\ Len(Waiting) + (i - Len(Waiting)) = i
      BY <1>2, <1>4, <3>1
    <3>3. QED
      BY <2>1, <2>3, <3>1, <3>2 DEF Disposes
  <2>4. ASSUME NEW a \in Addresses PROVE OwnedAt(a)'
    <3>1. OwnedAt(a)
      BY OwnedParts
    <3>2. \A u \in Threads : (InCall(u, a)' <=> InCall(u, a)) /\ (Holds(u, a)' <=> Holds(u, a))
      <4>1. Plainly(t)
        BY <2>2 DEF Plainly
      <4>2. QED
        BY <2>2, <4>1, CallSame DEF Holds
    <3>3. ~ InPool(a)' /\ PoolOnce(a)'
      BY <1>4 DEF InPool, PoolOnce
    <3>4. CASE ~ InPool(a)
      <4>1. \A i \in Added(0) : ~ Disposes(Waiting'[i], a)
        BY <2>3, <3>4 DEF InPool
      <4>2. (InWaiting(a)' <=> InWaiting(a)) /\ (WaitingOnce(a) => WaitingOnce(a)')
        <5>1. Slides(0)
          BY <1>2
        <5>2. QED
          BY <4>1, <5>1, WaitingSame
      <4>3. QED
        BY <2>2, <3>1, <3>2, <3>3, <3>4, <4>2, OwnedStays
    <3>5. CASE InPool(a)
      <4>1. PICK n \in DOMAIN pool : pool[n] = a
        BY <3>5 DEF InPool
      <4>2. Len(Waiting) + n \in DOMAIN Waiting' /\ Disposes(Waiting'[Len(Waiting) + n], a)
        BY <1>2, <1>4, <2>1, <4>1 DEF Disposes, Slides
      <4>3. /\ ~ InWaiting(a) /\ inProgress.graph # a /\ (\A u \in Threads : ~ Holds(u, a))
            /\ PoolOnce(a) /\ host[a] # None
        BY <3>1, <3>5 DEF OwnedAt, Apart, Held
      <4>4. ASSUME NEW i \in DOMAIN Waiting', Disposes(Waiting'[i], a)
            PROVE  i = Len(Waiting) + n
        <5>1. i \in Added(0)
          <6>1. CASE i \in 1 .. Len(Waiting)
            <7>1. Waiting'[i] = Waiting[i] /\ i \in DOMAIN Waiting
              BY <1>2, <6>1 DEF Slides
            <7>2. QED
              BY <4>3, <4>4, <7>1 DEF InWaiting
          <6>2. CASE i \notin 1 .. Len(Waiting)
            BY <1>2, <6>2 DEF Slides
          <6>3. QED
            BY <6>1, <6>2
        <5>2. i - Len(Waiting) = n
          <6>1. i - Len(Waiting) \in DOMAIN pool /\ pool[i - Len(Waiting)] = a
            BY <2>3, <4>4, <5>1
          <6>2. QED
            BY <4>1, <4>3, <6>1 DEF PoolOnce
        <5>3. QED
          BY <1>2, <2>1, <5>1, <5>2
      <4>5. InWaiting(a)' /\ WaitingOnce(a)'
        BY <4>2, <4>4 DEF InWaiting, WaitingOnce, Disposes
      <4>6. QED
        BY <2>2, <3>2, <3>3, <4>3, <4>5, OwnedByQueue
    <3>6. QED
      BY <3>4, <3>5
  <2>5. QED
    BY <2>4, OwnedPartsNext
<1>5. QED
  BY <1>3, <1>4, MissesWaits

LEMMA TakesPooledOwned ==
  ASSUME TypeOK, OwnedOnce, OpsOwned, NEW t \in Threads, TakesPooled(t)
  PROVE  OwnedOnce'
<1>1. PICK b : b = Last(pool)
  OBVIOUS
<1>2. /\ Drained(t) /\ b \in Addresses /\ Len(pool) \in DOMAIN pool /\ b = pool[Len(pool)]
      /\ Len(pool') = Len(pool) - 1 /\ \A i \in 1 .. Len(pool) - 1 : pool'[i] = pool[i]
      /\ pc'[t] = "swap" /\ call'[t] = Op("open", b, None) /\ \A u \in Threads \ {t} : Still(u)
      /\ Waiting' \in Seq(Ops) /\ Len(Waiting') >= Len(Waiting)
      /\ \A i \in 1 .. Len(Waiting) : Waiting'[i] = Waiting[i]
      /\ \A i \in Len(Waiting) + 1 .. Len(Waiting') : Waiting'[i].kind = "refill"
      /\ PoolOK'
  BY <1>1, TakesPooledMoves DEF Still
<1>3. UNCHANGED <<host, graphOf, inProgress, quarantined>>
  BY DEF TakesPooled, history
<1>4. pool \in Seq(Addresses) /\ pool' \in Seq(Addresses)
  BY <1>2, TypeParts DEF PoolOK
<1>5. Slides(0) /\ \A i \in Added(0) : Waiting'[i].kind # "dispose"
  BY <1>2, SlidesOn
<1>6. call'[t].graph = b
  BY <1>2, OpIs
<1>7. pc[t] = "drain"
  BY <1>2 DEF Drained
<1>8. \A x : (InCall(t, x)' <=> x = b) /\ ~ InCall(t, x)
  BY <1>2, <1>6, <1>7 DEF InCall
<1>9. ASSUME NEW x \in Addresses
      PROVE  /\ (InWaiting(x)' <=> InWaiting(x)) /\ (WaitingOnce(x) => WaitingOnce(x)')
             /\ \A u \in Threads \ {t} : (InCall(u, x)' <=> InCall(u, x)) /\ (Holds(u, x)' <=> Holds(u, x))
  <2>1. \A i \in Added(0) : ~ Disposes(Waiting'[i], x)
    BY <1>5 DEF Disposes
  <2>2. (InWaiting(x)' <=> InWaiting(x)) /\ (WaitingOnce(x) => WaitingOnce(x)')
    BY <1>5, <2>1, WaitingSame
  <2>3. ASSUME NEW u \in Threads \ {t}
        PROVE  (InCall(u, x)' <=> InCall(u, x)) /\ (Holds(u, x)' <=> Holds(u, x))
    <3>1. Still(u)
      BY <1>2
    <3>2. QED
      BY <1>3, <3>1, CallSame DEF Holds
  <2>4. QED
    BY <2>2, <2>3
<1>10. ASSUME NEW i \in DOMAIN pool' PROVE i \in DOMAIN pool /\ pool'[i] = pool[i] /\ i # Len(pool)
  BY <1>2, <1>4
<1>11. ASSUME NEW i \in DOMAIN pool, i # Len(pool) PROVE i \in DOMAIN pool' /\ pool'[i] = pool[i]
  <2>1. i \in 1 .. Len(pool) - 1 /\ DOMAIN pool' = 1 .. Len(pool')
    BY <1>4, <1>11
  <2>2. QED
    BY <1>2, <2>1
<1>12. ASSUME NEW x \in Addresses, x # b PROVE OwnedAt(x)'
  <2>1. \A u \in Threads : InCall(u, x)' <=> InCall(u, x)
    BY <1>8, <1>9, <1>12
  <2>2. (InPool(x)' <=> InPool(x)) /\ (PoolOnce(x) => PoolOnce(x)')
    BY <1>2, <1>10, <1>11, <1>12 DEF InPool, PoolOnce
  <2>3. OwnedAt(x)
    BY OwnedParts
  <2>4. QED
    BY <1>3, <1>9, <2>1, <2>2, <2>3, OwnedStays
<1>13. ASSUME NEW x \in Addresses, x = b PROVE OwnedAt(x)'
  <2>1. OwnedAt(x) /\ InPool(x)
    BY <1>2, <1>13, OwnedParts DEF InPool
  <2>2. /\ ~ InWaiting(x) /\ inProgress.graph # x /\ (\A u \in Threads : ~ Holds(u, x))
        /\ PoolOnce(x) /\ host[x] # None
    BY <2>1 DEF OwnedAt, Apart, Held
  <2>3. ~ InPool(x)'
    BY <1>2, <1>10, <1>13, <2>2 DEF InPool, PoolOnce
  <2>4. Holds(t, x)' /\ ~ (graphOf'[t] = x /\ InCall(t, x)')
    BY <1>3, <1>8, <1>13, <2>2 DEF Holds
  <2>5. QED
    BY <1>3, <1>9, <2>2, <2>3, <2>4, OwnedByThread
<1>14. QED
  BY <1>12, <1>13, OwnedPartsNext

LEMMA StepOwned ==
  ASSUME TypeOK, ModeKept, OwnedOnce, OpsOwned, [Next]_vars
  PROVE  OwnedOnce'
<1>1. CASE Worker
  BY <1>1, WorkerQuiet, QuietOwned, PerformsOpOwned, RefillBuildsOwned, RefillStoresOwned DEF Worker
<1>2. ASSUME NEW t \in Threads, Guest(t) PROVE OwnedOnce'
  <2>1. CASE Builds(t) \/ Disconnects(t) \/ SetsInput(t) \/ OpensUnpooled(t)
    BY <2>1, AltersMoves, BuildingWaits, AltersOwned
  <2>2. CASE Synchronizes(t) \/ Answers(t)
    <3>1. graphOf[t] # None
      BY <2>2, DrainedHas DEF Synchronizes, Answers, Has
    <3>2. QED
      BY <2>2, <3>1, GuestQuiet, QuietOwned
  <2>3. CASE NewAUGraph(t) \/ TakesPooled(t) \/ MissesPool(t) \/ SwapsGraph(t)
    BY <2>3, NewAUGraphOwned, TakesPooledOwned, MissesPoolOwned, SwapsGraphOwned
  <2>4. CASE \/ Initialize(t) \/ Start(t) \/ Stop(t) \/ AddRenderNotify(t)
             \/ TearDown(t) \/ Enqueues(t) \/ PerformsInline(t) \/ SetParameter(t)
    BY <2>4, QueuesOwned, TearDownOwned, EnqueuesOwned, InlineOwned, SetParameterOwned
  <2>5. QED
    BY <1>2, <2>1, <2>2, <2>3, <2>4, Zenon DEF Guest
<1>3. CASE UNCHANGED vars
  BY <1>3, StutterQuiet, QuietOwned
<1>4. QED
  BY <1>1, <1>2, <1>3 DEF Next

-----------------------------------------------------------------------------
(* Every operation has an owner *)

CallOwned(t) ==
  /\ pc[t] \in {"drain", "swap"} => graphOf[t] # None
  /\ pc[t] \in {"enqueue", "inline"} /\ call[t].kind # "dispose" => call[t].graph = graphOf[t]
Keeps(t, a) == graphOf[t] = a \/ (pc[t] = "enqueue" /\ Disposes(call[t], a))
QueueOwned ==
  \A i \in DOMAIN Waiting : Waiting[i].kind \notin {"dispose", "refill"} =>
    \/ \E t \in Threads : Keeps(t, Waiting[i].graph)
    \/ \E j \in DOMAIN Waiting : j > i /\ Disposes(Waiting[j], Waiting[i].graph)

LEMMA OpsOwnedParts ==
  /\ OpsOwned <=> (\A t \in Threads : CallOwned(t)) /\ QueueOwned
  /\ OpsOwned' <=> (\A t \in Threads : CallOwned(t)') /\ QueueOwned'
BY DEF OpsOwned, CallOwned, Keeps, QueueOwned, Survives

LEMMA CallOwnedStill ==
  ASSUME NEW t, CallOwned(t), Still(t), graphOf'[t] = graphOf[t]
  PROVE  CallOwned(t)'
BY DEF CallOwned, Still

LEMMA KeepsStill ==
  ASSUME NEW t, NEW a, Keeps(t, a), Still(t) \/ Plainly(t), graphOf'[t] = graphOf[t]
  PROVE  Keeps(t, a)'
BY DEF Keeps, Still, Plainly, Disposes

\* What waits keeps its owner, and what is added has one.
LEMMA QueueOwnedKept ==
  ASSUME TypeOK, QueueOwned, NEW k, Slides(k),
         \A t \in Threads, a \in Addresses : Keeps(t, a) =>
            \/ \E u \in Threads : Keeps(u, a)'
            \/ \E j \in Added(k) : Disposes(Waiting'[j], a),
         \A i \in Added(k), a \in Addresses :
            Waiting'[i].kind \notin {"dispose", "refill"} /\ a = Waiting'[i].graph =>
               \E u \in Threads : Keeps(u, a)'
  PROVE  QueueOwned'
<1>1. SUFFICES ASSUME NEW i \in DOMAIN Waiting', Waiting'[i].kind \notin {"dispose", "refill"},
                      NEW a, a = Waiting'[i].graph
               PROVE  \/ \E t \in Threads : Keeps(t, a)'
                      \/ \E j \in DOMAIN Waiting' : j > i /\ Disposes(Waiting'[j], a)
  BY DEF QueueOwned, Keeps, Disposes
<1>2. CASE i \in Added(k)
  <2>1. Waiting'[i] \in Ops
    BY <1>1 DEF Slides
  <2>2. a \in Addresses
    BY <1>1, <2>1, OpGraph
  <2>3. QED
    BY <1>1, <1>2, <2>2
<1>3. CASE i \notin Added(k)
  <2>1. i \in 1 .. Len(Waiting) - k
    BY <1>3 DEF Slides, Added
  <2>2. Waiting'[i] = Waiting[i + k] /\ i + k \in DOMAIN Waiting
    BY <2>1 DEF Slides
  <2>3. a \in Addresses
    <3>1. Waiting[i + k] \in Ops /\ Waiting[i + k].kind # "refill"
      BY <1>1, <2>2 DEF Slides
    <3>2. QED
      BY <1>1, <2>2, <3>1, OpGraph
  <2>4. CASE \E t \in Threads : Keeps(t, a)
    <3>1. \/ \E u \in Threads : Keeps(u, a)'
          \/ \E j \in Added(k) : Disposes(Waiting'[j], a)
      BY <2>3, <2>4
    <3>2. \A j \in Added(k) : j > i /\ j \in DOMAIN Waiting'
      BY <2>1 DEF Slides, Added
    <3>3. QED
      BY <3>1, <3>2
  <2>5. CASE \E j \in DOMAIN Waiting : j > i + k /\ Disposes(Waiting[j], a)
    <3>1. PICK j \in DOMAIN Waiting : j > i + k /\ Disposes(Waiting[j], a)
      BY <2>5
    <3>2. j - k \in 1 .. Len(Waiting) - k /\ (j - k) + k = j /\ j - k > i
      BY <2>1, <3>1 DEF Slides
    <3>3. Waiting'[j - k] = Waiting[j] /\ j - k \in DOMAIN Waiting'
      BY <3>2 DEF Slides
    <3>4. QED
      BY <3>1, <3>2, <3>3 DEF Disposes
  <2>6. QED
    BY <1>1, <2>2, <2>4, <2>5 DEF QueueOwned
<1>4. QED
  BY <1>2, <1>3

LEMMA QueueOwnedStill ==
  ASSUME TypeOK, QueueOwned, NEW k, Slides(k), UNCHANGED graphOf,
         \A t \in Threads : Still(t) \/ Plainly(t),
         \A i \in Added(k), a \in Addresses :
            Waiting'[i].kind \notin {"dispose", "refill"} /\ a = Waiting'[i].graph =>
               \E u \in Threads : Keeps(u, a)'
  PROVE  QueueOwned'
BY KeepsStill, QueueOwnedKept

LEMMA QuietOps ==
  ASSUME TypeOK, OpsOwned, Quiet
  PROVE  OpsOwned'
<1>1. PICK k \in {0, 1} : Takes(k)
  BY DEF Quiet
<1>2. Slides(k) /\ Added(k) = {}
  BY <1>1 DEF Takes
<1>3. UNCHANGED graphOf /\ \A t \in Threads : Still(t) \/ Resting(t)
  BY DEF Quiet
<1>4. QueueOwned'
  BY <1>2, <1>3, RestingPlainly, QueueOwnedStill, OpsOwnedParts
<1>5. \A t \in Threads : CallOwned(t)'
  BY <1>3, CallOwnedStill, OpsOwnedParts DEF Resting, CallOwned
<1>6. QED
  BY <1>4, <1>5, OpsOwnedParts

\* Handles and calls stay.
LEMMA WorkerOps ==
  ASSUME TypeOK, OpsOwned, UNCHANGED <<graphOf, pc, call>>, NEW k, Slides(k), Added(k) = {}
  PROVE  OpsOwned'
<1>1. \A t \in Threads : Still(t)
  BY DEF Still
<1>2. QueueOwned'
  BY <1>1, QueueOwnedStill, OpsOwnedParts
<1>3. QED
  BY <1>1, <1>2, CallOwnedStill, OpsOwnedParts

LEMMA RefillOps ==
  ASSUME TypeOK, OpsOwned, RefillBuilds \/ RefillStores
  PROVE  OpsOwned'
<1>1. UNCHANGED <<graphOf, pc, call, queue>> /\ inProgress.place \in {"build", "store"}
  BY DEF RefillBuilds, RefillStores, guest
<1>2. inProgress'.place \in {"store", "done"}
  BY RefillBuildsMoves, RefillStoresMoves
<1>3. Slides(0) /\ Added(0) = {}
  BY <1>1, <1>2, WaitingKept, SlidesSame
<1>4. QED
  BY <1>1, <1>3, WorkerOps

LEMMA InlineOps ==
  ASSUME TypeOK, OwnedOnce, OpsOwned, NEW t \in Threads, PerformsInline(t)
  PROVE  OpsOwned'
<1>1. /\ pc[t] = "inline" /\ pc'[t] = "run" /\ \A u \in Threads \ {t} : Still(u)
      /\ UNCHANGED <<graphOf, queue, inProgress>>
  BY InlineMoves DEF Still
<1>2. Slides(0) /\ Added(0) = {}
  BY <1>1, WaitingKept, SlidesSame
<1>3. ASSUME NEW u \in Threads, NEW a \in Addresses, Keeps(u, a) PROVE Keeps(u, a)'
  BY <1>1, <1>3, KeepsStill DEF Keeps
<1>4. QueueOwned'
  BY <1>2, <1>3, QueueOwnedKept, OpsOwnedParts
<1>5. \A u \in Threads : CallOwned(u)'
  BY <1>1, CallOwnedStill, OpsOwnedParts DEF CallOwned
<1>6. QED
  BY <1>4, <1>5, OpsOwnedParts

LEMMA NewAUGraphOps ==
  ASSUME TypeOK, OpsOwned, NEW t \in Threads, NewAUGraph(t)
  PROVE  OpsOwned'
<1>1. /\ pc[t] = "run" /\ graphOf[t] = None /\ \A u \in Threads \ {t} : graphOf'[u] = graphOf[u]
  BY NewAUGraphMoves
<1>2. UNCHANGED <<pc, call, work>>
  BY DEF NewAUGraph
<1>3. Slides(0) /\ Added(0) = {} /\ \A u \in Threads : Still(u)
  BY <1>2, WorkKept, SlidesSame DEF Still
<1>4. ASSUME NEW u \in Threads, NEW a \in Addresses, Keeps(u, a) PROVE Keeps(u, a)'
  BY <1>1, <1>2, <1>3, <1>4, KeepsStill, NoneAssumption DEF Keeps
<1>5. QueueOwned'
  BY <1>3, <1>4, QueueOwnedKept, OpsOwnedParts
<1>6. \A u \in Threads : CallOwned(u)'
  BY <1>1, <1>2, <1>3, CallOwnedStill, OpsOwnedParts DEF CallOwned
<1>7. QED
  BY <1>5, <1>6, OpsOwnedParts

LEMMA AltersOps ==
  ASSUME TypeOK, OwnedOnce, OpsOwned, NEW t \in Threads, Alters(t),
         Slides(0), \A i \in Added(0) : Waiting'[i].kind \in {"dispose", "refill"}
  PROVE  OpsOwned'
<1>1. /\ pc[t] = "drain" /\ pc'[t] = "run" /\ UNCHANGED graphOf /\ \A u \in Threads \ {t} : Still(u)
  BY AltersHost DEF Alters
<1>2. Plainly(t)
  BY <1>1 DEF Plainly
<1>3. QueueOwned'
  BY <1>1, <1>2, QueueOwnedStill, OpsOwnedParts
<1>4. \A u \in Threads : CallOwned(u)'
  BY <1>1, CallOwnedStill, OpsOwnedParts DEF CallOwned
<1>5. QED
  BY <1>3, <1>4, OpsOwnedParts

LEMMA MissesAdds ==
  ASSUME TypeOK, OwnedOnce, OpsOwned, NEW t \in Threads, MissesPool(t)
  PROVE  Slides(0) /\ \A i \in Added(0) : Waiting'[i].kind \in {"dispose", "refill"}
<1>1. Slides(0) /\ Added(0) = Len(Waiting) + 1 .. Len(Waiting') /\ Waiting \in Seq(Ops)
  BY MissesWaits
<1>2. ASSUME NEW i \in Added(0) PROVE Waiting'[i].kind \in {"dispose", "refill"}
  <2>1. CASE \A j \in Added(0) : Waiting'[j].kind = "refill"
    BY <1>2, <2>1
  <2>2. CASE /\ Len(Waiting') >= Len(Waiting) + Len(pool)
             /\ \A j \in 1 .. Len(pool) : Waiting'[Len(Waiting) + j].kind = "dispose"
             /\ \A j \in Len(Waiting) + Len(pool) + 1 .. Len(Waiting') : Waiting'[j].kind = "refill"
    <3>1. Len(pool) \in Nat /\ Len(Waiting) \in Nat /\ i \in Len(Waiting) + 1 .. Len(Waiting')
      BY <1>1, <1>2, TypeParts DEF PoolOK
    <3>2. CASE i > Len(Waiting) + Len(pool)
      BY <2>2, <3>1, <3>2
    <3>3. CASE ~ (i > Len(Waiting) + Len(pool))
      <4>1. i - Len(Waiting) \in 1 .. Len(pool) /\ Len(Waiting) + (i - Len(Waiting)) = i
        BY <3>1, <3>3
      <4>2. QED
        BY <2>2, <4>1
    <3>4. QED
      BY <3>2, <3>3
  <2>3. QED
    BY <2>1, <2>2, MissesWaits
<1>3. QED
  BY <1>1, <1>2

LEMMA MissesPoolOps ==
  ASSUME TypeOK, OwnedOnce, OpsOwned, NEW t \in Threads, MissesPool(t)
  PROVE  OpsOwned'
BY MissesAdds, AltersMoves, AltersOps

LEMMA TakesPooledOps ==
  ASSUME TypeOK, OwnedOnce, OpsOwned, NEW t \in Threads, TakesPooled(t)
  PROVE  OpsOwned'
<1>1. /\ Drained(t) /\ pc'[t] = "swap" /\ \A u \in Threads \ {t} : Still(u)
      /\ Waiting' \in Seq(Ops) /\ Len(Waiting') >= Len(Waiting)
      /\ \A i \in 1 .. Len(Waiting) : Waiting'[i] = Waiting[i]
      /\ \A i \in Len(Waiting) + 1 .. Len(Waiting') : Waiting'[i].kind = "refill"
  BY TakesPooledMoves DEF Still
<1>2. UNCHANGED graphOf /\ pc[t] = "drain"
  BY <1>1 DEF TakesPooled, Drained
<1>3. Slides(0) /\ \A i \in Added(0) : Waiting'[i].kind = "refill"
  BY <1>1, SlidesOn
<1>4. ASSUME NEW u \in Threads, NEW a \in Addresses, Keeps(u, a) PROVE Keeps(u, a)'
  BY <1>1, <1>2, <1>4, KeepsStill DEF Keeps
<1>5. QueueOwned'
  BY <1>3, <1>4, QueueOwnedKept, OpsOwnedParts
<1>6. \A u \in Threads : CallOwned(u)'
  BY <1>1, <1>2, CallOwnedStill, OpsOwnedParts DEF CallOwned
<1>7. QED
  BY <1>5, <1>6, OpsOwnedParts

LEMMA SwapsGraphOps ==
  ASSUME TypeOK, OwnedOnce, OpsOwned, NEW t \in Threads, SwapsGraph(t)
  PROVE  OpsOwned'
<1>1. /\ pc[t] = "swap" /\ pc'[t] = "enqueue" /\ call'[t] = Op("dispose", graphOf[t], None)
      /\ \A u \in Threads \ {t} : Still(u) /\ graphOf'[u] = graphOf[u]
      /\ UNCHANGED <<queue, inProgress>>
  BY SwapsGraphMoves DEF Still
<1>2. Slides(0) /\ Added(0) = {}
  BY <1>1, WaitingKept, SlidesSame
<1>3. call'[t].kind = "dispose" /\ call'[t].graph = graphOf[t]
  BY <1>1, OpIs
<1>4. ASSUME NEW u \in Threads, NEW a \in Addresses, Keeps(u, a) PROVE Keeps(u, a)'
  BY <1>1, <1>3, <1>4, KeepsStill DEF Keeps, Disposes
<1>5. QueueOwned'
  BY <1>2, <1>4, QueueOwnedKept, OpsOwnedParts
<1>6. \A u \in Threads : CallOwned(u)'
  BY <1>1, <1>3, CallOwnedStill, OpsOwnedParts DEF CallOwned
<1>7. QED
  BY <1>5, <1>6, OpsOwnedParts

LEMMA AsksOps ==
  ASSUME TypeOK, OpsOwned, NEW t \in Threads, graphOf[t] # None, pc[t] = "run", NEW o, Asks(t, o),
         UNCHANGED <<graphOf, queue, inProgress>>
  PROVE  OpsOwned'
<1>1. /\ call'[t] = o /\ o.kind # "dispose" /\ pc'[t] \in {"enqueue", "inline"} /\ o.graph = graphOf[t]
      /\ \A u \in Threads \ {t} : Still(u)
  BY AsksMoves DEF Asks, Still
<1>2. Slides(0) /\ Added(0) = {}
  BY WaitingKept, SlidesSame
<1>3. Plainly(t)
  BY <1>1 DEF Plainly
<1>4. QueueOwned'
  BY <1>1, <1>2, <1>3, QueueOwnedStill, OpsOwnedParts
<1>5. \A u \in Threads : CallOwned(u)'
  BY <1>1, CallOwnedStill, OpsOwnedParts DEF CallOwned
<1>6. QED
  BY <1>4, <1>5, OpsOwnedParts

LEMMA DropsOps ==
  ASSUME TypeOK, ModeKept, OpsOwned, NEW t \in Threads, graphOf[t] \in Addresses, pc[t] = "run",
         Drops(t), UNCHANGED <<queue, inProgress>>
  PROVE  OpsOwned'
<1>1. /\ pc'[t] = (IF Deferred THEN "enqueue" ELSE "inline")
      /\ call'[t] = Op("dispose", graphOf[t], None) /\ graphOf'[t] = None
      /\ \A u \in Threads \ {t} : Still(u) /\ graphOf'[u] = graphOf[u]
  BY DropsMoves DEF Still
<1>2. Slides(0) /\ Added(0) = {} /\ Waiting' = Waiting
  BY WaitingKept, SlidesSame
<1>3. call'[t].kind = "dispose" /\ call'[t].graph = graphOf[t]
  BY <1>1, OpIs
<1>4. QueueOwned'
  <2>1. CASE Deferred
    <3>1. ASSUME NEW u \in Threads, NEW a \in Addresses, Keeps(u, a) PROVE Keeps(u, a)'
      BY <1>1, <1>3, <2>1, <3>1, KeepsStill DEF Keeps, Disposes
    <3>2. QED
      BY <1>2, <3>1, QueueOwnedKept, OpsOwnedParts
  <2>2. CASE ~ Deferred
    <3>1. Waiting = <<>> \o <<>>
      BY <2>2 DEF ModeKept, Idle, Waiting
    <3>2. DOMAIN Waiting' = {}
      BY <1>2, <3>1
    <3>3. QED
      BY <3>2 DEF QueueOwned
  <2>3. QED
    BY <2>1, <2>2
<1>5. \A u \in Threads : CallOwned(u)'
  BY <1>1, <1>3, CallOwnedStill, OpsOwnedParts DEF CallOwned
<1>6. QED
  BY <1>4, <1>5, OpsOwnedParts

LEMMA QueuesOps ==
  ASSUME TypeOK, ModeKept, OpsOwned, NEW t \in Threads,
         Initialize(t) \/ Start(t) \/ Stop(t) \/ AddRenderNotify(t) \/ TearDown(t)
  PROVE  OpsOwned'
<1>1. UNCHANGED <<queue, inProgress>>
  BY DEF Initialize, Start, Stop, AddRenderNotify, TearDown, work
<1>2. CASE Initialize(t) \/ Start(t) \/ Stop(t) \/ AddRenderNotify(t)
  <2>1. UNCHANGED graphOf
    BY <1>2 DEF Initialize, Start, Stop, AddRenderNotify
  <2>2. Has(t) /\ \E o : Asks(t, o)
    BY <1>2, InitializeMoves, StartMoves, StopMoves, AddRenderNotifyMoves
  <2>3. QED
    BY <1>1, <2>1, <2>2, AsksOps DEF Has, Begins
<1>3. CASE TearDown(t)
  <2>1. graphOf[t] \in Addresses /\ graphOf[t] # None /\ pc[t] = "run"
    BY <1>3, TearDownMoves, NoneAssumption DEF Begins
  <2>2. CASE Drops(t)
    BY <1>1, <2>1, <2>2, DropsOps
  <2>3. CASE UNCHANGED graphOf /\ \E k \in {"uninitialize", "close"} : Asks(t, Op(k, graphOf[t], None))
    BY <1>1, <2>1, <2>3, AsksOps
  <2>4. QED
    BY <1>3, <2>2, <2>3, TearDownMoves
<1>4. QED
  BY <1>2, <1>3

LEMMA EnqueuesOps ==
  ASSUME TypeOK, OpsOwned, NEW t \in Threads, Enqueues(t)
  PROVE  OpsOwned'
<1>1. /\ pc[t] = "enqueue" /\ pc'[t] = "run" /\ call[t] \in Ops /\ \A u \in Threads \ {t} : Still(u)
      /\ Waiting' \in Seq(Ops) /\ Len(Waiting') = Len(Waiting) + 1
      /\ \A i \in 1 .. Len(Waiting) : Waiting'[i] = Waiting[i]
      /\ Waiting'[Len(Waiting) + 1] = call[t]
  BY EnqueuesMoves DEF Still
<1>2. UNCHANGED graphOf
  BY DEF Enqueues
<1>3. Slides(0) /\ Added(0) = {Len(Waiting) + 1}
  <2>1. Waiting \in Seq(Ops)
    BY TypeParts, WaitingTyped
  <2>2. QED
    BY <1>1, <2>1, SlidesOn
<1>4. ASSUME NEW u \in Threads, NEW a \in Addresses, Keeps(u, a)
      PROVE  Keeps(u, a)' \/ \E j \in Added(0) : Disposes(Waiting'[j], a)
  BY <1>1, <1>2, <1>3, <1>4, KeepsStill DEF Keeps
<1>5. ASSUME NEW a \in Addresses, call[t].kind # "dispose", a = call[t].graph PROVE Keeps(t, a)'
  BY <1>1, <1>2, <1>5, OpsOwnedParts DEF CallOwned, Keeps
<1>6. QueueOwned'
  BY <1>1, <1>3, <1>4, <1>5, QueueOwnedKept, OpsOwnedParts
<1>7. \A u \in Threads : CallOwned(u)'
  BY <1>1, <1>2, CallOwnedStill, OpsOwnedParts DEF CallOwned
<1>8. QED
  BY <1>6, <1>7, OpsOwnedParts

LEMMA SetParameterOps ==
  ASSUME TypeOK, OwnedOnce, OpsOwned, NEW t \in Threads, SetParameter(t)
  PROVE  OpsOwned'
<1>1. PICK o : o = Op("parameter", graphOf[t], TRUE)
  OBVIOUS
<1>2. /\ UNCHANGED <<graphOf, pc, call, inProgress>>
      /\ \/ UNCHANGED queue
         \/ /\ Waiting' \in Seq(Ops) /\ Len(Waiting') = Len(Waiting) + 1
            /\ \A i \in 1 .. Len(Waiting) : Waiting'[i] = Waiting[i]
            /\ Waiting'[Len(Waiting) + 1] = o
  BY <1>1, SetParameterMoves
<1>3. o.graph = graphOf[t]
  BY <1>1 DEF Op
<1>4. \A u \in Threads : Still(u)
  BY <1>2 DEF Still
<1>5. CASE UNCHANGED queue
  BY <1>2, <1>5, WaitingKept, SlidesSame, WorkerOps
<1>6. CASE /\ Waiting' \in Seq(Ops) /\ Len(Waiting') = Len(Waiting) + 1
           /\ \A i \in 1 .. Len(Waiting) : Waiting'[i] = Waiting[i]
           /\ Waiting'[Len(Waiting) + 1] = o
  <2>1. Slides(0) /\ Added(0) = {Len(Waiting) + 1}
    <3>1. Waiting \in Seq(Ops)
      BY TypeParts, WaitingTyped
    <3>2. QED
      BY <1>6, <3>1, SlidesOn
  <2>2. ASSUME NEW a \in Addresses, a = o.graph PROVE Keeps(t, a)'
    BY <1>2, <1>3, <2>2 DEF Keeps
  <2>3. QueueOwned'
    BY <1>2, <1>4, <1>6, <2>1, <2>2, QueueOwnedStill, OpsOwnedParts
  <2>4. QED
    BY <1>2, <1>4, <2>3, CallOwnedStill, OpsOwnedParts
<1>7. QED
  BY <1>2, <1>5, <1>6

LEMMA StepOps ==
  ASSUME TypeOK, ModeKept, OwnedOnce, OpsOwned, [Next]_vars
  PROVE  OpsOwned'
<1>1. CASE PerformsOp
  BY <1>1, PerformsOpMoves, WorkerOps
<1>2. CASE Worker
  BY <1>1, <1>2, WorkerQuiet, QuietOps, RefillOps DEF Worker
<1>3. ASSUME NEW t \in Threads, Guest(t) PROVE OpsOwned'
  <2>1. CASE Builds(t) \/ Disconnects(t) \/ SetsInput(t) \/ OpensUnpooled(t)
    BY <2>1, AltersMoves, BuildingWaits, AltersOps
  <2>2. CASE Synchronizes(t) \/ Answers(t)
    <3>1. graphOf[t] # None
      BY <2>2, DrainedHas DEF Synchronizes, Answers, Has
    <3>2. QED
      BY <2>2, <3>1, GuestQuiet, QuietOps
  <2>3. CASE NewAUGraph(t) \/ TakesPooled(t) \/ MissesPool(t) \/ SwapsGraph(t)
    BY <2>3, NewAUGraphOps, TakesPooledOps, MissesPoolOps, SwapsGraphOps
  <2>4. CASE \/ Initialize(t) \/ Start(t) \/ Stop(t) \/ AddRenderNotify(t)
             \/ TearDown(t) \/ Enqueues(t) \/ PerformsInline(t) \/ SetParameter(t)
    BY <2>4, QueuesOps, EnqueuesOps, InlineOps, SetParameterOps
  <2>5. QED
    BY <1>3, <2>1, <2>2, <2>3, <2>4, Zenon DEF Guest
<1>4. CASE UNCHANGED vars
  BY <1>4, StutterQuiet, QuietOps
<1>5. QED
  BY <1>2, <1>3, <1>4 DEF Next

-----------------------------------------------------------------------------
(* Every context belongs to a graph that is not pooled again *)

SettledBy(t, a) ==
  \/ graphOf[t] = a /\ topology[t].unpoolable
  \/ pc[t] \in {"enqueue", "inline"} /\ Disposes(call[t], a)
Settled(a) == (\E t \in Threads : SettledBy(t, a)) \/ InWaiting(a)

LEMMA ContextsParts ==
  ContextsOwned <=> \A c \in Callbacks : ctx[c] # None => Settled(ctx[c].owner)
BY DEF ContextsOwned, Settled, SettledBy

LEMMA ContextsNext ==
  ASSUME CtxOK', \A c \in Callbacks, a \in Addresses : ctx'[c] # None /\ ctx'[c].owner = a => Settled(a)'
  PROVE  ContextsOwned'
<1>1. ASSUME NEW c \in Callbacks, ctx'[c] # None, NEW a, a = ctx'[c].owner PROVE Settled(a)'
  <2>1. a \in Addresses
    BY <1>1 DEF CtxOK, Contexts
  <2>2. QED
    BY <1>1, <2>1
<1>2. QED
  BY <1>1 DEF ContextsOwned, Settled, SettledBy, InWaiting, Disposes

LEMMA WaitingGrown ==
  ASSUME NEW a, NEW k, Slides(k), k = 1 => ~ Disposes(Waiting[1], a), InWaiting(a)
  PROVE  InWaiting(a)'
<1>1. PICK i \in DOMAIN Waiting : Disposes(Waiting[i], a)
  BY DEF InWaiting
<1>2. i - k \in 1 .. Len(Waiting) - k
  BY <1>1 DEF Slides
<1>3. i - k \in DOMAIN Waiting' /\ (i - k) + k = i
  BY <1>2 DEF Slides
<1>4. Disposes(Waiting'[i - k], a)
  BY <1>1, <1>2, <1>3 DEF Slides
<1>5. QED
  BY <1>3, <1>4 DEF InWaiting, Disposes

\* A thread whose handle, and the disposal it is in, stay.
LEMMA SettledStill ==
  ASSUME NEW t, NEW a, SettledBy(t, a), graphOf'[t] = graphOf[t],
         topology[t].unpoolable => topology'[t].unpoolable, Still(t) \/ Plainly(t)
  PROVE  SettledBy(t, a)'
BY DEF SettledBy, Still, Plainly, Disposes

LEMMA ContextsKept ==
  ASSUME CtxOK', ContextsOwned,
         \A c \in Callbacks : ctx'[c] # None => ctx[c] # None /\ ctx'[c].owner = ctx[c].owner,
         \A t \in Threads, a \in Addresses : SettledBy(t, a) => Settled(a)',
         NEW k, Slides(k),
         \A c \in Callbacks : ctx'[c] # None /\ k = 1 => ~ Disposes(Waiting[1], ctx'[c].owner)
  PROVE  ContextsOwned'
<1>1. ASSUME NEW c \in Callbacks, NEW a \in Addresses, ctx'[c] # None, ctx'[c].owner = a
      PROVE  Settled(a)'
  <2>1. Settled(a)
    BY <1>1, ContextsParts
  <2>2. CASE InWaiting(a)
    <3>1. k = 1 => ~ Disposes(Waiting[1], a)
      BY <1>1
    <3>2. QED
      BY <2>2, <3>1, WaitingGrown DEF Settled
  <2>3. QED
    BY <2>1, <2>2 DEF Settled
<1>2. QED
  BY <1>1, ContextsNext

LEMMA ContextsStill ==
  ASSUME CtxOK', ContextsOwned,
         \A c \in Callbacks : ctx'[c] # None => ctx[c] # None /\ ctx'[c].owner = ctx[c].owner,
         UNCHANGED graphOf, \A t \in Threads : topology[t].unpoolable => topology'[t].unpoolable,
         \A t \in Threads : Still(t) \/ Plainly(t),
         NEW k, Slides(k),
         \A c \in Callbacks : ctx'[c] # None /\ k = 1 => ~ Disposes(Waiting[1], ctx'[c].owner)
  PROVE  ContextsOwned'
<1>1. ASSUME NEW t \in Threads, NEW a \in Addresses, SettledBy(t, a) PROVE Settled(a)'
  BY <1>1, SettledStill DEF Settled
<1>2. QED
  BY <1>1, ContextsKept

LEMMA QuietContexts ==
  ASSUME TypeOK, ContextsOwned, Quiet
  PROVE  ContextsOwned'
<1>1. PICK k \in {0, 1} : Takes(k)
  BY DEF Quiet
<1>2. Slides(k) /\ (k = 1 => Waiting[1].kind = "refill")
  BY <1>1 DEF Takes
<1>3. /\ UNCHANGED <<ctx, graphOf, topology>> /\ \A t \in Threads : Still(t) \/ Plainly(t)
  BY RestingPlainly DEF Quiet
<1>4. CtxOK'
  BY <1>3, TypeKept
<1>5. QED
  BY <1>2, <1>3, <1>4, ContextsStill DEF Disposes

LEMMA RefillContexts ==
  ASSUME TypeOK, ContextsOwned, RefillBuilds \/ RefillStores
  PROVE  ContextsOwned'
<1>1. UNCHANGED <<ctx, topology, graphOf, pc, call, queue>> /\ inProgress.place \in {"build", "store"}
  BY DEF RefillBuilds, RefillStores, guest
<1>2. inProgress'.place \in {"store", "done"}
  BY RefillBuildsMoves, RefillStoresMoves
<1>3. Slides(0) /\ CtxOK' /\ \A t \in Threads : Still(t)
  BY <1>1, <1>2, WaitingKept, SlidesSame, TypeKept DEF Still
<1>4. QED
  BY <1>1, <1>3, ContextsStill

\* Who is disposed of has no contexts any more.
LEMMA DoesContexts ==
  ASSUME TypeOK, NEW o \in Ops, o.graph \in Addresses, host[o.graph] \in HostGraphs, Does(o)
  PROVE  \A c \in Callbacks : ctx'[c] # None =>
           ctx'[c] = ctx[c] /\ (o.kind = "dispose" => ctx[c].owner # o.graph)
<1>0. HostOK /\ CtxOK /\ HandlesOK
  BY TypeParts
<1>1. CASE Carries(o)
  BY <1>1 DEF Carries
<1>2. CASE Frees(o)
  BY <1>0, <1>2, FreesMoves
<1>3. CASE Abandons(o)
  <2>1. CASE o.kind = "dispose"
    BY <1>0, <1>3, <2>1, AbandonsMoves
  <2>2. CASE o.kind # "dispose"
    BY <1>0, <1>3, <2>2, AbandonsMoves
  <2>3. QED
    BY <2>1, <2>2
<1>4. CASE Refuses(o)
  <2>1. o.kind = "notify" /\ ctx'[o.arg] = None /\ \A c \in Callbacks \ {o.arg} : ctx'[c] = ctx[c]
    BY <1>0, <1>4, RefusesMoves DEF Refuses
  <2>2. QED
    BY <2>1
<1>5. QED
  BY <1>1, <1>2, <1>3, <1>4 DEF Does

LEMMA PerformsOpContexts ==
  ASSUME TypeOK, OwnedOnce, OpsOwned, ContextsOwned, PerformsOp
  PROVE  ContextsOwned'
<1>1. PICK o : o = inProgress.op
  OBVIOUS
<1>2. /\ o \in Ops /\ o.graph \in Addresses /\ host[o.graph] \in HostGraphs /\ Does(o)
      /\ o = Waiting[1] /\ Slides(1) /\ UNCHANGED <<graphOf, topology, pc, call>>
  BY <1>1, PerformsOpMoves
<1>3. \A t \in Threads : Still(t)
  BY <1>2 DEF Still
<1>4. CtxOK'
  BY PerformsOpTyped DEF TypeOK, CtxOK
<1>5. \A c \in Callbacks : ctx'[c] # None => ctx'[c] = ctx[c] /\ ~ Disposes(o, ctx'[c].owner)
  BY <1>2, DoesContexts DEF Disposes
<1>6. \A c \in Callbacks : ctx'[c] # None => ctx[c] # None /\ ctx'[c].owner = ctx[c].owner
  BY <1>5
<1>7. QED
  BY <1>2, <1>3, <1>4, <1>5, <1>6, ContextsStill

LEMMA InlineContexts ==
  ASSUME TypeOK, OwnedOnce, OpsOwned, ContextsOwned, NEW t \in Threads, PerformsInline(t)
  PROVE  ContextsOwned'
<1>1. PICK o : o = call[t]
  OBVIOUS
<1>2. /\ o \in Ops /\ o.graph \in Addresses /\ host[o.graph] \in HostGraphs /\ Does(o)
      /\ pc'[t] = "run" /\ UNCHANGED <<graphOf, topology, queue, inProgress>>
      /\ \A u \in Threads \ {t} : Still(u)
  BY <1>1, InlineMoves DEF Still
<1>3. Slides(0) /\ CtxOK'
  BY <1>2, WaitingKept, SlidesSame, PerformsInlineTyped DEF TypeOK, CtxOK
<1>4. \A c \in Callbacks : ctx'[c] # None => ctx'[c] = ctx[c] /\ (o.kind = "dispose" => ctx[c].owner # o.graph)
  BY <1>2, DoesContexts
<1>5. ASSUME NEW c \in Callbacks, NEW a \in Addresses, ctx'[c] # None, ctx'[c].owner = a
      PROVE  Settled(a)'
  <2>1. Settled(a) /\ ~ Disposes(o, a)
    BY <1>4, <1>5, ContextsParts DEF Disposes
  <2>2. CASE InWaiting(a)
    BY <1>3, <2>2, WaitingGrown DEF Settled
  <2>3. CASE \E u \in Threads : SettledBy(u, a)
    <3>1. PICK u \in Threads : SettledBy(u, a)
      BY <2>3
    <3>2. CASE u = t
      BY <1>1, <1>2, <2>1, <3>1, <3>2 DEF SettledBy, Settled
    <3>3. CASE u # t
      BY <1>2, <3>1, <3>3, SettledStill DEF Settled
    <3>4. QED
      BY <3>2, <3>3
  <2>4. QED
    BY <2>1, <2>2, <2>3 DEF Settled
<1>6. QED
  BY <1>3, <1>5, ContextsNext

LEMMA NewAUGraphContexts ==
  ASSUME TypeOK, ContextsOwned, NEW t \in Threads, NewAUGraph(t)
  PROVE  ContextsOwned'
<1>1. /\ pc[t] = "run" /\ graphOf[t] = None
      /\ \A u \in Threads \ {t} : graphOf'[u] = graphOf[u] /\ topology'[u] = topology[u]
  BY NewAUGraphMoves
<1>2. UNCHANGED <<ctx, pc, call, work>>
  BY DEF NewAUGraph
<1>3. Slides(0) /\ CtxOK' /\ \A u \in Threads : Still(u)
  BY <1>2, WorkKept, SlidesSame, TypeKept DEF Still
<1>4. ASSUME NEW u \in Threads, NEW a \in Addresses, SettledBy(u, a) PROVE Settled(a)'
  <2>1. u # t
    BY <1>1, <1>4, NoneAssumption DEF SettledBy
  <2>2. QED
    BY <1>1, <1>3, <1>4, <2>1, SettledStill DEF Settled
<1>5. QED
  BY <1>2, <1>3, <1>4, ContextsKept

\* A topology once unpoolable stays so, and it is when a callback is given.
LEMMA AltersTopology ==
  ASSUME TypeOK, OwnedOnce, OpsOwned, NEW t \in Threads,
         \/ Builds(t) \/ Disconnects(t) \/ SetsInput(t) \/ OpensUnpooled(t) \/ MissesPool(t)
  PROVE  /\ \A u \in Threads \ {t} : topology'[u] = topology[u]
         /\ topology[t].unpoolable => topology'[t].unpoolable
         /\ UNCHANGED ctx \/ topology'[t].unpoolable
<1>1. CASE Builds(t)
  <2>1. UNCHANGED ctx /\ \/ \E o : Adds(t, o) /\ Records(t, o) /\ o.kind \in {"nodes", "connections"}
                         \/ Unpoolable(t)
    BY <1>1, BuildsMoves DEF Builds
  <2>2. ASSUME NEW o, Adds(t, o), Records(t, o), o.kind \in {"nodes", "connections"}
        PROVE  /\ \A u \in Threads \ {t} : topology'[u] = topology[u]
               /\ topology[t].unpoolable => topology'[t].unpoolable
    <3>1. \/ o.kind = "nodes" /\ o.arg \in Nodes
          \/ o.kind = "connections" /\ o.arg \in Connections
      BY <2>2 DEF Adds, Fitting
    <3>2. topology'[t] = Recorded(topology[t], o) /\ \A u \in Threads \ {t} : topology'[u] = topology[u]
      BY <2>2, <3>1, RecordsMoves
    <3>3. topology[t].unpoolable => Recorded(topology[t], o) = NotPoolable
      BY DEF Recorded
    <3>4. QED
      BY <3>2, <3>3, BlankTyped
  <2>3. QED
    BY <2>1, <2>2, UnpoolableMoves, BlankTyped
<1>2. CASE Disconnects(t)
  BY <1>2, DisconnectsMoves, UnpoolableMoves, BlankTyped DEF Disconnects
<1>3. CASE SetsInput(t)
  BY <1>3, SetsInputMoves, UnpoolableMoves, BlankTyped
<1>4. CASE OpensUnpooled(t) \/ MissesPool(t)
  BY <1>4 DEF OpensUnpooled, MissesPool
<1>5. QED
  BY <1>1, <1>2, <1>3, <1>4

\* A callback is given to a thread's graph, whose topology is unpoolable now.
LEMMA GivenContexts ==
  ASSUME CtxOK, CtxOK', ContextsOwned, NEW t \in Threads, graphOf[t] \in Addresses, NEW c, Gives(t, c),
         UNCHANGED graphOf, topology'[t].unpoolable,
         \A u \in Threads \ {t} : topology'[u] = topology[u] /\ Still(u),
         Still(t) \/ Plainly(t), Slides(0)
  PROVE  ContextsOwned'
<1>1. /\ c \in Callbacks /\ ctx'[c].owner = graphOf[t] /\ \A d \in Callbacks \ {c} : ctx'[d] = ctx[d]
  BY GivesMoves
<1>2. ASSUME NEW d \in Callbacks, NEW a \in Addresses, ctx'[d] # None, ctx'[d].owner = a
      PROVE  Settled(a)'
  <2>1. CASE d = c
    BY <1>1, <1>2, <2>1 DEF Settled, SettledBy
  <2>2. CASE d # c
    <3>1. Settled(a)
      BY <1>1, <1>2, <2>2, ContextsParts
    <3>2. CASE InWaiting(a)
      BY <3>2, WaitingGrown DEF Settled
    <3>3. CASE \E u \in Threads : SettledBy(u, a)
      BY <3>3, SettledStill DEF Settled
    <3>4. QED
      BY <3>1, <3>2, <3>3 DEF Settled
  <2>3. QED
    BY <2>1, <2>2
<1>3. QED
  BY <1>2, ContextsNext

LEMMA AltersContexts ==
  ASSUME TypeOK, OwnedOnce, OpsOwned, ContextsOwned, NEW t \in Threads,
         \/ Builds(t) \/ Disconnects(t) \/ SetsInput(t) \/ OpensUnpooled(t) \/ MissesPool(t)
  PROVE  ContextsOwned'
<1>1. Alters(t)
  BY AltersMoves
<1>2. /\ pc[t] = "drain" /\ pc'[t] = "run" /\ UNCHANGED graphOf /\ graphOf[t] \in Addresses
      /\ \A u \in Threads \ {t} : Still(u)
  BY <1>1, AltersHost DEF Alters
<1>3. Plainly(t)
  BY <1>2 DEF Plainly
<1>4. Slides(0)
  BY BuildingWaits, MissesWaits
<1>5. /\ \A u \in Threads \ {t} : topology'[u] = topology[u]
      /\ topology[t].unpoolable => topology'[t].unpoolable
      /\ UNCHANGED ctx \/ topology'[t].unpoolable
  BY AltersTopology
<1>6. CASE UNCHANGED ctx
  <2>1. CtxOK'
    BY <1>6, TypeKept
  <2>2. QED
    BY <1>2, <1>3, <1>4, <1>5, <1>6, <2>1, ContextsStill
<1>7. CASE ~ UNCHANGED ctx
  <2>1. PICK c : Gives(t, c)
    BY <1>1, <1>7 DEF Alters
  <2>2. CtxOK /\ CtxOK'
    BY <1>2, <2>1, TypeParts, GivesMoves
  <2>3. QED
    BY <1>2, <1>3, <1>4, <1>5, <1>7, <2>1, <2>2, GivenContexts
<1>8. QED
  BY <1>6, <1>7

LEMMA TakesPooledContexts ==
  ASSUME TypeOK, OwnedOnce, OpsOwned, ContextsOwned, NEW t \in Threads, TakesPooled(t)
  PROVE  ContextsOwned'
<1>1. /\ Drained(t) /\ \A u \in Threads \ {t} : Still(u)
      /\ Waiting' \in Seq(Ops) /\ Len(Waiting') >= Len(Waiting)
      /\ \A i \in 1 .. Len(Waiting) : Waiting'[i] = Waiting[i]
  BY TakesPooledMoves DEF Still
<1>2. UNCHANGED <<ctx, graphOf, topology>> /\ pc[t] = "drain"
  BY <1>1 DEF TakesPooled, Drained
<1>3. Slides(0) /\ CtxOK'
  BY <1>1, <1>2, SlidesOn, TypeKept
<1>4. ASSUME NEW u \in Threads, NEW a \in Addresses, SettledBy(u, a) PROVE Settled(a)'
  <2>1. CASE u = t
    BY <1>2, <1>4, <2>1 DEF SettledBy, Settled
  <2>2. CASE u # t
    BY <1>1, <1>2, <1>4, <2>2, SettledStill DEF Settled
  <2>3. QED
    BY <2>1, <2>2
<1>5. QED
  BY <1>2, <1>3, <1>4, ContextsKept

LEMMA SwapsGraphContexts ==
  ASSUME TypeOK, OwnedOnce, OpsOwned, ContextsOwned, NEW t \in Threads, SwapsGraph(t)
  PROVE  ContextsOwned'
<1>1. /\ pc[t] = "swap" /\ pc'[t] = "enqueue" /\ call'[t] = Op("dispose", graphOf[t], None)
      /\ \A u \in Threads \ {t} : Still(u) /\ graphOf'[u] = graphOf[u]
      /\ UNCHANGED <<queue, inProgress, ctx, topology>>
  BY SwapsGraphMoves DEF Still
<1>2. Slides(0) /\ CtxOK'
  BY <1>1, WaitingKept, SlidesSame, TypeKept
<1>3. call'[t].kind = "dispose" /\ call'[t].graph = graphOf[t]
  BY <1>1, OpIs
<1>4. ASSUME NEW u \in Threads, NEW a \in Addresses, SettledBy(u, a) PROVE Settled(a)'
  <2>1. CASE u = t
    BY <1>1, <1>3, <1>4, <2>1 DEF SettledBy, Settled, Disposes
  <2>2. CASE u # t
    BY <1>1, <1>4, <2>2, SettledStill DEF Settled
  <2>3. QED
    BY <2>1, <2>2
<1>5. QED
  BY <1>1, <1>2, <1>4, ContextsKept

LEMMA AsksContexts ==
  ASSUME TypeOK, CtxOK', ContextsOwned, NEW t \in Threads, graphOf[t] # None, pc[t] = "run",
         NEW o, Asks(t, o), UNCHANGED <<graphOf, topology, queue, inProgress>>,
         \A c \in Callbacks : ctx'[c] # None => ctx[c] # None /\ ctx'[c].owner = ctx[c].owner
  PROVE  ContextsOwned'
<1>1. /\ call'[t] = o /\ o.kind # "dispose" /\ pc'[t] \in {"enqueue", "inline"}
      /\ \A u \in Threads \ {t} : Still(u)
  BY AsksMoves DEF Asks, Still
<1>2. Slides(0)
  BY WaitingKept, SlidesSame
<1>3. Plainly(t)
  BY <1>1 DEF Plainly
<1>4. QED
  BY <1>1, <1>2, <1>3, ContextsStill

LEMMA StartContexts ==
  ASSUME TypeOK, ContextsOwned, NEW t \in Threads, Initialize(t) \/ Start(t) \/ Stop(t)
  PROVE  ContextsOwned'
<1>1. UNCHANGED <<queue, inProgress, graphOf, topology>>
  BY DEF Initialize, Start, Stop, work
<1>2. Has(t) /\ graphOf[t] \in Addresses /\ \E o : Asks(t, o)
  BY InitializeMoves, StartMoves, StopMoves
<1>3. graphOf[t] # None /\ pc[t] = "run"
  BY <1>2 DEF Has, Begins
<1>4. CtxOK
  BY TypeParts
<1>5. CtxOK' /\ \A c \in Callbacks : ctx'[c] # None => ctx[c] # None /\ ctx'[c].owner = ctx[c].owner
  <2>1. CASE Initialize(t)
    BY <1>4, <2>1 DEF Initialize, CtxOK
  <2>2. CASE Start(t)
    <3>1. ctx' = Muted(graphOf[t], FALSE)
      BY <2>2, StartMoves
    <3>2. CtxOK'
      BY <2>2, StartTyped DEF TypeOK, CtxOK
    <3>3. QED
      BY ZenonT(60), <1>2, <1>4, <3>1, <3>2, MutedIs
  <2>3. CASE Stop(t)
    BY <1>2, <1>4, <2>3, StopMoves, StopMutesMoves
  <2>4. QED
    BY <2>1, <2>2, <2>3
<1>6. QED
  BY <1>1, <1>2, <1>3, <1>5, AsksContexts

LEMMA AddRenderNotifyContexts ==
  ASSUME TypeOK, ContextsOwned, NEW t \in Threads, AddRenderNotify(t)
  PROVE  ContextsOwned'
<1>1. UNCHANGED <<queue, inProgress, graphOf>>
  BY DEF AddRenderNotify, work
<1>2. PICK c \in Callbacks : Gives(t, c) /\ Asks(t, Op("notify", graphOf[t], c))
  BY AddRenderNotifyMoves
<1>3. graphOf[t] \in Addresses /\ graphOf[t] # None /\ pc[t] = "run"
  BY AddRenderNotifyMoves DEF Has, Begins
<1>4. PICK o : o = Op("notify", graphOf[t], c)
  OBVIOUS
<1>5. /\ call'[t] = o /\ o.kind # "dispose" /\ \A u \in Threads \ {t} : Still(u)
      /\ pc'[t] \in {"enqueue", "inline"}
  BY <1>2, <1>3, <1>4, AsksMoves DEF Asks, Still
<1>6. Plainly(t)
  BY <1>3, <1>5 DEF Plainly
<1>7. topology'[t].unpoolable /\ \A u \in Threads \ {t} : topology'[u] = topology[u]
  BY AddRenderNotifyMoves, UnpoolableMoves, BlankTyped
<1>8. CtxOK /\ CtxOK' /\ Slides(0)
  BY <1>1, <1>2, <1>3, TypeParts, GivesMoves, WaitingKept, SlidesSame
<1>9. QED
  BY <1>1, <1>2, <1>3, <1>5, <1>6, <1>7, <1>8, GivenContexts

LEMMA TearDownContexts ==
  ASSUME TypeOK, ContextsOwned, NEW t \in Threads, TearDown(t)
  PROVE  ContextsOwned'
<1>1. UNCHANGED <<queue, inProgress>>
  BY DEF TearDown, work
<1>2. graphOf[t] \in Addresses /\ graphOf[t] # None /\ pc[t] = "run"
  BY TearDownMoves, NoneAssumption DEF Begins
<1>3. CtxOK' /\ \A c \in Callbacks : ctx'[c] # None => ctx[c] # None /\ ctx'[c].owner = ctx[c].owner
  BY <1>2, TypeParts, TearDownMoves, StopMutesMoves
<1>4. CASE Drops(t)
  <2>1. /\ call'[t] = Op("dispose", graphOf[t], None) /\ pc'[t] \in {"enqueue", "inline"}
        /\ \A u \in Threads \ {t} : Still(u) /\ graphOf'[u] = graphOf[u] /\ topology'[u] = topology[u]
    BY <1>2, <1>4, DropsMoves DEF Still
  <2>2. call'[t].kind = "dispose" /\ call'[t].graph = graphOf[t]
    BY <2>1, OpIs
  <2>3. ASSUME NEW u \in Threads, NEW a \in Addresses, SettledBy(u, a) PROVE Settled(a)'
    <3>1. CASE u = t
      BY <1>2, <2>1, <2>2, <2>3, <3>1 DEF SettledBy, Settled, Disposes
    <3>2. CASE u # t
      BY <2>1, <2>3, <3>2, SettledStill DEF Settled
    <3>3. QED
      BY <3>1, <3>2
  <2>4. Slides(0)
    BY <1>1, WaitingKept, SlidesSame
  <2>5. QED
    BY <1>3, <2>3, <2>4, ContextsKept
<1>5. CASE /\ UNCHANGED <<graphOf, topology>>
           /\ \E k \in {"uninitialize", "close"} : Asks(t, Op(k, graphOf[t], None))
  BY <1>1, <1>2, <1>3, <1>5, AsksContexts
<1>6. QED
  BY <1>4, <1>5, TearDownMoves

LEMMA EnqueuesContexts ==
  ASSUME TypeOK, ContextsOwned, NEW t \in Threads, Enqueues(t)
  PROVE  ContextsOwned'
<1>1. /\ pc[t] = "enqueue" /\ pc'[t] = "run" /\ \A u \in Threads \ {t} : Still(u)
      /\ Waiting' \in Seq(Ops) /\ Len(Waiting') = Len(Waiting) + 1
      /\ \A i \in 1 .. Len(Waiting) : Waiting'[i] = Waiting[i]
      /\ Waiting'[Len(Waiting) + 1] = call[t]
  BY EnqueuesMoves DEF Still
<1>2. UNCHANGED <<graphOf, topology, ctx>>
  BY DEF Enqueues
<1>3. Waiting \in Seq(Ops)
  BY TypeParts, WaitingTyped
<1>4. Slides(0) /\ CtxOK' /\ Len(Waiting) + 1 \in DOMAIN Waiting'
  BY <1>1, <1>2, <1>3, SlidesOn, TypeKept
<1>5. ASSUME NEW u \in Threads, NEW a \in Addresses, SettledBy(u, a) PROVE Settled(a)'
  <2>1. CASE u = t /\ graphOf[t] = a /\ topology[t].unpoolable
    BY <1>2, <2>1 DEF SettledBy, Settled
  <2>2. CASE u = t /\ Disposes(call[t], a)
    BY <1>1, <1>4, <2>2 DEF Settled, InWaiting, Disposes
  <2>3. CASE u # t
    BY <1>1, <1>2, <1>5, <2>3, SettledStill DEF Settled
  <2>4. QED
    BY <1>5, <2>1, <2>2, <2>3 DEF SettledBy
<1>6. QED
  BY <1>2, <1>4, <1>5, ContextsKept

LEMMA SetParameterWaits ==
  ASSUME TypeOK, OwnedOnce, NEW t \in Threads, SetParameter(t)
  PROVE  Slides(0) /\ Waiting \in Seq(Ops) /\ (Added(0) = {} \/ Added(0) = {Len(Waiting) + 1})
         /\ \A i \in Added(0) : Waiting'[i] = Op("parameter", graphOf[t], TRUE)
<1>1. PICK o : o = Op("parameter", graphOf[t], TRUE)
  OBVIOUS
<1>2. /\ UNCHANGED inProgress
      /\ \/ UNCHANGED queue
         \/ /\ Waiting' \in Seq(Ops) /\ Len(Waiting') = Len(Waiting) + 1
            /\ \A i \in 1 .. Len(Waiting) : Waiting'[i] = Waiting[i]
            /\ Waiting'[Len(Waiting) + 1] = o
  BY <1>1, SetParameterMoves
<1>3. Waiting \in Seq(Ops)
  BY TypeParts, WaitingTyped
<1>4. CASE UNCHANGED queue
  BY <1>2, <1>3, <1>4, WaitingKept, SlidesSame
<1>5. CASE /\ Waiting' \in Seq(Ops) /\ Len(Waiting') = Len(Waiting) + 1
           /\ \A i \in 1 .. Len(Waiting) : Waiting'[i] = Waiting[i]
           /\ Waiting'[Len(Waiting) + 1] = o
  <2>1. Slides(0) /\ Added(0) = {Len(Waiting) + 1}
    BY <1>3, <1>5, SlidesOn
  <2>2. QED
    BY <1>1, <1>3, <1>5, <2>1
<1>6. QED
  BY <1>2, <1>4, <1>5

LEMMA SetParameterContexts ==
  ASSUME TypeOK, OwnedOnce, ContextsOwned, NEW t \in Threads, SetParameter(t)
  PROVE  ContextsOwned'
<1>1. UNCHANGED <<graphOf, topology, pc, call, ctx>>
  BY SetParameterMoves
<1>2. Slides(0) /\ CtxOK' /\ \A u \in Threads : Still(u)
  BY <1>1, SetParameterWaits, TypeKept DEF Still
<1>3. QED
  BY <1>1, <1>2, ContextsStill

LEMMA StepContexts ==
  ASSUME TypeOK, OwnedOnce, OpsOwned, ContextsOwned, [Next]_vars
  PROVE  ContextsOwned'
<1>1. CASE Worker
  BY <1>1, WorkerQuiet, QuietContexts, RefillContexts, PerformsOpContexts DEF Worker
<1>2. ASSUME NEW t \in Threads, Guest(t) PROVE ContextsOwned'
  <2>1. CASE Builds(t) \/ Disconnects(t) \/ SetsInput(t) \/ OpensUnpooled(t) \/ MissesPool(t)
    BY <2>1, AltersContexts
  <2>2. CASE Synchronizes(t) \/ Answers(t)
    <3>1. graphOf[t] # None
      BY <2>2, DrainedHas DEF Synchronizes, Answers, Has
    <3>2. QED
      BY <2>2, <3>1, GuestQuiet, QuietContexts
  <2>3. CASE NewAUGraph(t) \/ TakesPooled(t) \/ SwapsGraph(t)
    BY <2>3, NewAUGraphContexts, TakesPooledContexts, SwapsGraphContexts
  <2>4. CASE \/ Initialize(t) \/ Start(t) \/ Stop(t) \/ AddRenderNotify(t)
             \/ TearDown(t) \/ Enqueues(t) \/ PerformsInline(t) \/ SetParameter(t)
    BY <2>4, StartContexts, AddRenderNotifyContexts, TearDownContexts, EnqueuesContexts,
       InlineContexts, SetParameterContexts
  <2>5. QED
    BY <1>2, <2>1, <2>2, <2>3, <2>4, Zenon DEF Guest
<1>3. CASE UNCHANGED vars
  BY <1>3, StutterQuiet, QuietContexts
<1>4. QED
  BY <1>1, <1>2, <1>3 DEF Next

-----------------------------------------------------------------------------
(* The pool: what the worker has built and no guest has yet *)
Reserved(a) ==
  InPool(a) \/ inProgress.graph = a \/ \E t \in Threads : pc[t] = "swap" /\ call[t].graph = a

LEMMA ReservedApart ==
  ASSUME TypeOK, OwnedOnce, OpsOwned, NEW a \in Addresses, Reserved(a)
  PROVE  /\ host[a] # None
         /\ \A t \in Threads : graphOf[t] # a /\ (pc[t] \in {"enqueue", "inline"} => call[t].graph # a)
         /\ \A i \in DOMAIN Waiting : Waiting[i].graph # a
<1>1. /\ \A t, u \in Threads : Holds(t, a) /\ Holds(u, a) => t = u
      /\ \A t \in Threads : Holds(t, a) =>
            ~ (graphOf[t] = a /\ InCall(t, a)) /\ ~ InPool(a) /\ ~ InWaiting(a) /\ inProgress.graph # a
      /\ InPool(a) => ~ InWaiting(a) /\ inProgress.graph # a
      /\ InWaiting(a) => inProgress.graph # a
      /\ Held(a) => host[a] # None
  BY DEF OwnedOnce, HeldOnce
<1>2. ASSUME NEW t \in Threads, pc[t] = "swap", call[t].graph = a PROVE InCall(t, a) /\ Holds(t, a)
  BY <1>2 DEF InCall, Holds
<1>3. host[a] # None
  BY <1>1, <1>2 DEF Reserved, Held
<1>4. ~ InWaiting(a)
  BY <1>1, <1>2 DEF Reserved
<1>5. ASSUME NEW t \in Threads PROVE graphOf[t] # a
  <2>1. CASE InPool(a) \/ inProgress.graph = a
    BY <1>1, <2>1 DEF Holds
  <2>2. CASE \E u \in Threads : pc[u] = "swap" /\ call[u].graph = a
    BY <1>1, <1>2, <2>2 DEF Holds
  <2>3. QED
    BY <2>1, <2>2 DEF Reserved
<1>6. ASSUME NEW t \in Threads, pc[t] \in {"enqueue", "inline"} PROVE ~ Disposes(call[t], a)
  <2>1. CASE InPool(a) \/ inProgress.graph = a
    BY <1>1, <1>6, <2>1 DEF Holds, InCall
  <2>2. CASE \E u \in Threads : pc[u] = "swap" /\ call[u].graph = a
    BY <1>1, <1>2, <1>6, <2>2 DEF Holds, InCall
  <2>3. QED
    BY <2>1, <2>2 DEF Reserved
<1>7. ASSUME NEW t \in Threads, pc[t] \in {"enqueue", "inline"} PROVE call[t].graph # a
  BY <1>5, <1>6, <1>7, OpsOwnedParts DEF CallOwned, Disposes
<1>8. ASSUME NEW i \in DOMAIN Waiting PROVE Waiting[i].graph # a
  <2>1. CASE Waiting[i].kind = "dispose"
    BY <1>4, <2>1 DEF InWaiting, Disposes
  <2>2. CASE Waiting[i].kind = "refill"
    BY <2>2, TypeParts, WaitingTyped, OpGraph, NoneAssumption
  <2>3. CASE Waiting[i].kind \notin {"dispose", "refill"}
    BY <1>4, <1>5, <1>6, <2>3, OpsOwnedParts DEF QueueOwned, Keeps, InWaiting
  <2>4. QED
    BY <2>1, <2>2, <2>3
<1>9. QED
  BY <1>3, <1>5, <1>7, <1>8

LEMMA ReservedUntouched ==
  ASSUME TypeOK, OwnedOnce, OpsOwned, [Next]_vars, NEW a \in Addresses, Reserved(a),
         ~ (RefillStores /\ inProgress.graph = a /\ ~ StillFits)
  PROVE  host'[a] = host[a]
<1>1. /\ host[a] # None
      /\ \A t \in Threads : graphOf[t] # a /\ (pc[t] \in {"enqueue", "inline"} => call[t].graph # a)
      /\ \A i \in DOMAIN Waiting : Waiting[i].graph # a
  BY ReservedApart
<1>2. CASE Worker
  <2>1. CASE TakesOp \/ OpDone \/ RefillReads
    BY <2>1 DEF TakesOp, OpDone, RefillReads
  <2>2. CASE PerformsOp
    BY <1>1, <2>2, PerformsOpMoves, DoesHost
  <2>3. CASE RefillBuilds
    BY <1>1, <2>3, RefillBuildsMoves
  <2>4. CASE RefillStores
    BY <2>4, RefillStoresMoves
  <2>5. QED
    BY <1>2, <2>1, <2>2, <2>3, <2>4 DEF Worker
<1>3. ASSUME NEW t \in Threads, Guest(t) PROVE host'[a] = host[a]
  <2>1. CASE Builds(t) \/ Disconnects(t) \/ SetsInput(t) \/ OpensUnpooled(t) \/ MissesPool(t)
    BY <1>1, <2>1, AltersMoves, AltersHost
  <2>2. CASE NewAUGraph(t)
    BY <1>1, <2>2, NewAUGraphMoves
  <2>3. CASE SetParameter(t)
    <3>1. \/ UNCHANGED host
          \/ \A b \in Addresses \ {graphOf[t]} : host'[b] = host[b]
      BY <2>3, SetParameterMoves
    <3>2. QED
      BY <1>1, <3>1
  <2>4. CASE PerformsInline(t)
    BY <1>1, <2>4, InlineMoves, DoesHost
  <2>5. CASE \/ Synchronizes(t) \/ Answers(t) \/ TakesPooled(t) \/ SwapsGraph(t)
             \/ Initialize(t) \/ Start(t) \/ Stop(t) \/ AddRenderNotify(t) \/ TearDown(t) \/ Enqueues(t)
    BY <2>5 DEF Synchronizes, Answers, TakesPooled, SwapsGraph, Initialize, Start, Stop, AddRenderNotify,
                TearDown, Enqueues
  <2>6. QED
    BY <1>3, <2>1, <2>2, <2>3, <2>4, <2>5, Zenon DEF Guest
<1>4. CASE UNCHANGED vars
  BY <1>4 DEF vars
<1>5. QED
  BY <1>2, <1>3, <1>4 DEF Next

LEMMA PoolKeptBy ==
  ASSUME TypeOK, PoolKept, NEW s, s = template.shape, pool' # <<>> => template'.shape = s,
         \A i \in DOMAIN pool' : i \in DOMAIN pool /\ pool'[i] = pool[i],
         NEW g, g = inProgress'.graph, g # None => inProgress.graph = g /\ inProgress'.shape = inProgress.shape,
         \A a \in Addresses : Reserved(a) /\ (InPool(a) \/ a = g) => host'[a] = host[a],
         pool' # <<>> => pool # <<>>, Len(pool') + pending' <= Target
  PROVE  PoolKept'
<1>1. /\ \A i \in DOMAIN pool : host[pool[i]] = Built(s) /\ pool[i] \in Addresses
      /\ pool # <<>> => s # None
      /\ g # None => host[g] = Built(inProgress.shape) /\ g \in Addresses
  BY TypeParts DEF PoolKept, PoolOK, WorkOK
<1>2. ASSUME NEW i \in DOMAIN pool' PROVE host'[pool'[i]] = Built(s)
  <2>1. pool[i] \in Addresses /\ InPool(pool[i]) /\ Reserved(pool[i])
    BY <1>1 DEF InPool, Reserved
  <2>2. QED
    BY <1>1, <2>1
<1>3. ASSUME g # None PROVE host'[g] = Built(inProgress'.shape)
  BY <1>1, <1>3 DEF Reserved
<1>4. ASSUME pool' # <<>> PROVE template'.shape # None
  BY <1>1, <1>4
<1>5. ASSUME NEW i \in DOMAIN pool' PROVE host'[pool'[i]] = Built(template'.shape)
  <2>1. pool' # <<>>
    OBVIOUS
  <2>2. QED
    BY <1>2, <2>1
<1>6. QED
  BY <1>3, <1>4, <1>5 DEF PoolKept

LEMMA StepPool ==
  ASSUME TypeOK, OwnedOnce, OpsOwned, PoolKept, [Next]_vars
  PROVE  PoolKept'
<1> DEFINE s == template.shape
<1>1. Len(pool) + pending <= Target /\ pool \in Seq(Addresses) /\ pending \in Nat /\ Len(pool) \in Nat
  BY TypeParts DEF PoolKept, PoolOK
<1>2. CASE /\ UNCHANGED <<pool, pending>> /\ template'.shape = template.shape /\ ~ RefillStores
           /\ inProgress'.graph = inProgress.graph
           /\ inProgress.graph # None => inProgress'.shape = inProgress.shape
  BY <1>1, <1>2, PoolKeptBy, ReservedUntouched
<1>3. CASE Worker
  <2>1. CASE TakesOp \/ OpDone \/ RefillReads
    <3>1. Quiet /\ ~ RefillStores
      BY <2>1, WorkerQuiet DEF TakesOp, OpDone, RefillReads, RefillStores
    <3>2. QED
      BY <1>2, <3>1 DEF Quiet
  <2>2. CASE PerformsOp
    BY <1>2, <2>2, PerformsOpMoves DEF PerformsOp, RefillStores
  <2>3. CASE RefillBuilds
    <3>1. /\ UNCHANGED <<pool, template, pending>> /\ inProgress.graph = None
          /\ inProgress'.shape = inProgress.shape /\ ~ RefillStores
      BY <2>3, RefillBuildsMoves DEF RefillBuilds, pools, RefillStores
    <3>2. CASE inProgress'.graph = None
      BY <1>2, <3>1, <3>2
    <3>3. CASE inProgress'.graph # None
      <4>1. host'[inProgress'.graph] = Built(inProgress'.shape)
        BY <2>3, <3>1, <3>3, RefillBuildsMoves
      <4>2. ASSUME NEW i \in DOMAIN pool PROVE host'[pool[i]] = host[pool[i]]
        <5>1. pool[i] \in Addresses /\ Reserved(pool[i])
          BY <1>1 DEF Reserved, InPool
        <5>2. QED
          BY <3>1, <5>1, ReservedUntouched
      <4>3. QED
        BY <1>1, <3>1, <4>1, <4>2 DEF PoolKept
    <3>4. QED
      BY <3>2, <3>3
  <2>4. CASE RefillStores
    <3>1. inProgress'.graph = None /\ UNCHANGED template /\ PoolOK'
      BY <2>4, RefillStoresMoves DEF RefillStores
    <3>2. CASE /\ StillFits /\ inProgress.graph \in Addresses /\ host' = host
               /\ pool' = Append(pool, inProgress.graph)
               /\ Len(pool') + pending' <= Target \/ Len(pool') + pending' <= Len(pool) + pending
      <4>1. template.shape = inProgress.shape /\ inProgress.graph # None /\ inProgress.shape # None
        BY <3>2, TypeParts DEF StillFits, WorkOK
      <4>2. \A i \in DOMAIN pool' : pool'[i] = inProgress.graph \/ (i \in DOMAIN pool /\ pool'[i] = pool[i])
        BY <1>1, <3>2
      <4>3. \A i \in DOMAIN pool' : host[pool'[i]] = Built(template.shape)
        BY <4>1, <4>2 DEF PoolKept
      <4>4. Len(pool') + pending' <= Target
        <5>1. Len(pool') \in Nat /\ pending' \in Nat /\ Target \in Nat
          BY <3>1, AudioGraphsAssumption DEF PoolOK
        <5>2. QED
          BY <1>1, <3>2, <5>1
      <4>5. QED
        BY <3>1, <3>2, <4>1, <4>3, <4>4 DEF PoolKept
    <3>3. CASE /\ ~ StillFits /\ pool' = pool /\ pending' <= pending
               /\ \A b \in Addresses : host'[b] = IF b = inProgress.graph THEN None ELSE host[b]
      <4>1. Len(pool') + pending' <= Target
        <5>1. pending' \in Nat /\ Target \in Nat
          BY <3>1, AudioGraphsAssumption DEF PoolOK
        <5>2. QED
          BY <1>1, <3>3, <5>1
      <4>2. ASSUME NEW a \in Addresses, InPool(a) PROVE host'[a] = host[a]
        <5>1. inProgress.graph # a
          BY <4>2 DEF OwnedOnce, HeldOnce
        <5>2. QED
          BY <3>3, <5>1
      <4>3. QED
        BY <3>1, <3>3, <4>1, <4>2, PoolKeptBy, NoneAssumption
    <3>4. QED
      BY <2>4, <3>2, <3>3, RefillStoresMoves
  <2>5. QED
    BY <1>3, <2>1, <2>2, <2>3, <2>4 DEF Worker
<1>4. ASSUME NEW t \in Threads, Guest(t), TakesPooled(t) \/ MissesPool(t) PROVE PoolKept'
  <2>1. UNCHANGED inProgress
    BY <1>4 DEF TakesPooled, MissesPool
  <2>2. CASE ~ RefillStores
    <3>1. \A a \in Addresses : Reserved(a) => host'[a] = host[a]
      BY <2>2, ReservedUntouched
    <3>2. CASE TakesPooled(t)
      <4>1. /\ template'.shape = template.shape /\ Len(pool') = Len(pool) - 1 /\ pool # <<>>
            /\ \A i \in 1 .. Len(pool) - 1 : pool'[i] = pool[i]
            /\ pool' \in Seq(Addresses) /\ Len(pool') + pending' <= Target
        BY <1>1, <3>2, TakesPooledMoves DEF PoolOK
      <4>2. \A i \in DOMAIN pool' : i \in DOMAIN pool /\ pool'[i] = pool[i]
        BY <1>1, <4>1
      <4>3. QED
        BY <2>1, <3>1, <4>1, <4>2, PoolKeptBy
    <3>3. CASE MissesPool(t)
      <4>1. /\ Len(pool') + pending' <= Target
            /\ (pool' = pool /\ template'.shape = template.shape) \/ pool' = <<>>
        BY <1>1, <3>3, MissesPoolMoves
      <4>2. \A i \in DOMAIN pool' : i \in DOMAIN pool /\ pool'[i] = pool[i]
        BY <1>1, <4>1
      <4>3. QED
        BY <2>1, <3>1, <4>1, <4>2, PoolKeptBy
    <3>4. QED
      BY <1>4, <3>2, <3>3
  <2>3. QED
    BY <1>3, <2>2 DEF Worker
<1>5. ASSUME NEW t \in Threads, Guest(t), ~ TakesPooled(t), ~ MissesPool(t) PROVE PoolKept'
  <2>1. UNCHANGED <<template, pool, pending, inProgress>>
    BY <1>5, ZenonT(60) DEF Guest, NewAUGraph, Synchronizes, Builds, Disconnects, SetsInput, Answers,
         OpensUnpooled, SwapsGraph, Initialize, Start, Stop, AddRenderNotify, TearDown, Enqueues,
         PerformsInline, SetParameter, pools, work
  <2>2. CASE RefillStores
    BY <1>3, <2>2 DEF Worker
  <2>3. CASE ~ RefillStores
    BY <1>2, <2>1, <2>3
  <2>4. QED
    BY <2>2, <2>3
<1>6. CASE UNCHANGED vars
  <2>1. UNCHANGED <<template, pool, pending, inProgress, host>>
    BY <1>6 DEF vars, pools, work
  <2>2. QED
    BY <2>1 DEF PoolKept
<1>7. QED
  BY <1>3, <1>4, <1>5, <1>6 DEF Next

-----------------------------------------------------------------------------
(* The callbacks: what CoreAudio has of them, and what will give it one *)
Asked(t) == pc[t] \in {"enqueue", "inline"}
Task(o) == (\E i \in DOMAIN Waiting : Waiting[i] = o) \/ (\E t \in Threads : Asked(t) /\ call[t] = o)
Hooked(a) == host[a] # None => \A c \in host[a].hooks : ctx[c] # None /\ ctx[c].owner = a
AttachedOnce(c) ==
  /\ \A i, j \in DOMAIN Waiting : Attaches(Waiting[i], c) /\ Attaches(Waiting[j], c) => i = j
  /\ \A i \in DOMAIN Waiting, t \in Threads : ~ (Attaches(Waiting[i], c) /\ Calling(t, c))
  /\ \A t, u \in Threads : Calling(t, c) /\ Calling(u, c) => t = u

LEMMA HooksParts ==
  HooksOwned <=> /\ \A a \in Addresses : Hooked(a)
                 /\ \A o : Task(o) => Fits(o)
                 /\ \A c \in Callbacks : AttachedOnce(c)
<1>1. (\A o : Task(o) => Fits(o)) <=> /\ \A i \in DOMAIN Waiting : Fits(Waiting[i])
                                      /\ \A t \in Threads : pc[t] \in {"enqueue", "inline"} => Fits(call[t])
  BY Zenon DEF Task, Asked
<1>2. QED
  BY <1>1, Zenon DEF HooksOwned, Hooked, AttachedOnce

LEMMA HooksPartsNext ==
  ASSUME \A a \in Addresses : Hooked(a)', \A o : Task(o)' => Fits(o)',
         \A c \in Callbacks : AttachedOnce(c)'
  PROVE  HooksOwned'
<1>1. ASSUME NEW i \in DOMAIN Waiting' PROVE Fits(Waiting[i])'
  <2>1. PICK o : o = Waiting'[i]
    OBVIOUS
  <2>2. Fits(o)'
    BY <2>1 DEF Task
  <2>3. QED
    BY <2>1, <2>2 DEF Fits
<1>2. ASSUME NEW t \in Threads, pc'[t] \in {"enqueue", "inline"} PROVE Fits(call[t])'
  <2>1. PICK o : o = call'[t]
    OBVIOUS
  <2>2. Fits(o)'
    BY <1>2, <2>1 DEF Task, Asked
  <2>3. QED
    BY <2>1, <2>2 DEF Fits
<1>3. QED
  BY <1>1, <1>2, Zenon DEF HooksOwned, Hooked, AttachedOnce

LEMMA TaskTyped ==
  ASSUME TypeOK, NEW o, Task(o)
  PROVE  /\ o \in Ops /\ (o.kind = "notify" => o.arg \in Callbacks /\ o.graph \in Addresses)
<1>1. o \in Ops
  <2>1. CASE \E i \in DOMAIN Waiting : Waiting[i] = o
    BY <2>1, TypeParts, WaitingTyped
  <2>2. CASE \E t \in Threads : Asked(t) /\ call[t] = o
    BY <2>2, TypeParts DEF Asked, CallsOK
  <2>3. QED
    BY <2>1, <2>2 DEF Task
<1>2. QED
  BY <1>1, OpGraph

\* No step but two makes a notify operation pending that was not.
Unasked(t) == Asked(t)' => Still(t) \/ call'[t].kind # "notify"

LEMMA TasksKept ==
  ASSUME NEW k, Slides(k), \A i \in Added(k) : Waiting'[i].kind # "notify", \A t \in Threads : Unasked(t)
  PROVE  /\ \A o : Task(o)' /\ o.kind = "notify" => Task(o)
         /\ \A c : AttachedOnce(c) => AttachedOnce(c)'
<1>1. ASSUME NEW i \in DOMAIN Waiting', Waiting'[i].kind = "notify"
      PROVE  i + k \in DOMAIN Waiting /\ Waiting[i + k] = Waiting'[i]
  <2>1. i \in 1 .. Len(Waiting') /\ Len(Waiting) \in Nat /\ Len(Waiting') \in Nat /\ k \in {0, 1}
    BY DEF Slides
  <2>2. i \notin Added(k)
    BY <1>1
  <2>3. i \in 1 .. Len(Waiting) - k
    BY <2>1, <2>2 DEF Added
  <2>4. i + k \in 1 .. Len(Waiting)
    BY <2>1, <2>3
  <2>5. QED
    BY <2>3, <2>4 DEF Slides
<1>2. ASSUME NEW t \in Threads, Asked(t)', call'[t].kind = "notify" PROVE Asked(t) /\ call[t] = call'[t]
  BY <1>2 DEF Unasked, Still, Asked
<1>3. ASSUME NEW o, Task(o)', o.kind = "notify" PROVE Task(o)
  <2>1. CASE \E i \in DOMAIN Waiting' : Waiting'[i] = o
    BY <1>1, <1>3, <2>1 DEF Task
  <2>2. CASE \E t \in Threads : Asked(t)' /\ call'[t] = o
    BY <1>2, <1>3, <2>2 DEF Task
  <2>3. QED
    BY <1>3, <2>1, <2>2 DEF Task
<1>4. ASSUME NEW c, AttachedOnce(c) PROVE AttachedOnce(c)'
  <2>1. ASSUME NEW i \in DOMAIN Waiting', Attaches(Waiting'[i], c)
        PROVE  i + k \in DOMAIN Waiting /\ Attaches(Waiting[i + k], c) /\ i \in Nat /\ k \in Nat
    BY <1>1, <2>1 DEF Attaches, Slides
  <2>2. ASSUME NEW t \in Threads, Calling(t, c)' PROVE Calling(t, c)
    BY <1>2, <2>2 DEF Calling, Attaches, Asked
  <2>3. ASSUME NEW i \in DOMAIN Waiting', NEW j \in DOMAIN Waiting',
               Attaches(Waiting'[i], c), Attaches(Waiting'[j], c)
        PROVE  i = j
    <3>1. i + k = j + k /\ i \in Nat /\ j \in Nat /\ k \in Nat
      BY <1>4, <2>1, <2>3 DEF AttachedOnce
    <3>2. QED
      BY <3>1
  <2>4. ASSUME NEW i \in DOMAIN Waiting', NEW t \in Threads PROVE ~ (Attaches(Waiting'[i], c) /\ Calling(t, c)')
    BY <1>4, <2>1, <2>2 DEF AttachedOnce
  <2>5. QED
    BY <1>4, <2>2, <2>3, <2>4 DEF AttachedOnce, Attaches
<1>5. QED
  BY <1>3, <1>4

LEMMA HooksKeptBy ==
  ASSUME TypeOK, HooksOwned,
         \A a \in Addresses, c \in Callbacks : host'[a] # None /\ c \in host'[a].hooks =>
            /\ host[a] # None /\ c \in host[a].hooks /\ ctx'[c] # None /\ ctx'[c].owner = ctx[c].owner,
         \A o : Task(o)' /\ o.kind = "notify" =>
            /\ Task(o) /\ ctx'[o.arg] # None /\ ctx'[o.arg].owner = ctx[o.arg].owner
            /\ host'[o.graph] # None,
         \A c \in Callbacks : AttachedOnce(c) => AttachedOnce(c)', HostOK'
  PROVE  HooksOwned'
<1>1. ASSUME NEW a \in Addresses, host'[a] # None, NEW c \in host'[a].hooks
      PROVE  ctx'[c] # None /\ ctx'[c].owner = a
  <2>1. c \in Callbacks
    BY <1>1 DEF HostOK, HostGraphs
  <2>2. QED
    BY <1>1, <2>1, HooksParts DEF Hooked
<1>2. ASSUME NEW o, Task(o)' PROVE Fits(o)'
  <2>1. CASE o.kind = "notify"
    <3>1. Fits(o) /\ o.arg \in Callbacks /\ o.graph \in Addresses
      BY <1>2, <2>1, HooksParts, TaskTyped
    <3>2. o.arg \notin host'[o.graph].hooks
      BY <1>2, <2>1, <3>1 DEF Fits
    <3>3. QED
      BY <1>2, <2>1, <3>1, <3>2 DEF Fits
  <2>2. QED
    BY <2>1 DEF Fits
<1>3. \A a \in Addresses : Hooked(a)'
  BY <1>1 DEF Hooked
<1>4. QED
  BY <1>2, <1>3, HooksParts, HooksPartsNext

\* A step that takes no graph and no context away and gives CoreAudio no callback.
LEMMA HooksStill ==
  ASSUME TypeOK, HooksOwned, NEW k, Slides(k), \A i \in Added(k) : Waiting'[i].kind # "notify",
         \A t \in Threads : Unasked(t), HostOK',
         \A a \in Addresses, c \in Callbacks : host'[a] # None /\ c \in host'[a].hooks =>
            host[a] # None /\ c \in host[a].hooks,
         \A a \in Addresses : host[a] # None => host'[a] # None,
         \A c \in Callbacks : ctx[c] # None => ctx'[c] # None /\ ctx'[c].owner = ctx[c].owner
  PROVE  HooksOwned'
<1>1. \A o : Task(o)' /\ o.kind = "notify" => Task(o)
  BY TasksKept
<1>2. \A c : AttachedOnce(c) => AttachedOnce(c)'
  BY TasksKept
<1>3. ASSUME NEW a \in Addresses, NEW c \in Callbacks, host'[a] # None, c \in host'[a].hooks
      PROVE  host[a] # None /\ c \in host[a].hooks /\ ctx'[c] # None /\ ctx'[c].owner = ctx[c].owner
  BY <1>3, HooksParts DEF Hooked
<1>4. ASSUME NEW o, Task(o)', o.kind = "notify"
      PROVE  /\ Task(o) /\ ctx'[o.arg] # None /\ ctx'[o.arg].owner = ctx[o.arg].owner
             /\ host'[o.graph] # None
  <2>1. Task(o) /\ Fits(o) /\ o.arg \in Callbacks /\ o.graph \in Addresses
    BY <1>1, <1>4, HooksParts, TaskTyped
  <2>2. QED
    BY <1>4, <2>1 DEF Fits
<1>5. QED
  BY <1>2, <1>3, <1>4, HooksKeptBy

LEMMA QuietHooks ==
  ASSUME TypeOK, HooksOwned, Quiet
  PROVE  HooksOwned'
<1>1. PICK k \in {0, 1} : Takes(k)
  BY DEF Quiet
<1>2. Slides(k) /\ Added(k) = {}
  BY <1>1 DEF Takes
<1>3. \A t \in Threads : Unasked(t)
  BY DEF Quiet, Resting, Unasked, Asked
<1>4. HostOK' /\ UNCHANGED <<host, ctx>>
  BY TypeKept DEF Quiet
<1>5. QED
  BY <1>2, <1>3, <1>4, HooksStill

LEMMA RefillHooks ==
  ASSUME TypeOK, OwnedOnce, OpsOwned, HooksOwned, RefillBuilds \/ RefillStores
  PROVE  HooksOwned'
<1>1. UNCHANGED <<queue, ctx, pc, call>> /\ HostOK'
  BY RefillBuildsMoves, RefillStoresMoves DEF RefillBuilds, RefillStores, guest
<1>2. inProgress.place # "perform" /\ inProgress'.place # "perform"
  BY RefillBuildsMoves, RefillStoresMoves DEF RefillBuilds, RefillStores
<1>3. Slides(0) /\ Added(0) = {}
  BY <1>1, <1>2, WaitingKept, SlidesSame
<1>4. \A t \in Threads : Unasked(t)
  BY <1>1 DEF Unasked, Still
<1>5. CASE RefillBuilds
  <2>1. CASE UNCHANGED host
    BY <1>1, <1>3, <1>4, <2>1, HooksStill
  <2>2. CASE ~ UNCHANGED host
    <3>1. PICK b \in Addresses : /\ host[b] = None /\ inProgress.shape \in Shapes
                                 /\ host'[b] = Built(inProgress.shape)
                                 /\ \A a \in Addresses \ {b} : host'[a] = host[a]
      BY <1>5, <2>2, RefillBuildsMoves
    <3>2. host'[b].hooks = {} /\ host'[b] # None
      BY <3>1, BuiltTyped
    <3>3. QED
      BY <1>1, <1>3, <1>4, <3>1, <3>2, HooksStill
  <2>3. QED
    BY <2>1, <2>2
<1>6. CASE RefillStores
  <2>1. CASE UNCHANGED host
    BY <1>1, <1>3, <1>4, <2>1, HooksStill
  <2>2. CASE ~ UNCHANGED host
    <3>1. \A b \in Addresses : host'[b] = IF b = inProgress.graph THEN None ELSE host[b]
      BY <1>6, <2>2, RefillStoresMoves
    <3>2. \A o : Task(o)' /\ o.kind = "notify" => Task(o)
      BY <1>3, <1>4, TasksKept
    <3>3. \A c : AttachedOnce(c) => AttachedOnce(c)'
      BY <1>3, <1>4, TasksKept
    <3>4. ASSUME NEW o, Task(o), o.kind = "notify"
          PROVE  ctx[o.arg] # None /\ host'[o.graph] # None
      <4>1. o.graph \in Addresses /\ Fits(o)
        BY <3>4, TaskTyped, HooksParts
      <4>2. CASE o.graph = inProgress.graph
        <5>1. Reserved(o.graph)
          BY <4>2 DEF Reserved
        <5>2. QED
          BY <3>4, <4>1, <5>1, ReservedApart DEF Task, Asked
      <4>3. QED
        BY <3>1, <3>4, <4>1, <4>2 DEF Fits
    <3>5. \A a \in Addresses, c \in Callbacks : host'[a] # None /\ c \in host'[a].hooks =>
            host[a] # None /\ c \in host[a].hooks /\ ctx[c] # None
      BY <3>1, HooksParts DEF Hooked
    <3>6. QED
      BY <1>1, <3>2, <3>3, <3>4, <3>5, HooksKeptBy
  <2>3. QED
    BY <2>1, <2>2
<1>7. QED
  BY <1>5, <1>6

\* What the worker or a thread makes of an operation, which is then done with.
LEMMA DoesHooks ==
  ASSUME TypeOK, HooksOwned, NEW o \in Ops, o.graph \in Addresses, host[o.graph] \in HostGraphs,
         Does(o), Task(o), \A p : Task(p)' /\ p.kind = "notify" => Task(p),
         \A c \in Callbacks : AttachedOnce(c) => AttachedOnce(c)',
         o.kind = "dispose" => \A p : Task(p)' => p.graph # o.graph,
         o.kind = "notify" => \A p : Task(p)' => ~ Attaches(p, o.arg)
  PROVE  HooksOwned'
<1> DEFINE a == o.graph
<1>1. HostOK /\ CtxOK /\ HandlesOK
  BY TypeParts
<1>2. \A b \in Addresses : Hooked(b)
  BY HooksParts
<1>3. \A p : Task(p) => Fits(p)
  BY HooksParts
<1>4. \A p : Task(p) /\ p.kind = "notify" => p.arg \in Callbacks /\ p.graph \in Addresses
  BY TaskTyped
<1>5. CASE Carries(o) /\ o.kind # "notify"
  <2>1. /\ HostOK' /\ host'[a] = After(host[a], o) /\ host'[a] \in HostGraphs
        /\ \A b \in Addresses \ {a} : host'[b] = host[b]
    BY <1>1, <1>5, CarriesMoves
  <2>2. After(host[a], o).hooks \subseteq host[a].hooks
    <3>1. Follows(After(host[a], o), host[a], o)
      BY AfterIs
    <3>2. o.kind # "input"
      BY OpGraph
    <3>3. QED
      BY <1>5, <3>1, <3>2 DEF Follows
  <2>3. UNCHANGED ctx /\ host[a] # None /\ host'[a] # None
    BY <1>5, <2>1, NoneAssumption DEF Carries
  <2>4. \A b \in Addresses, c \in Callbacks : host'[b] # None /\ c \in host'[b].hooks =>
            /\ host[b] # None /\ c \in host[b].hooks /\ ctx'[c] # None /\ ctx'[c].owner = ctx[c].owner
    BY <1>2, <2>1, <2>2, <2>3 DEF Hooked
  <2>5. \A p : Task(p)' /\ p.kind = "notify" =>
            /\ Task(p) /\ ctx'[p.arg] # None /\ ctx'[p.arg].owner = ctx[p.arg].owner
            /\ host'[p.graph] # None
    BY <1>3, <1>4, <2>1, <2>3 DEF Fits
  <2>6. QED
    BY <2>1, <2>4, <2>5, HooksKeptBy
<1>6. CASE Carries(o) /\ o.kind = "notify"
  <2>1. /\ HostOK' /\ host'[a] = After(host[a], o) /\ host'[a] \in HostGraphs
        /\ \A b \in Addresses \ {a} : host'[b] = host[b]
    BY <1>1, <1>6, CarriesMoves
  <2>2. host'[a].hooks = host[a].hooks \cup {o.arg}
    <3>1. Follows(After(host[a], o), host[a], o)
      BY AfterIs
    <3>2. QED
      BY <1>6, <2>1, <3>1 DEF Follows
  <2>3. UNCHANGED ctx /\ host[a] # None /\ host'[a] # None
    BY <1>6, <2>1, NoneAssumption DEF Carries
  <2>4. Fits(o) /\ o.arg \in Callbacks
    BY <1>3, <1>4, <1>6
  <2>5. \A b \in Addresses : Hooked(b)'
    BY <1>2, <2>1, <2>2, <2>3, <2>4, <1>6 DEF Hooked, Fits
  <2>6. ASSUME NEW p, Task(p)' PROVE Fits(p)'
    <3>1. CASE p.kind = "notify"
      <4>1. Task(p) /\ Fits(p) /\ p.arg # o.arg /\ p.arg \in Callbacks /\ p.graph \in Addresses
        BY <1>3, <1>4, <1>6, <2>6, <3>1 DEF Attaches
      <4>2. host'[p.graph] # None /\ p.arg \notin host'[p.graph].hooks
        BY <2>1, <2>2, <2>3, <3>1, <4>1 DEF Fits
      <4>3. QED
        BY <2>3, <3>1, <4>1, <4>2 DEF Fits
    <3>2. QED
      BY <3>1 DEF Fits
  <2>7. QED
    BY <2>5, <2>6, HooksParts, HooksPartsNext
<1>7. CASE Frees(o) \/ (Abandons(o) /\ o.kind = "dispose")
  <2>1. /\ HostOK' /\ \A b \in Addresses \ {a} : host'[b] = host[b]
        /\ host'[a] = None \/ host'[a].hooks = {}
        /\ \A c \in Callbacks : ctx'[c] = IF ctx[c] # None /\ ctx[c].owner = a THEN None ELSE ctx[c]
        /\ o.kind = "dispose"
    <3>1. CASE Frees(o)
      BY <1>1, <3>1, FreesMoves DEF Frees
    <3>2. CASE Abandons(o) /\ o.kind = "dispose"
      BY <1>1, <3>2, AbandonsMoves
    <3>3. QED
      BY <1>7, <3>1, <3>2
  <2>2. \A b \in Addresses, c \in Callbacks : host'[b] # None /\ c \in host'[b].hooks =>
            /\ host[b] # None /\ c \in host[b].hooks /\ ctx'[c] # None /\ ctx'[c].owner = ctx[c].owner
    BY <1>2, <2>1 DEF Hooked
  <2>3. ASSUME NEW p, Task(p)', p.kind = "notify"
        PROVE  /\ Task(p) /\ ctx'[p.arg] # None /\ ctx'[p.arg].owner = ctx[p.arg].owner
               /\ host'[p.graph] # None
    <3>1. Task(p) /\ Fits(p) /\ p.graph # a /\ p.arg \in Callbacks /\ p.graph \in Addresses
      BY <1>3, <1>4, <2>1, <2>3
    <3>2. QED
      BY <2>1, <2>3, <3>1 DEF Fits
  <2>4. QED
    BY <2>1, <2>2, <2>3, HooksKeptBy
<1>8. CASE Abandons(o) /\ o.kind # "dispose"
  <2>1. /\ HostOK' /\ host'[a] \in HostGraphs /\ host'[a].hooks \subseteq host[a].hooks
        /\ \A b \in Addresses \ {a} : host'[b] = host[b]
        /\ ctx' = ctx
    BY <1>1, <1>8, AbandonsMoves
  <2>2. host[a] # None /\ host'[a] # None
    BY <2>1, NoneAssumption
  <2>3. \A b \in Addresses, c \in Callbacks : host'[b] # None /\ c \in host'[b].hooks =>
            /\ host[b] # None /\ c \in host[b].hooks /\ ctx'[c] # None /\ ctx'[c].owner = ctx[c].owner
    BY <1>2, <2>1, <2>2 DEF Hooked
  <2>4. \A p : Task(p)' /\ p.kind = "notify" =>
            /\ Task(p) /\ ctx'[p.arg] # None /\ ctx'[p.arg].owner = ctx[p.arg].owner
            /\ host'[p.graph] # None
    BY <1>3, <1>4, <2>1, <2>2 DEF Fits
  <2>5. QED
    BY <2>1, <2>3, <2>4, HooksKeptBy
<1>9. CASE Refuses(o)
  <2>1. o.kind = "notify" /\ UNCHANGED host /\ o.arg \in Callbacks
        /\ \A c \in Callbacks \ {o.arg} : ctx'[c] = ctx[c]
    BY <1>1, <1>9, RefusesMoves DEF Refuses
  <2>2. Fits(o) /\ HostOK'
    BY <1>1, <1>3, <2>1 DEF HostOK
  <2>3. ASSUME NEW b \in Addresses, host[b] # None PROVE o.arg \notin host[b].hooks
    BY <1>2, <2>1, <2>2, <2>3 DEF Hooked, Fits
  <2>4. \A b \in Addresses, c \in Callbacks : host'[b] # None /\ c \in host'[b].hooks =>
            /\ host[b] # None /\ c \in host[b].hooks /\ ctx'[c] # None /\ ctx'[c].owner = ctx[c].owner
    BY <1>2, <2>1, <2>3 DEF Hooked
  <2>5. \A p : Task(p)' /\ p.kind = "notify" =>
            /\ Task(p) /\ ctx'[p.arg] # None /\ ctx'[p.arg].owner = ctx[p.arg].owner
            /\ host'[p.graph] # None
    BY <1>3, <1>4, <2>1 DEF Fits, Attaches
  <2>6. QED
    BY <2>2, <2>4, <2>5, HooksKeptBy
<1>10. QED
  BY <1>5, <1>6, <1>7, <1>8, <1>9 DEF Does

\* Nothing else is pending for a graph whose disposal is.
LEMMA DisposalApart ==
  ASSUME TypeOK, OwnedOnce, OpsOwned, NEW i \in DOMAIN Waiting, Waiting[i].kind = "dispose",
         NEW a \in Addresses, a = Waiting[i].graph
  PROVE  /\ \A t \in Threads : graphOf[t] # a /\ (Asked(t) => call[t].graph # a)
         /\ \A j \in DOMAIN Waiting : j > i => Waiting[j].graph # a
<1>1. InWaiting(a)
  BY DEF InWaiting, Disposes
<1>2. /\ \A t \in Threads : ~ Holds(t, a)
      /\ \A j, l \in DOMAIN Waiting : Disposes(Waiting[j], a) /\ Disposes(Waiting[l], a) => j = l
  BY <1>1 DEF OwnedOnce, HeldOnce
<1>3. ASSUME NEW t \in Threads PROVE graphOf[t] # a /\ (Asked(t) => ~ Disposes(call[t], a))
  BY <1>2 DEF Holds, InCall, Asked
<1>4. ASSUME NEW t \in Threads, Asked(t) PROVE call[t].graph # a
  BY <1>3, <1>4, OpsOwnedParts DEF CallOwned, Disposes, Asked
<1>5. ASSUME NEW j \in DOMAIN Waiting, j > i PROVE Waiting[j].graph # a
  <2>0. i \in Nat /\ j \in Nat
    BY TypeParts, WaitingTyped
  <2>1. CASE Waiting[j].kind = "dispose"
    BY <1>2, <1>5, <2>0, <2>1 DEF Disposes
  <2>2. CASE Waiting[j].kind = "refill"
    BY <2>2, TypeParts, WaitingTyped, OpGraph, NoneAssumption
  <2>3. CASE Waiting[j].kind \notin {"dispose", "refill"}
    <3>1. SUFFICES ASSUME Waiting[j].graph = a PROVE FALSE
      OBVIOUS
    <3>2. ~ \E t \in Threads : Keeps(t, a)
      BY <1>3 DEF Keeps, Asked
    <3>3. PICK l \in DOMAIN Waiting : l > j /\ Disposes(Waiting[l], a)
      BY <2>3, <3>1, <3>2, OpsOwnedParts DEF QueueOwned
    <3>4. l = i
      BY <1>2, <3>3 DEF Disposes
    <3>5. QED
      BY <1>5, <2>0, <3>3, <3>4
  <2>4. QED
    BY <2>1, <2>2, <2>3
<1>6. QED
  BY <1>3, <1>4, <1>5

LEMMA CallApart ==
  ASSUME TypeOK, OwnedOnce, OpsOwned, NEW t \in Threads, Asked(t), call[t].kind = "dispose",
         NEW a \in Addresses, a = call[t].graph
  PROVE  /\ ~ InWaiting(a)
         /\ \A u \in Threads : graphOf[u] # a /\ (u # t /\ Asked(u) => call[u].graph # a)
<1>1. Holds(t, a) /\ InCall(t, a)
  BY DEF InCall, Disposes, Holds, Asked
<1>2. /\ \A u \in Threads : Holds(u, a) => u = t
      /\ ~ InWaiting(a) /\ graphOf[t] # a
  BY <1>1 DEF OwnedOnce, HeldOnce
<1>3. ASSUME NEW u \in Threads PROVE graphOf[u] # a /\ (u # t /\ Asked(u) => ~ Disposes(call[u], a))
  BY <1>2 DEF Holds, InCall, Asked
<1>4. ASSUME NEW u \in Threads, u # t, Asked(u) PROVE call[u].graph # a
  BY <1>3, <1>4, OpsOwnedParts DEF CallOwned, Disposes, Asked
<1>5. QED
  BY <1>2, <1>3, <1>4

LEMMA InlineAlone ==
  ASSUME TypeOK, ModeKept, NEW t \in Threads, pc[t] = "inline"
  PROVE  ~ Deferred /\ DOMAIN Waiting = {} /\ Waiting = <<>> /\ queue = <<>> /\ inProgress = Idle
<1>1. ~ Deferred /\ queue = <<>> /\ inProgress = Idle
  BY DEF ModeKept
<1>2. Waiting = <<>> \o <<>>
  BY <1>1 DEF Idle, Waiting
<1>3. QED
  BY <1>1, <1>2

LEMMA PerformsOpHooks ==
  ASSUME TypeOK, OwnedOnce, OpsOwned, HooksOwned, PerformsOp
  PROVE  HooksOwned'
<1>1. PICK o : o = inProgress.op
  OBVIOUS
<1>2. /\ o \in Ops /\ o.graph \in Addresses /\ host[o.graph] \in HostGraphs /\ Does(o)
      /\ o = Waiting[1] /\ 1 \in DOMAIN Waiting /\ Slides(1) /\ Added(1) = {} /\ UNCHANGED <<pc, call>>
  BY <1>1, PerformsOpMoves
<1>3. \A t \in Threads : Unasked(t)
  BY <1>2 DEF Unasked, Still
<1>4. Task(o)
  BY <1>2 DEF Task
<1>5. \A p : Task(p)' /\ p.kind = "notify" => Task(p)
  BY <1>2, <1>3, TasksKept
<1>6. \A c : AttachedOnce(c) => AttachedOnce(c)'
  BY <1>2, <1>3, TasksKept
<1>7. ASSUME NEW i \in DOMAIN Waiting' PROVE \E j \in DOMAIN Waiting : j > 1 /\ Waiting'[i] = Waiting[j]
  <2>1. i \in 1 .. Len(Waiting') /\ Len(Waiting) \in Nat /\ Len(Waiting') \in Nat
    BY <1>2 DEF Slides
  <2>2. i \in 1 .. Len(Waiting) - 1
    BY <1>2, <2>1 DEF Added
  <2>3. i + 1 \in 1 .. Len(Waiting) /\ i + 1 > 1 /\ Waiting'[i] = Waiting[i + 1]
    BY <1>2, <2>1, <2>2 DEF Slides
  <2>4. QED
    BY <1>2, <2>3 DEF Slides
<1>8. ASSUME NEW p, Task(p)'
      PROVE  (\E j \in DOMAIN Waiting : j > 1 /\ p = Waiting[j]) \/ \E t \in Threads : Asked(t) /\ call[t] = p
  <2>1. CASE \E i \in DOMAIN Waiting' : Waiting'[i] = p
    BY <1>7, <2>1
  <2>2. CASE \E t \in Threads : Asked(t)' /\ call'[t] = p
    BY <1>2, <2>2 DEF Asked
  <2>3. QED
    BY <1>8, <2>1, <2>2 DEF Task
<1>9. ASSUME o.kind = "dispose", NEW p, Task(p)' PROVE p.graph # o.graph
  BY <1>2, <1>8, <1>9, DisposalApart
<1>10. ASSUME o.kind = "notify", NEW p, Task(p)' PROVE ~ Attaches(p, o.arg)
  <2>1. o.arg \in Callbacks /\ AttachedOnce(o.arg) /\ Attaches(Waiting[1], o.arg)
    BY <1>2, <1>10, OpGraph, HooksParts DEF Attaches
  <2>2. ASSUME NEW j \in DOMAIN Waiting, j > 1 PROVE ~ Attaches(Waiting[j], o.arg)
    BY <1>2, <2>1, <2>2 DEF AttachedOnce
  <2>3. ASSUME NEW t \in Threads, Asked(t) PROVE ~ Attaches(call[t], o.arg)
    BY <1>2, <2>1, <2>3 DEF AttachedOnce, Calling, Asked
  <2>4. QED
    BY <1>8, <1>10, <2>2, <2>3
<1>11. QED
  BY <1>2, <1>4, <1>5, <1>6, <1>9, <1>10, DoesHooks

LEMMA InlineHooks ==
  ASSUME TypeOK, ModeKept, OwnedOnce, OpsOwned, HooksOwned, NEW t \in Threads, PerformsInline(t)
  PROVE  HooksOwned'
<1>1. PICK o : o = call[t]
  OBVIOUS
<1>2. /\ pc[t] = "inline" /\ pc'[t] = "run" /\ Does(o) /\ o \in Ops /\ o.graph \in Addresses
      /\ host[o.graph] \in HostGraphs /\ \A u \in Threads \ {t} : pc'[u] = pc[u] /\ call'[u] = call[u]
      /\ UNCHANGED <<queue, inProgress>>
  BY <1>1, InlineMoves
<1>3. Waiting' = Waiting /\ DOMAIN Waiting = {}
  BY <1>2, WaitingKept, InlineAlone
<1>4. Slides(0) /\ Added(0) = {}
  BY <1>3, SlidesSame
<1>5. \A u \in Threads : Unasked(u)
  BY <1>2 DEF Unasked, Still, Asked
<1>6. Task(o) /\ Asked(t)
  BY <1>1, <1>2 DEF Task, Asked
<1>7. \A p : Task(p)' /\ p.kind = "notify" => Task(p)
  BY <1>4, <1>5, TasksKept
<1>8. \A c : AttachedOnce(c) => AttachedOnce(c)'
  BY <1>4, <1>5, TasksKept
<1>9. ASSUME NEW p, Task(p)' PROVE \E u \in Threads \ {t} : Asked(u) /\ call[u] = p
  BY <1>2, <1>3, <1>9 DEF Task, Asked
<1>10. ASSUME o.kind = "dispose", NEW p, Task(p)' PROVE p.graph # o.graph
  BY <1>1, <1>2, <1>6, <1>9, <1>10, CallApart
<1>11. ASSUME o.kind = "notify", NEW p, Task(p)' PROVE ~ Attaches(p, o.arg)
  <2>1. o.arg \in Callbacks /\ AttachedOnce(o.arg) /\ Calling(t, o.arg)
    BY <1>1, <1>2, <1>11, OpGraph, HooksParts DEF Attaches, Calling
  <2>2. ASSUME NEW u \in Threads \ {t}, Asked(u) PROVE ~ Attaches(call[u], o.arg)
    BY <2>1, <2>2 DEF AttachedOnce, Calling, Asked
  <2>3. QED
    BY <1>9, <1>11, <2>2
<1>12. QED
  BY <1>2, <1>6, <1>7, <1>8, <1>10, <1>11, DoesHooks

LEMMA NewAUGraphHooks ==
  ASSUME TypeOK, HooksOwned, NEW t \in Threads, NewAUGraph(t)
  PROVE  HooksOwned'
<1>1. UNCHANGED <<queue, inProgress, ctx, pc, call>>
  BY DEF NewAUGraph, work
<1>2. PICK b \in Addresses : /\ host[b] = None /\ host'[b] = Fresh
                             /\ \A a \in Addresses \ {b} : host'[a] = host[a]
  BY NewAUGraphMoves
<1>3. HostOK' /\ Slides(0) /\ Added(0) = {}
  BY <1>1, NewAUGraphMoves, WaitingKept, SlidesSame
<1>4. \A u \in Threads : Unasked(u)
  BY <1>1 DEF Unasked, Still
<1>5. QED
  BY <1>1, <1>2, <1>3, <1>4, HooksStill, FreshTyped

\* A context that is registered now was none, so no graph and no operation has its callback.
LEMMA UnattachedIs ==
  ASSUME TypeOK, HooksOwned, NEW c \in Callbacks, ctx[c] = None
  PROVE  /\ \A a \in Addresses : host[a] # None => c \notin host[a].hooks
         /\ \A o : Task(o) => ~ Attaches(o, c)
<1>1. \A a \in Addresses : host[a] # None => c \notin host[a].hooks
  BY HooksParts DEF Hooked
<1>2. \A o : Task(o) => ~ Attaches(o, c)
  BY HooksParts DEF Fits, Attaches
<1>3. QED
  BY <1>1, <1>2

LEMMA InputHooks ==
  ASSUME TypeOK, OwnedOnce, OpsOwned, HooksOwned, NEW t \in Threads, graphOf[t] # None,
         NEW o, Fitting(o), Makes(t, o), o.kind = "input", Gives(t, o.arg),
         \A u \in Threads : Unasked(u), NEW k, Slides(k), \A i \in Added(k) : Waiting'[i].kind # "notify"
  PROVE  HooksOwned'
<1>1. PICK a : a = graphOf[t]
  OBVIOUS
<1>2. PICK c : c = o.arg
  OBVIOUS
<1>3. a \in Addresses /\ host[a] \in HostGraphs /\ host[a] # None
  BY <1>1, HandleMade, NoneAssumption
<1>4. /\ host'[a] = After(host[a], o) /\ After(host[a], o) \in HostGraphs
      /\ \A b \in Addresses \ {a} : host'[b] = host[b]
  BY <1>1, MakesMoves
<1>5. After(host[a], o).hooks = host[a].hooks \cup {c}
  BY <1>2, <1>3, AfterIs DEF Follows
<1>6. /\ c \in Callbacks /\ ctx[c] = None /\ ctx'[c] # None /\ ctx'[c].owner = a
      /\ \A d \in Callbacks \ {c} : ctx'[d] = ctx[d]
  BY <1>1, <1>2, <1>3, TypeParts, GivesMoves
<1>7. /\ \A b \in Addresses : host[b] # None => c \notin host[b].hooks
      /\ \A p : Task(p) => ~ Attaches(p, c)
  BY <1>6, UnattachedIs
<1>8. \A p : Task(p)' /\ p.kind = "notify" => Task(p)
  BY TasksKept
<1>9. \A d : AttachedOnce(d) => AttachedOnce(d)'
  BY TasksKept
<1>10. ASSUME NEW b \in Addresses, host'[b] # None, NEW d \in host'[b].hooks
       PROVE  ctx'[d] # None /\ ctx'[d].owner = b
  <2>1. d \in Callbacks
    BY <1>4, <1>10, TypeParts DEF HostOK, HostGraphs
  <2>2. CASE d = c
    BY <1>4, <1>6, <1>7, <1>10, <2>2
  <2>3. CASE d # c
    <3>1. host[b] # None /\ d \in host[b].hooks
      BY <1>3, <1>4, <1>5, <1>10, <2>3
    <3>2. ctx'[d] = ctx[d]
      BY <1>6, <2>1, <2>3
    <3>3. QED
      BY <3>1, <3>2, HooksParts DEF Hooked
  <2>4. QED
    BY <2>2, <2>3
<1>11. ASSUME NEW p, Task(p)' PROVE Fits(p)'
  <2>1. CASE p.kind = "notify"
    <3>1. Task(p) /\ Fits(p) /\ p.arg # c /\ p.arg \in Callbacks /\ p.graph \in Addresses
      BY <1>7, <1>8, <1>11, <2>1, HooksParts, TaskTyped DEF Attaches
    <3>2. ctx'[p.arg] = ctx[p.arg]
      BY <1>6, <3>1
    <3>3. host'[p.graph] # None /\ p.arg \notin host'[p.graph].hooks
      <4>1. CASE p.graph = a
        BY <1>3, <1>4, <1>5, <2>1, <3>1, <4>1, NoneAssumption DEF Fits
      <4>2. CASE p.graph # a
        BY <1>4, <2>1, <3>1, <4>2 DEF Fits
      <4>3. QED
        BY <4>1, <4>2
    <3>4. QED
      BY <2>1, <3>1, <3>2, <3>3 DEF Fits
  <2>2. QED
    BY <2>1 DEF Fits
<1>12. \A b \in Addresses : Hooked(b)'
  BY <1>10 DEF Hooked
<1>13. QED
  BY <1>9, <1>11, <1>12, HooksParts, HooksPartsNext

LEMMA AltersHooks ==
  ASSUME TypeOK, OwnedOnce, OpsOwned, HooksOwned, NEW t \in Threads, Alters(t),
         Slides(0), \A i \in Added(0) : Waiting'[i].kind \in {"dispose", "refill"}
  PROVE  HooksOwned'
<1>1. /\ pc'[t] = "run" /\ \A u \in Threads \ {t} : Still(u)
      /\ graphOf[t] \in Addresses /\ graphOf[t] # None
  BY AltersHost, NoneAssumption DEF Alters
<1>2. \A u \in Threads : Unasked(u)
  BY <1>1 DEF Unasked, Asked
<1>3. \A i \in Added(0) : Waiting'[i].kind # "notify"
  OBVIOUS
<1>4. CASE UNCHANGED <<host, ctx>>
  BY <1>2, <1>3, <1>4, TypeKept, HooksStill
<1>5. CASE (\E o : Fitting(o) /\ Makes(t, o) /\ o.kind \in {"nodes", "connections", "disconnect", "open"})
           /\ UNCHANGED ctx
  <2>1. PICK o : Fitting(o) /\ Makes(t, o) /\ o.kind \in {"nodes", "connections", "disconnect", "open"}
    BY <1>5
  <2>2. PICK a : a = graphOf[t]
    OBVIOUS
  <2>3. a \in Addresses /\ host[a] \in HostGraphs /\ host[a] # None
    BY <1>1, <2>2, HandleMade, NoneAssumption
  <2>4. /\ HostOK' /\ host'[a] = After(host[a], o) /\ After(host[a], o) \in HostGraphs
        /\ \A b \in Addresses \ {a} : host'[b] = host[b]
    BY <1>1, <2>1, <2>2, MakesMoves
  <2>5. After(host[a], o).hooks = host[a].hooks
    BY <2>1, <2>3, AfterIs DEF Follows
  <2>6. \A b \in Addresses, c \in Callbacks : host'[b] # None /\ c \in host'[b].hooks =>
            host[b] # None /\ c \in host[b].hooks
    BY <2>3, <2>4, <2>5
  <2>7. \A b \in Addresses : host[b] # None => host'[b] # None
    BY <2>4, NoneAssumption
  <2>8. QED
    BY <1>2, <1>3, <1>5, <2>4, <2>6, <2>7, HooksStill
<1>6. CASE \E o : Fitting(o) /\ Makes(t, o) /\ o.kind = "input" /\ Gives(t, o.arg)
  BY <1>1, <1>2, <1>3, <1>6, InputHooks
<1>7. QED
  BY <1>4, <1>5, <1>6 DEF Alters

LEMMA TakesPooledHooks ==
  ASSUME TypeOK, OwnedOnce, OpsOwned, HooksOwned, NEW t \in Threads, TakesPooled(t)
  PROVE  HooksOwned'
<1>1. /\ pc'[t] = "swap" /\ \A u \in Threads \ {t} : Still(u)
      /\ Waiting' \in Seq(Ops) /\ Len(Waiting') >= Len(Waiting)
      /\ \A i \in 1 .. Len(Waiting) : Waiting'[i] = Waiting[i]
      /\ \A i \in Len(Waiting) + 1 .. Len(Waiting') : Waiting'[i].kind = "refill"
  BY TakesPooledMoves DEF Still
<1>2. UNCHANGED <<host, ctx>>
  BY DEF TakesPooled
<1>3. Slides(0) /\ \A i \in Added(0) : Waiting'[i].kind = "refill"
  BY <1>1, SlidesOn
<1>4. \A u \in Threads : Unasked(u)
  BY <1>1 DEF Unasked, Asked
<1>5. QED
  BY <1>2, <1>3, <1>4, TypeKept, HooksStill

LEMMA SwapsGraphHooks ==
  ASSUME TypeOK, OwnedOnce, OpsOwned, HooksOwned, NEW t \in Threads, SwapsGraph(t)
  PROVE  HooksOwned'
<1>1. /\ call'[t] = Op("dispose", graphOf[t], None) /\ \A u \in Threads \ {t} : Still(u)
      /\ UNCHANGED <<queue, inProgress, ctx, host>>
  BY SwapsGraphMoves DEF Still
<1>2. Slides(0) /\ Added(0) = {}
  BY <1>1, WaitingKept, SlidesSame
<1>3. \A u \in Threads : Unasked(u)
  BY <1>1, OpIs DEF Unasked
<1>4. QED
  BY <1>1, <1>2, <1>3, TypeKept, HooksStill

LEMMA QueuesHooks ==
  ASSUME TypeOK, HooksOwned, NEW t \in Threads, Initialize(t) \/ Start(t) \/ Stop(t) \/ TearDown(t)
  PROVE  HooksOwned'
<1>1. UNCHANGED <<queue, inProgress, host>>
  BY DEF Initialize, Start, Stop, TearDown, work
<1>2. graphOf[t] \in Addresses /\ graphOf[t] # None
  BY InitializeMoves, StartMoves, StopMoves, TearDownMoves, NoneAssumption
<1>3. CtxOK /\ HostOK'
  BY <1>1, TypeParts, TypeKept
<1>4. \A c \in Callbacks : ctx[c] # None => ctx'[c] # None /\ ctx'[c].owner = ctx[c].owner
  <2>1. CASE Initialize(t)
    BY <2>1 DEF Initialize
  <2>2. CASE Start(t)
    <3>1. ctx' = Muted(graphOf[t], FALSE) /\ FALSE \in BOOLEAN
      BY <2>2, StartMoves
    <3>2. QED
      BY <1>2, <1>3, <3>1, MutedIs
  <2>3. CASE Stop(t) \/ TearDown(t)
    BY <1>2, <1>3, <2>3, StopMoves, TearDownMoves, StopMutesMoves
  <2>4. QED
    BY <2>1, <2>2, <2>3
<1>5. call'[t].kind # "notify" /\ \A u \in Threads \ {t} : Still(u)
  <2>1. CASE Initialize(t) \/ Start(t) \/ Stop(t)
    <3>1. PICK k \in {"initialize", "start", "stop"} : Asks(t, Op(k, graphOf[t], None))
      BY <2>1, InitializeMoves, StartMoves, StopMoves
    <3>2. PICK o : o = Op(k, graphOf[t], None)
      OBVIOUS
    <3>3. o.kind # "notify" /\ Asks(t, o)
      BY <3>1, <3>2, OpIs
    <3>4. QED
      BY <1>2, <3>3, AsksMoves DEF Still
  <2>2. CASE TearDown(t)
    <3>1. CASE Drops(t)
      BY <1>2, <3>1, DropsMoves, OpIs DEF Still
    <3>2. CASE \E k \in {"uninitialize", "close"} : Asks(t, Op(k, graphOf[t], None))
      <4>1. PICK o : o.kind # "notify" /\ Asks(t, o)
        BY <3>2, OpIs
      <4>2. QED
        BY <1>2, <4>1, AsksMoves DEF Still
    <3>3. QED
      BY <2>2, <3>1, <3>2, TearDownMoves
  <2>3. QED
    BY <2>1, <2>2
<1>6. \A u \in Threads : Unasked(u)
  BY <1>5 DEF Unasked
<1>7. Slides(0) /\ Added(0) = {}
  BY <1>1, WaitingKept, SlidesSame
<1>8. QED
  BY <1>1, <1>3, <1>4, <1>6, <1>7, HooksStill

LEMMA AddRenderNotifyHooks ==
  ASSUME TypeOK, OwnedOnce, HooksOwned, NEW t \in Threads, AddRenderNotify(t)
  PROVE  HooksOwned'
<1>1. UNCHANGED <<queue, inProgress, graphOf, host>>
  BY DEF AddRenderNotify, work
<1>2. PICK c \in Callbacks : Gives(t, c) /\ Asks(t, Op("notify", graphOf[t], c))
  BY AddRenderNotifyMoves
<1>3. PICK a : a = graphOf[t]
  OBVIOUS
<1>4. a \in Addresses /\ a # None /\ pc[t] = "run" /\ host[a] # None
  BY <1>3, AddRenderNotifyMoves, HandleMade, NoneAssumption DEF Has, Begins
<1>5. PICK o : o = Op("notify", a, c)
  OBVIOUS
<1>6. o.kind = "notify" /\ o.graph = a /\ o.arg = c
  BY <1>5, OpIs
<1>7. /\ call'[t] = o /\ pc'[t] \in {"enqueue", "inline"}
      /\ \A u \in Threads \ {t} : pc'[u] = pc[u] /\ call'[u] = call[u]
  BY <1>2, <1>3, <1>4, <1>5, AsksMoves
<1>8. Waiting' = Waiting
  BY <1>1, WaitingKept
<1>9. /\ ctx[c] = None /\ ctx'[c] # None /\ ctx'[c].owner = a
      /\ \A d \in Callbacks \ {c} : ctx'[d] = ctx[d]
  BY <1>2, <1>3, <1>4, TypeParts, GivesMoves
<1>10. /\ \A b \in Addresses : host[b] # None => c \notin host[b].hooks
       /\ \A p : Task(p) => ~ Attaches(p, c)
  BY <1>9, UnattachedIs
<1>11. ASSUME NEW p, Task(p)' PROVE p = o \/ Task(p)
  <2>1. CASE \E i \in DOMAIN Waiting' : Waiting'[i] = p
    BY <1>8, <2>1 DEF Task
  <2>2. CASE \E u \in Threads : Asked(u)' /\ call'[u] = p
    BY <1>7, <2>2 DEF Task, Asked
  <2>3. QED
    BY <1>11, <2>1, <2>2 DEF Task
<1>12. \A b \in Addresses : Hooked(b)'
  <2>1. ASSUME NEW b \in Addresses, host[b] # None, NEW d \in host[b].hooks PROVE ctx'[d] # None /\ ctx'[d].owner = b
    <3>1. d \in Callbacks /\ d # c
      BY <1>10, <2>1, TypeParts DEF HostOK, HostGraphs
    <3>2. QED
      BY <1>9, <2>1, <3>1, HooksParts DEF Hooked
  <2>2. QED
    BY <1>1, <2>1 DEF Hooked
<1>13. ASSUME NEW p, Task(p)' PROVE Fits(p)'
  <2>1. CASE p = o
    BY <1>1, <1>4, <1>6, <1>9, <1>10, <2>1 DEF Fits
  <2>2. CASE p # o /\ p.kind = "notify"
    <3>1. Task(p) /\ Fits(p) /\ p.arg # c /\ p.arg \in Callbacks
      BY <1>10, <1>11, <1>13, <2>2, HooksParts, TaskTyped DEF Attaches
    <3>2. QED
      BY <1>1, <1>9, <2>2, <3>1 DEF Fits
  <2>3. CASE p.kind # "notify"
    BY <2>3 DEF Fits
  <2>4. QED
    BY <2>1, <2>2, <2>3
<1>14. ASSUME NEW d \in Callbacks PROVE AttachedOnce(d)'
  <2>1. AttachedOnce(d)
    BY HooksParts
  <2>2. ASSUME NEW u \in Threads \ {t} PROVE Calling(u, d)' <=> Calling(u, d)
    BY <1>7, <2>2 DEF Calling, Attaches
  <2>3. Calling(t, d)' => d = c /\ ~ Calling(t, d)
    BY <1>4, <1>6, <1>7 DEF Calling, Attaches
  <2>4. d = c => /\ \A i \in DOMAIN Waiting : ~ Attaches(Waiting[i], d)
                 /\ \A u \in Threads : ~ Calling(u, d)
    BY <1>10 DEF Task, Asked, Calling
  <2>5. ~ Calling(t, d)
    BY <1>4 DEF Calling
  <2>6. CASE d = c
    BY <1>8, <2>2, <2>4, <2>6 DEF AttachedOnce, Attaches
  <2>7. CASE d # c
    <3>1. \A u \in Threads : Calling(u, d)' <=> Calling(u, d)
      BY <2>2, <2>3, <2>5, <2>7
    <3>2. QED
      BY <1>8, <2>1, <3>1 DEF AttachedOnce, Attaches
  <2>8. QED
    BY <2>6, <2>7
<1>15. QED
  BY <1>12, <1>13, <1>14, HooksPartsNext

LEMMA EnqueuesHooks ==
  ASSUME TypeOK, HooksOwned, NEW t \in Threads, Enqueues(t)
  PROVE  HooksOwned'
<1>1. PICK o : o = call[t]
  OBVIOUS
<1>2. PICK n : n = Len(Waiting) + 1
  OBVIOUS
<1>3. /\ pc[t] = "enqueue" /\ pc'[t] = "run" /\ o \in Ops
      /\ \A u \in Threads \ {t} : pc'[u] = pc[u] /\ call'[u] = call[u]
      /\ Waiting' \in Seq(Ops) /\ Len(Waiting') = Len(Waiting) + 1
      /\ \A i \in 1 .. Len(Waiting) : Waiting'[i] = Waiting[i]
      /\ Waiting'[n] = o
  BY <1>1, <1>2, EnqueuesMoves
<1>4. UNCHANGED <<host, ctx>>
  BY DEF Enqueues
<1>5. Waiting \in Seq(Ops) /\ Len(Waiting) \in Nat
  BY TypeParts, WaitingTyped
<1>6. DOMAIN Waiting' = DOMAIN Waiting \cup {n} /\ n \notin DOMAIN Waiting
  BY <1>2, <1>3, <1>5
<1>7. ASSUME NEW p, Task(p)' PROVE Task(p)
  <2>1. CASE \E i \in DOMAIN Waiting' : Waiting'[i] = p
    BY <1>1, <1>3, <1>5, <1>6, <2>1 DEF Task, Asked
  <2>2. CASE \E u \in Threads : Asked(u)' /\ call'[u] = p
    BY <1>3, <2>2 DEF Task, Asked
  <2>3. QED
    BY <1>7, <2>1, <2>2 DEF Task
<1>8. ASSUME NEW c, AttachedOnce(c) PROVE AttachedOnce(c)'
  <2>1. ASSUME NEW u \in Threads, Calling(u, c)' PROVE Calling(u, c) /\ u # t
    BY <1>3, <2>1 DEF Calling, Attaches
  <2>2. ASSUME NEW i \in DOMAIN Waiting', Attaches(Waiting'[i], c)
        PROVE  (i \in DOMAIN Waiting /\ Attaches(Waiting[i], c)) \/ (i = n /\ Calling(t, c))
    BY <1>1, <1>3, <1>5, <1>6, <2>2 DEF Calling, Attaches
  <2>3. \A i, j \in DOMAIN Waiting' : Attaches(Waiting'[i], c) /\ Attaches(Waiting'[j], c) => i = j
    BY <1>8, <2>2 DEF AttachedOnce
  <2>4. \A i \in DOMAIN Waiting', u \in Threads : ~ (Attaches(Waiting'[i], c) /\ Calling(u, c)')
    BY <1>8, <2>1, <2>2 DEF AttachedOnce
  <2>5. QED
    BY <1>8, <2>1, <2>3, <2>4 DEF AttachedOnce, Attaches
<1>9. /\ \A a \in Addresses : Hooked(a)'
      /\ \A p : Task(p)' => Fits(p)'
  BY <1>4, <1>7, HooksParts DEF Hooked, Fits
<1>10. QED
  BY <1>8, <1>9, HooksParts, HooksPartsNext

LEMMA SetParameterHooks ==
  ASSUME TypeOK, OwnedOnce, HooksOwned, NEW t \in Threads, SetParameter(t)
  PROVE  HooksOwned'
<1>1. PICK o : o = Op("parameter", graphOf[t], TRUE)
  OBVIOUS
<1>2. o.kind = "parameter"
  BY <1>1 DEF Op
<1>3. PICK a : a = graphOf[t]
  OBVIOUS
<1>4. /\ a \in Addresses /\ host[a] \in HostGraphs /\ HostOK' /\ UNCHANGED <<ctx, pc, call>>
      /\ \/ UNCHANGED host
         \/ /\ host'[a] = After(host[a], o)
            /\ \A b \in Addresses \ {a} : host'[b] = host[b]
  BY <1>1, <1>3, SetParameterMoves
<1>5. After(host[a], o).hooks = host[a].hooks /\ After(host[a], o) \in HostGraphs
  <2>1. o \in Ops
    BY <1>1, <1>3, <1>4, OpsAre
  <2>2. QED
    BY <1>2, <1>4, <2>1, AfterIs, AfterTyped, OpsFit DEF Follows
<1>6. /\ \A b \in Addresses, c \in Callbacks : host'[b] # None /\ c \in host'[b].hooks =>
            host[b] # None /\ c \in host[b].hooks
      /\ \A b \in Addresses : host[b] # None => host'[b] # None
  BY <1>4, <1>5, NoneAssumption
<1>7. Slides(0) /\ \A i \in Added(0) : Waiting'[i].kind # "notify"
  BY <1>1, <1>2, SetParameterWaits
<1>8. \A u \in Threads : Unasked(u)
  BY <1>4 DEF Unasked, Still
<1>9. QED
  BY <1>4, <1>6, <1>7, <1>8, HooksStill

LEMMA StepHooks ==
  ASSUME TypeOK, ModeKept, OwnedOnce, OpsOwned, HooksOwned, [Next]_vars
  PROVE  HooksOwned'
<1>1. CASE Worker
  BY <1>1, WorkerQuiet, QuietHooks, RefillHooks, PerformsOpHooks DEF Worker
<1>2. ASSUME NEW t \in Threads, Guest(t) PROVE HooksOwned'
  <2>1. CASE Builds(t) \/ Disconnects(t) \/ SetsInput(t) \/ OpensUnpooled(t) \/ MissesPool(t)
    <3>1. Slides(0) /\ \A i \in Added(0) : Waiting'[i].kind \in {"dispose", "refill"}
      BY <2>1, BuildingWaits, MissesAdds
    <3>2. QED
      BY <2>1, <3>1, AltersMoves, AltersHooks
  <2>2. CASE Synchronizes(t) \/ Answers(t)
    <3>1. graphOf[t] # None
      BY <2>2, DrainedHas DEF Synchronizes, Answers, Has
    <3>2. QED
      BY <2>2, <3>1, GuestQuiet, QuietHooks
  <2>3. CASE NewAUGraph(t) \/ TakesPooled(t) \/ SwapsGraph(t)
    BY <2>3, NewAUGraphHooks, TakesPooledHooks, SwapsGraphHooks
  <2>4. CASE \/ Initialize(t) \/ Start(t) \/ Stop(t) \/ AddRenderNotify(t)
             \/ TearDown(t) \/ Enqueues(t) \/ PerformsInline(t) \/ SetParameter(t)
    BY <2>4, QueuesHooks, AddRenderNotifyHooks, EnqueuesHooks, InlineHooks, SetParameterHooks
  <2>5. QED
    BY <1>2, <2>1, <2>2, <2>3, <2>4, Zenon DEF Guest
<1>3. CASE UNCHANGED vars
  BY <1>3, StutterQuiet, QuietHooks
<1>4. QED
  BY <1>1, <1>2, <1>3 DEF Next

-----------------------------------------------------------------------------
(* The topologies: what the guest has made of a graph that may be pooled *)
KeptAt(t) ==
  graphOf[t] # None =>
    /\ Closed(want[t])
    /\ ~ topology[t].unpoolable => want[t].hooks = {} /\ Shape(want[t]) = Shape(topology[t])
    /\ pc[t] = "swap" => /\ ~ topology[t].unpoolable /\ ~ want[t].open
                         /\ host[call[t].graph] = Built(Shape(topology[t]))

LEMMA TopologyParts ==
  /\ TopologyKept <=> \A t \in Threads : KeptAt(t)
  /\ TopologyKept' <=> \A t \in Threads : KeptAt(t)'
BY DEF TopologyKept, KeptAt

LEMMA SwapUntouched ==
  ASSUME TypeOK, OwnedOnce, OpsOwned, [Next]_vars, NEW t \in Threads, pc[t] = "swap",
         NEW a, a = call[t].graph
  PROVE  a \in Addresses /\ host'[a] = host[a]
<1>1. a \in Addresses /\ InCall(t, a) /\ Holds(t, a)
  BY CallMade DEF Holds
<1>2. inProgress.graph # a /\ Reserved(a)
  BY <1>1 DEF OwnedOnce, HeldOnce, Reserved
<1>3. QED
  BY <1>1, <1>2, ReservedUntouched

LEMMA AfterShape ==
  ASSUME NEW g \in HostGraphs, NEW o, o.kind \notin {"nodes", "connections", "disconnect"}
  PROVE  /\ After(g, o).nodes = g.nodes /\ After(g, o).connections = g.connections
         /\ o.kind \notin {"notify", "input"} => After(g, o).hooks \subseteq g.hooks
<1>1. Follows(After(g, o), g, o)
  BY AfterIs
<1>2. QED
  BY <1>1 DEF Follows

\* A thread whose graph stays, and whose topology does if it may be pooled.
LEMMA KeptBy ==
  ASSUME TypeOK, OwnedOnce, OpsOwned, [Next]_vars, NEW t \in Threads, KeptAt(t),
         graphOf'[t] # None => graphOf[t] # None,
         Closed(want[t]) => Closed(want'[t]),
         ~ topology'[t].unpoolable => /\ topology'[t] = topology[t] /\ want'[t].hooks \subseteq want[t].hooks
                                      /\ want'[t].nodes = want[t].nodes
                                      /\ want'[t].connections = want[t].connections,
         pc'[t] = "swap" => Still(t) /\ topology'[t] = topology[t] /\ want'[t].open = want[t].open
  PROVE  KeptAt(t)'
<1>1. ASSUME graphOf'[t] # None, ~ topology'[t].unpoolable
      PROVE  want'[t].hooks = {} /\ Shape(want'[t]) = Shape(topology'[t])
  BY <1>1 DEF KeptAt, Shape
<1>2. ASSUME graphOf'[t] # None, pc'[t] = "swap"
      PROVE  /\ ~ topology'[t].unpoolable /\ ~ want'[t].open
             /\ host'[call'[t].graph] = Built(Shape(topology'[t]))
  <2>1. pc[t] = "swap" /\ call'[t] = call[t]
    BY <1>2 DEF Still
  <2>2. PICK a : a = call[t].graph
    OBVIOUS
  <2>3. host'[a] = host[a]
    BY <2>1, <2>2, SwapUntouched
  <2>4. QED
    BY <1>2, <2>1, <2>2, <2>3 DEF KeptAt
<1>3. graphOf'[t] # None => Closed(want'[t])
  BY DEF KeptAt
<1>4. PICK s : s = topology'[t]
  OBVIOUS
<1>5. KeptAt(t)' <=>
        (graphOf'[t] # None =>
           /\ Closed(want[t])'
           /\ ~ topology'[t].unpoolable => want'[t].hooks = {} /\ Shape(want[t])' = Shape(topology[t])'
           /\ pc'[t] = "swap" => /\ ~ topology'[t].unpoolable /\ ~ want'[t].open
                                 /\ host'[call'[t].graph] = Built(Shape(topology[t]))')
  BY DEF KeptAt
<1>6. /\ Closed(want[t])' <=> Closed(want'[t])
      /\ Shape(want[t])' = Shape(want'[t]) /\ Shape(topology[t])' = Shape(topology'[t])
  BY DEF Closed, Shape
<1>7. Built(Shape(topology[t]))' = Built(Shape(topology'[t]))
  BY DEF Built, Shape
<1>8. QED
  BY <1>1, <1>2, <1>3, <1>5, <1>6, <1>7

LEMMA KeptOther ==
  ASSUME TypeOK, OwnedOnce, OpsOwned, [Next]_vars, NEW t \in Threads, KeptAt(t),
         graphOf'[t] = graphOf[t], topology'[t] = topology[t], want'[t] = want[t],
         Still(t) \/ pc'[t] # "swap"
  PROVE  KeptAt(t)'
BY KeptBy

\* The call that is queued, or made, is one that changes no topology.
LEMMA KeptCalling ==
  ASSUME TypeOK, OwnedOnce, OpsOwned, [Next]_vars, NEW t \in Threads, KeptAt(t), graphOf[t] # None,
         NEW o \in Ops, want'[t] = After(want[t], o), pc'[t] # "swap",
         ~ topology'[t].unpoolable => topology'[t] = topology[t] /\ o.kind # "notify"
  PROVE  KeptAt(t)'
<1>1. want[t] \in HostGraphs /\ o.kind \notin {"nodes", "connections", "disconnect", "input"}
  BY HandleMade, OpGraph DEF Ops, Teardown
<1>2. /\ want'[t].nodes = want[t].nodes /\ want'[t].connections = want[t].connections
      /\ o.kind # "notify" => want'[t].hooks \subseteq want[t].hooks
  BY <1>1, AfterShape
<1>3. Closed(want[t]) => Closed(want'[t])
  BY <1>1, AfterClosed
<1>4. QED
  BY <1>2, <1>3, KeptBy

\* What the worker or a thread makes of an operation is to the handles' threads
\* nothing, or that a notification was refused.
LEMMA DoesTopology ==
  ASSUME TypeOK, OwnedOnce, OpsOwned, TopologyKept, [Next]_vars, NEW o \in Ops, Does(o),
         UNCHANGED <<graphOf, topology>>, \A t \in Threads : Still(t) \/ pc'[t] # "swap"
  PROVE  TopologyKept'
<1>1. ASSUME NEW t \in Threads PROVE KeptAt(t)'
  <2>1. KeptAt(t)
    BY TopologyParts
  <2>2. CASE want'[t] = want[t]
    BY <2>1, <2>2, KeptOther
  <2>3. CASE want'[t] # want[t]
    <3>1. Refuses(o)
      BY <2>3 DEF Does, Carries, Frees, Abandons
    <3>2. want[t] \in HostGraphs /\ want'[t] = Without(want[t], o.arg)
      BY <2>3, <3>1, RefusesMoves, TypeParts
    <3>3. /\ want'[t].hooks \subseteq want[t].hooks /\ want'[t].nodes = want[t].nodes
          /\ want'[t].connections = want[t].connections /\ want'[t].open = want[t].open
          /\ want'[t].init = want[t].init /\ want'[t].running = want[t].running
          /\ want'[t].volume = want[t].volume
      BY <3>2, WithoutIs
    <3>4. Closed(want[t]) => Closed(want'[t])
      BY <3>3 DEF Closed
    <3>5. QED
      BY <2>1, <3>3, <3>4, KeptBy
  <2>4. QED
    BY <2>2, <2>3
<1>2. QED
  BY <1>1, TopologyParts

LEMMA WorkerTopology ==
  ASSUME TypeOK, OwnedOnce, OpsOwned, TopologyKept, Worker
  PROVE  TopologyKept'
<1>1. [Next]_vars
  BY DEF Next
<1>2. CASE PerformsOp
  <2>1. PICK o : o = inProgress.op
    OBVIOUS
  <2>2. o \in Ops /\ Does(o) /\ UNCHANGED <<graphOf, topology>> /\ \A t \in Threads : Still(t)
    BY <1>2, <2>1, PerformsOpMoves DEF Still
  <2>3. QED
    BY <1>1, <2>2, DoesTopology
<1>3. CASE ~ PerformsOp
  <2>1. UNCHANGED <<graphOf, topology, want>> /\ \A t \in Threads : Still(t)
    BY <1>3 DEF Worker, TakesOp, OpDone, RefillReads, RefillBuilds, RefillStores, guest, history, Still
  <2>2. QED
    BY <1>1, <2>1, KeptOther, TopologyParts
<1>4. QED
  BY <1>2, <1>3

LEMMA BuildsTopology ==
  ASSUME TypeOK, OwnedOnce, OpsOwned, TopologyKept, NEW t \in Threads, Builds(t)
  PROVE  KeptAt(t)'
<1>1. /\ Drained(t) /\ pc'[t] = "run" /\ graphOf[t] # None /\ want[t] \in HostGraphs
      /\ UNCHANGED graphOf /\ topology[t] \in Topologies
  BY BuildsMoves, DrainedHas, TypeParts, GoesBack DEF Builds, HandlesOK
<1>2. KeptAt(t) /\ [Next]_vars
  BY TopologyParts DEF Guest, Next
<1>3. CASE \E o : Adds(t, o) /\ Records(t, o) /\ o.kind \in {"nodes", "connections"}
  <2>1. PICK o : Adds(t, o) /\ Records(t, o) /\ o.kind \in {"nodes", "connections"}
    BY <1>3
  <2>2. want'[t] = After(want[t], o)
    BY <1>1, <2>1, MakesMoves DEF Adds
  <2>3. PICK h : h = After(want[t], o)
    OBVIOUS
  <2>4. Follows(h, want[t], o) /\ (Closed(want[t]) => Closed(h))
    BY <1>1, <2>3, AfterIs, AfterClosed
  <2>5. /\ \/ o.kind = "nodes" /\ o.arg \in Nodes
           \/ o.kind = "connections" /\ o.arg \in Connections
        /\ topology'[t] = Recorded(topology[t], o)
    BY <2>1, RecordsMoves DEF Adds, Fitting
  <2>6. PICK s : s = Recorded(topology[t], o)
    OBVIOUS
  <2>7. \/ s.unpoolable
        \/ /\ ~ topology[t].unpoolable
           /\ o.kind = "nodes" => /\ s.nodes = Append(topology[t].nodes, o.arg)
                                  /\ s.connections = topology[t].connections
           /\ o.kind = "connections" => /\ s.nodes = topology[t].nodes
                                        /\ s.connections = Append(topology[t].connections, o.arg)
    BY <1>1, <2>5, <2>6, RecordedIs, BlankTyped
  <2>8. Closed(h)
    BY <1>1, <1>2, <2>4 DEF KeptAt
  <2>9. ASSUME ~ s.unpoolable PROVE h.hooks = {} /\ Shape(h) = Shape(s)
    <3>1. want[t].hooks = {} /\ want[t].nodes = topology[t].nodes
          /\ want[t].connections = topology[t].connections
      BY <1>1, <1>2, <2>7, <2>9 DEF KeptAt, Shape
    <3>2. h.hooks = {} /\ h.nodes = s.nodes /\ h.connections = s.connections
      BY <2>1, <2>4, <2>7, <2>9, <3>1 DEF Follows
    <3>3. QED
      BY <3>2 DEF Shape
  <2>10. want'[t] = h /\ topology'[t] = s
    BY <2>2, <2>3, <2>5, <2>6
  <2>11. QED
    BY <1>1, <2>8, <2>9, <2>10 DEF KeptAt, Closed, Shape
<1>4. CASE Unpoolable(t) /\ UNCHANGED <<host, want>>
  <2>1. topology'[t].unpoolable
    BY <1>4, UnpoolableMoves, BlankTyped
  <2>2. QED
    BY <1>1, <1>2, <1>4, <2>1, KeptBy
<1>5. QED
  BY <1>3, <1>4, BuildsMoves

LEMMA DisconnectsTopology ==
  ASSUME TypeOK, OwnedOnce, OpsOwned, TopologyKept, NEW t \in Threads, Disconnects(t) \/ SetsInput(t)
  PROVE  KeptAt(t)'
<1>1. /\ Drained(t) /\ pc'[t] = "run" /\ graphOf[t] # None /\ want[t] \in HostGraphs
      /\ UNCHANGED graphOf
  BY DisconnectsMoves, SetsInputMoves, DrainedHas, TypeParts, GoesBack DEF Disconnects, SetsInput
<1>2. KeptAt(t) /\ [Next]_vars
  BY TopologyParts DEF Guest, Next
<1>3. topology'[t].unpoolable
  BY DisconnectsMoves, SetsInputMoves, UnpoolableMoves, BlankTyped
<1>4. want' = want \/ \E o : Fitting(o) /\ Makes(t, o)
  BY AltersMoves DEF Alters
<1>5. Closed(want[t]) => Closed(want'[t])
  <2>1. CASE want' = want
    BY <2>1
  <2>2. CASE \E o : Fitting(o) /\ Makes(t, o)
    BY <1>1, <2>2, MakesMoves, AfterClosed
  <2>3. QED
    BY <1>4, <2>1, <2>2
<1>6. QED
  BY <1>1, <1>2, <1>3, <1>5, KeptBy

LEMMA OpensTopology ==
  ASSUME TypeOK, OwnedOnce, OpsOwned, TopologyKept, NEW t \in Threads, OpensUnpooled(t) \/ MissesPool(t)
  PROVE  KeptAt(t)'
<1>1. /\ Drained(t) /\ OpensOwn(t) /\ UNCHANGED <<graphOf, topology>>
  BY MissesPoolMoves DEF OpensUnpooled, Opens, MissesPool
<1>2. KeptAt(t) /\ [Next]_vars
  BY TopologyParts DEF Guest, Next
<1>3. graphOf[t] # None /\ graphOf[t] \in Addresses /\ pc'[t] = "run"
  BY <1>1, DrainedHas, OpensMoves, GoesBack, TypeParts
<1>4. PICK o : o = Op("open", graphOf[t], None)
  OBVIOUS
<1>5. o \in Ops /\ o.kind = "open" /\ want'[t] = After(want[t], o)
  BY ZenonT(60), <1>1, <1>3, <1>4, OpensMoves, MakesMoves, OpsAre, OpIs DEF Adds, Plain
<1>6. QED
  BY <1>1, <1>2, <1>3, <1>5, KeptCalling

LEMMA TakesPooledTopology ==
  ASSUME TypeOK, OwnedOnce, OpsOwned, TopologyKept, PoolKept, NEW t \in Threads, TakesPooled(t)
  PROVE  KeptAt(t)'
<1>1. /\ Drained(t) /\ ~ want[t].open /\ ~ topology[t].unpoolable
      /\ template.shape = Shape(topology[t])
      /\ Len(pool) \in DOMAIN pool /\ Last(pool) = pool[Len(pool)]
      /\ call'[t] = Op("open", Last(pool), None)
  BY TakesPooledMoves
<1>2. UNCHANGED <<host, graphOf, topology, want>>
  BY DEF TakesPooled, history
<1>3. KeptAt(t) /\ graphOf[t] # None
  BY <1>1, TopologyParts, DrainedHas
<1>4. host[Last(pool)] = Built(Shape(topology[t])) /\ call'[t].graph = Last(pool)
  BY <1>1, OpIs DEF PoolKept
<1>5. Built(Shape(topology[t]))' = Built(Shape(topology[t])) /\ Shape(topology[t])' = Shape(topology[t])
  BY <1>2 DEF Built, Shape
<1>6. Closed(want[t])' <=> Closed(want[t])
  BY <1>2 DEF Closed
<1>7. Shape(want[t])' = Shape(want[t])
  BY <1>2 DEF Shape
<1>8. QED
  BY <1>1, <1>2, <1>3, <1>4, <1>5, <1>6, <1>7 DEF KeptAt

LEMMA SwapsGraphTopology ==
  ASSUME TypeOK, OwnedOnce, OpsOwned, TopologyKept, NEW t \in Threads, SwapsGraph(t)
  PROVE  KeptAt(t)'
<1>1. /\ graphOf[t] # None /\ call[t] \in Ops /\ want'[t] = After(want[t], call[t]) /\ pc'[t] = "enqueue"
      /\ UNCHANGED topology /\ call[t].kind = "open"
  BY SwapsGraphMoves, NoneAssumption
<1>2. KeptAt(t) /\ [Next]_vars
  BY TopologyParts DEF Guest, Next
<1>3. QED
  BY <1>1, <1>2, KeptCalling

LEMMA QueuesTopology ==
  ASSUME TypeOK, OwnedOnce, OpsOwned, TopologyKept, NEW t \in Threads,
         Initialize(t) \/ Start(t) \/ Stop(t) \/ AddRenderNotify(t) \/ TearDown(t)
  PROVE  KeptAt(t)'
<1>1. KeptAt(t) /\ [Next]_vars
  BY TopologyParts DEF Guest, Next
<1>2. graphOf[t] \in Addresses /\ graphOf[t] # None
  BY InitializeMoves, StartMoves, StopMoves, AddRenderNotifyMoves, TearDownMoves, NoneAssumption
<1>3. CASE Initialize(t) \/ Start(t) \/ Stop(t) \/ (TearDown(t) /\ ~ Drops(t))
  <2>1. PICK k \in {"initialize", "start", "stop", "uninitialize", "close"} : Asks(t, Op(k, graphOf[t], None))
    BY <1>3, InitializeMoves, StartMoves, StopMoves, TearDownMoves
  <2>2. UNCHANGED topology
    BY <1>3, TearDownMoves DEF Initialize, Start, Stop
  <2>3. PICK o : o = Op(k, graphOf[t], None)
    OBVIOUS
  <2>4. o \in Ops /\ o.kind # "notify" /\ want'[t] = After(want[t], o) /\ pc'[t] # "swap"
    BY <1>2, <2>1, <2>3, OpIs, AsksMoves DEF Asks
  <2>5. QED
    BY <1>1, <1>2, <2>2, <2>4, KeptCalling
<1>4. CASE AddRenderNotify(t)
  <2>1. topology'[t].unpoolable
    BY <1>4, AddRenderNotifyMoves, UnpoolableMoves, BlankTyped
  <2>2. PICK o : Asks(t, o)
    BY <1>4, AddRenderNotifyMoves
  <2>3. o \in Ops /\ want'[t] = After(want[t], o) /\ pc'[t] # "swap"
    BY <1>2, <2>2, AsksMoves DEF Asks
  <2>4. QED
    BY <1>1, <1>2, <2>1, <2>3, KeptCalling
<1>5. CASE Drops(t)
  <2>1. graphOf'[t] = None
    BY <1>2, <1>5, DropsMoves
  <2>2. QED
    BY <2>1 DEF KeptAt
<1>6. QED
  BY <1>3, <1>4, <1>5

LEMMA NewAUGraphTopology ==
  ASSUME TypeOK, NEW t \in Threads, NewAUGraph(t)
  PROVE  KeptAt(t)'
<1>1. want'[t] = Fresh /\ topology'[t] = Blank /\ pc[t] = "run" /\ UNCHANGED pc
  BY NewAUGraphMoves DEF NewAUGraph
<1>2. Closed(want[t])' /\ want'[t].hooks = {}
  BY <1>1, FreshTyped DEF Closed
<1>3. Shape(want[t])' = Shape(topology[t])'
  BY <1>1, BlankTyped DEF Shape
<1>4. QED
  BY <1>1, <1>2, <1>3 DEF KeptAt

LEMMA SetParameterTopology ==
  ASSUME TypeOK, OwnedOnce, OpsOwned, TopologyKept, NEW t \in Threads, SetParameter(t)
  PROVE  KeptAt(t)'
<1>1. KeptAt(t) /\ [Next]_vars
  BY TopologyParts DEF Guest, Next
<1>2. PICK o : o = Op("parameter", graphOf[t], TRUE)
  OBVIOUS
<1>3. /\ Has(t) /\ graphOf[t] \in Addresses /\ o \in Ops /\ want'[t] = After(want[t], o)
      /\ UNCHANGED <<topology, pc>>
  BY <1>2, SetParameterMoves
<1>4. o.kind = "parameter"
  BY <1>2 DEF Op
<1>5. QED
  BY <1>1, <1>3, <1>4, KeptCalling, NoneAssumption DEF Has, Begins

LEMMA GuestOthers ==
  ASSUME TypeOK, OwnedOnce, OpsOwned, NEW t \in Threads, Guest(t), ~ Enqueues(t), ~ PerformsInline(t),
         ~ Synchronizes(t), ~ Answers(t)
  PROVE  \A u \in Threads \ {t} : /\ graphOf'[u] = graphOf[u] /\ topology'[u] = topology[u]
                                  /\ want'[u] = want[u] /\ Still(u)
<1>1. CASE Builds(t) \/ Disconnects(t) \/ SetsInput(t) \/ OpensUnpooled(t) \/ MissesPool(t)
  <2>1. Alters(t)
    BY <1>1, AltersMoves
  <2>2. UNCHANGED graphOf /\ \A u \in Threads \ {t} : Still(u)
    BY <2>1 DEF Alters
  <2>3. QED
    BY <1>1, <2>1, <2>2, AltersHost, AltersTopology
<1>2. CASE NewAUGraph(t)
  BY <1>2, NewAUGraphMoves DEF Still, NewAUGraph
<1>3. CASE TakesPooled(t)
  BY <1>3, TakesPooledMoves DEF Still, TakesPooled, history
<1>4. CASE SwapsGraph(t)
  BY <1>4, SwapsGraphMoves DEF Still
<1>5. CASE Initialize(t) \/ Start(t) \/ Stop(t)
  <2>1. graphOf[t] \in Addresses /\ graphOf[t] # None /\ UNCHANGED <<graphOf, topology>>
    BY <1>5, InitializeMoves, StartMoves, StopMoves, NoneAssumption DEF Initialize, Start, Stop
  <2>2. QED
    BY <1>5, <2>1, InitializeMoves, StartMoves, StopMoves, AsksMoves DEF Still
<1>6. CASE AddRenderNotify(t)
  <2>1. graphOf[t] \in Addresses /\ graphOf[t] # None /\ UNCHANGED graphOf
    BY <1>6, AddRenderNotifyMoves, NoneAssumption DEF AddRenderNotify
  <2>2. QED
    BY <1>6, <2>1, AddRenderNotifyMoves, UnpoolableMoves, AsksMoves DEF Still
<1>7. CASE TearDown(t)
  <2>1. graphOf[t] \in Addresses /\ graphOf[t] # None
    BY <1>7, TearDownMoves, NoneAssumption
  <2>2. CASE Drops(t)
    BY <2>1, <2>2, DropsMoves DEF Still
  <2>3. CASE ~ Drops(t)
    <3>1. PICK o : Asks(t, o)
      BY <1>7, <2>3, TearDownMoves
    <3>2. UNCHANGED <<graphOf, topology>>
      BY <1>7, <2>3, TearDownMoves
    <3>3. QED
      BY <2>1, <3>1, <3>2, AsksMoves DEF Still
  <2>4. QED
    BY <2>2, <2>3
<1>8. CASE SetParameter(t)
  BY <1>8, SetParameterMoves DEF Still
<1>9. QED
  BY <1>1, <1>2, <1>3, <1>4, <1>5, <1>6, <1>7, <1>8, Zenon DEF Guest

LEMMA StepTopology ==
  ASSUME TypeOK, OwnedOnce, OpsOwned, TopologyKept, PoolKept, [Next]_vars
  PROVE  TopologyKept'
<1>1. CASE Worker
  BY <1>1, WorkerTopology
<1>2. ASSUME NEW t \in Threads, Guest(t) PROVE TopologyKept'
  <2>1. CASE PerformsInline(t)
    <3>1. call[t] \in Ops /\ Does(call[t]) /\ UNCHANGED <<graphOf, topology>>
          /\ \A u \in Threads : Still(u) \/ pc'[u] # "swap"
      BY <2>1, InlineMoves DEF Still
    <3>2. QED
      BY <3>1, DoesTopology
  <2>2. CASE Synchronizes(t) \/ Answers(t) \/ Enqueues(t)
    <3>1. UNCHANGED <<graphOf, topology, want>>
      BY <2>2 DEF Synchronizes, Answers, Enqueues, history
    <3>2. PICK p \in {"run", "drain"} : Goes(t, p, None)
      BY <2>2 DEF Synchronizes, Answers, Enqueues
    <3>3. \A u \in Threads : Still(u) \/ pc'[u] # "swap"
      BY <3>2, TypeParts, GoesBack DEF Still
    <3>4. QED
      BY <3>1, <3>3, KeptOther, TopologyParts
  <2>3. CASE ~ (PerformsInline(t) \/ Synchronizes(t) \/ Answers(t) \/ Enqueues(t))
    <3>1. \A u \in Threads \ {t} : /\ graphOf'[u] = graphOf[u] /\ topology'[u] = topology[u]
                                   /\ want'[u] = want[u] /\ Still(u)
      BY <1>2, <2>3, GuestOthers
    <3>2. \A u \in Threads \ {t} : KeptAt(u)'
      BY <3>1, KeptOther, TopologyParts
    <3>3. KeptAt(t)'
      BY <1>2, <2>3, NewAUGraphTopology, BuildsTopology, DisconnectsTopology, OpensTopology,
         TakesPooledTopology, SwapsGraphTopology, QueuesTopology, SetParameterTopology DEF Guest
    <3>4. QED
      BY <3>2, <3>3, TopologyParts
  <2>4. QED
    BY <2>1, <2>2, <2>3
<1>3. CASE UNCHANGED vars
  BY <1>3, KeptOther, TopologyParts DEF vars, guest, history, Still
<1>4. QED
  BY <1>1, <1>2, <1>3 DEF Next

-----------------------------------------------------------------------------
(* The order of the calls: what a graph will be when all that is pending is done *)
Final(g, a, ops) == Effects(g, a, ops)[Len(ops)]

LEMMA FinalTyped ==
  ASSUME NEW g \in HostGraphs, NEW a, NEW ops \in Seq(Ops)
  PROVE  Final(g, a, ops) \in HostGraphs
<1>1. Len(ops) \in 0 .. Len(ops)
  OBVIOUS
<1>2. QED
  BY <1>1, EffectsTyped DEF Final

LEMMA FinalIdle ==
  ASSUME NEW g, NEW a, NEW ops \in Seq(Ops), \A i \in 1 .. Len(ops) : ops[i].graph # a
  PROVE  Final(g, a, ops) = g
<1>1. 0 \in 0 .. Len(ops) /\ Len(ops) \in 0 .. Len(ops) /\ \A i \in 0 + 1 .. Len(ops) : ops[i].graph # a
  OBVIOUS
<1>2. Effects(g, a, ops)[0] = g
  BY EffectsIs
<1>3. QED
  BY <1>1, <1>2, EffectsIdle DEF Final

LEMMA FinalGrows ==
  ASSUME NEW g, NEW a, NEW ops \in Seq(Ops), NEW more \in Seq(Ops), Len(ops) <= Len(more),
         \A i \in 1 .. Len(ops) : more[i] = ops[i],
         \A i \in Len(ops) + 1 .. Len(more) : more[i].graph # a
  PROVE  Final(g, a, more) = Final(g, a, ops)
<1>1. Len(ops) \in 0 .. Len(more) /\ Len(ops) \in 0 .. Len(ops) /\ Len(more) \in Len(ops) .. Len(more)
  OBVIOUS
<1>2. Effects(g, a, more)[Len(ops)] = Effects(g, a, ops)[Len(ops)]
  BY <1>1, EffectsPrefix
<1>3. Effects(g, a, more)[Len(more)] = Effects(g, a, more)[Len(ops)]
  BY <1>1, EffectsIdle
<1>4. QED
  BY <1>2, <1>3 DEF Final

LEMMA FinalAppends ==
  ASSUME NEW g, NEW a, NEW ops \in Seq(Ops), NEW more \in Seq(Ops), Len(more) = Len(ops) + 1,
         \A i \in 1 .. Len(ops) : more[i] = ops[i], NEW o, more[Len(ops) + 1] = o
  PROVE  Final(g, a, more) = Step(Final(g, a, ops), a, o)
<1>1. Len(ops) \in 0 .. Len(ops) /\ Len(ops) + 1 \in 1 .. Len(more) /\ Len(ops) + 1 - 1 = Len(ops)
  OBVIOUS
<1>2. Effects(g, a, more)[Len(ops)] = Effects(g, a, ops)[Len(ops)]
  BY <1>1, EffectsPrefix
<1>3. Effects(g, a, more)[Len(ops) + 1] = Step(Effects(g, a, more)[Len(ops) + 1 - 1], a, more[Len(ops) + 1])
  BY <1>1, EffectsIs
<1>4. QED
  BY <1>1, <1>2, <1>3 DEF Final

LEMMA FinalTail ==
  ASSUME NEW g, NEW a, NEW ops \in Seq(Ops), NEW rest \in Seq(Ops), Len(ops) = Len(rest) + 1,
         \A i \in 1 .. Len(rest) : rest[i] = ops[i + 1], NEW x, x = Step(g, a, ops[1])
  PROVE  Final(x, a, rest) = Final(g, a, ops)
<1>1. Len(rest) \in 0 .. Len(rest)
  OBVIOUS
<1>2. Effects(x, a, rest)[Len(rest)] = Effects(g, a, ops)[Len(rest) + 1]
  BY <1>1, EffectsTail
<1>3. QED
  BY <1>2 DEF Final

LEMMA FinalWithout ==
  ASSUME NEW g \in HostGraphs, NEW a, NEW ops \in Seq(Ops), NEW c,
         \A i \in 1 .. Len(ops) : ~ Attaches(ops[i], c)
  PROVE  Final(Without(g, c), a, ops) = Without(Final(g, a, ops), c)
<1>1. Len(ops) \in 0 .. Len(ops)
  OBVIOUS
<1>2. QED
  BY <1>1, EffectsWithout DEF Final

\* The queue, with what is taken off it or put on it.
LEMMA FinalSlides ==
  ASSUME NEW g, NEW a, NEW k, Slides(k), \A i \in Added(k) : Waiting'[i].graph # a,
         k = 1 => Added(k) = {}
  PROVE  Final(IF k = 1 THEN Step(g, a, Waiting[1]) ELSE g, a, Waiting') = Final(g, a, Waiting)
<1>1. /\ k \in {0, 1} /\ k <= Len(Waiting) /\ Waiting \in Seq(Ops) /\ Waiting' \in Seq(Ops)
      /\ Len(Waiting') >= Len(Waiting) - k /\ Len(Waiting) \in Nat /\ Len(Waiting') \in Nat
      /\ \A i \in 1 .. Len(Waiting) - k : Waiting'[i] = Waiting[i + k]
  BY DEF Slides
<1>2. CASE k = 0
  <2>1. /\ Len(Waiting) <= Len(Waiting') /\ \A i \in 1 .. Len(Waiting) : Waiting'[i] = Waiting[i]
        /\ \A i \in Len(Waiting) + 1 .. Len(Waiting') : Waiting'[i].graph # a
    BY <1>1, <1>2 DEF Added
  <2>2. Final(g, a, Waiting') = Final(g, a, Waiting)
    BY <1>1, <2>1, FinalGrows
  <2>3. QED
    BY <1>2, <2>2
<1>3. CASE k = 1
  <2>1. Len(Waiting) = Len(Waiting') + 1
    <3>1. Len(Waiting) - 1 + 1 .. Len(Waiting') = {}
      BY <1>3 DEF Added
    <3>2. ~ (Len(Waiting') >= Len(Waiting))
      <4>1. SUFFICES ASSUME Len(Waiting') >= Len(Waiting) PROVE FALSE
        OBVIOUS
      <4>2. Len(Waiting') \in Len(Waiting) - 1 + 1 .. Len(Waiting')
        BY <1>1, <4>1
      <4>3. QED
        BY <3>1, <4>2
    <3>3. QED
      BY <1>1, <1>3, <3>2
  <2>2. \A i \in 1 .. Len(Waiting') : Waiting'[i] = Waiting[i + 1]
    BY <1>1, <1>3, <2>1
  <2>3. Final(Step(g, a, Waiting[1]), a, Waiting') = Final(g, a, Waiting)
    BY <1>1, <2>1, <2>2, FinalTail
  <2>4. QED
    BY <1>3, <2>3
<1>4. QED
  BY <1>1, <1>2, <1>3

OrderAt(t) == Sound(t) => Agree(Becomes(t)[Len(Pending(t))], want[t])

LEMMA OrderParts == /\ InOrder <=> \A t \in Threads : OrderAt(t)
                    /\ InOrder' <=> \A t \in Threads : OrderAt(t)'
BY DEF InOrder, OrderAt

LEMMA FinalPending ==
  ASSUME WorkOK, CallsOK, NEW t \in Threads, NEW g, NEW a
  PROVE  Final(g, a, Pending(t)) = IF Asked(t) THEN Step(Final(g, a, Waiting), a, call[t])
                                   ELSE Final(g, a, Waiting)
<1>1. /\ Waiting \in Seq(Ops) /\ Pending(t) \in Seq(Ops)
      /\ \A i \in 1 .. Len(Waiting) : Pending(t)[i] = Waiting[i]
  BY WaitingTyped, PendingTyped
<1>2. CASE Asked(t)
  <2>1. Len(Pending(t)) = Len(Waiting) + 1 /\ Pending(t)[Len(Waiting) + 1] = call[t]
    BY <1>2, PendingTyped DEF Asked
  <2>2. QED
    BY <1>1, <1>2, <2>1, FinalAppends
<1>3. CASE ~ Asked(t)
  BY <1>3, PendingTyped DEF Asked
<1>4. QED
  BY <1>2, <1>3

LEMMA FinalPendingNext ==
  ASSUME WorkOK', CallsOK', NEW t \in Threads, NEW g, NEW a
  PROVE  Final(g, a, Pending(t)') = IF Asked(t)' THEN Step(Final(g, a, Waiting'), a, call'[t])
                                    ELSE Final(g, a, Waiting')
<1>1. Waiting' \in Seq(Ops)
  <2>1. queue' \in Seq(Ops)
    BY DEF WorkOK
  <2>2. inProgress'.place = "perform" => inProgress'.op \in Ops
    BY DEF WorkOK
  <2>3. QED
    BY <2>1, <2>2 DEF Waiting
<1>2. CASE Asked(t)'
  <2>1. call'[t] \in Ops
    BY <1>2 DEF CallsOK, Asked
  <2>2. Pending(t)' = Waiting' \o <<call'[t]>>
    BY <1>2 DEF Pending, Asked
  <2>3. /\ Pending(t)' \in Seq(Ops) /\ Len(Pending(t)') = Len(Waiting') + 1
        /\ \A i \in 1 .. Len(Waiting') : Pending(t)'[i] = Waiting'[i]
        /\ Pending(t)'[Len(Waiting') + 1] = call'[t]
    BY <1>1, <2>1, <2>2
  <2>4. QED
    BY <1>1, <1>2, <2>3, FinalAppends
<1>3. CASE ~ Asked(t)'
  <2>1. Pending(t)' = Waiting' \o <<>>
    BY <1>3 DEF Pending, Asked
  <2>2. QED
    BY <1>1, <1>3, <2>1
<1>4. QED
  BY <1>2, <1>3

LEMMA OrderIs ==
  ASSUME WorkOK, CallsOK, NEW t \in Threads, NEW a, a = graphOf[t], NEW w, w = Final(host[a], a, Waiting)
  PROVE  OrderAt(t) <=> (Sound(t) => Agree(IF Asked(t) THEN Step(w, a, call[t]) ELSE w, want[t]))
<1>1. Becomes(t)[Len(Pending(t))] = Final(host[a], a, Pending(t))
  BY DEF Becomes, Final
<1>2. QED
  BY <1>1, FinalPending DEF OrderAt

LEMMA OrderNextIs ==
  ASSUME WorkOK', CallsOK', NEW t \in Threads, NEW a, a = graphOf'[t],
         NEW w, w = Final(host'[a], a, Waiting'), NEW o, o = call'[t]
  PROVE  OrderAt(t)' <=> (Sound(t)' => Agree(IF Asked(t)' THEN Step(w, a, o) ELSE w, want'[t]))
<1>1. Becomes(t)'[Len(Pending(t)')] = Final(host'[a], a, Pending(t)')
  BY DEF Becomes, Final
<1>2. PICK e : e = Becomes(t)'[Len(Pending(t)')]
  OBVIOUS
<1>3. e = IF Asked(t)' THEN Step(w, a, o) ELSE w
  BY <1>1, <1>2, FinalPendingNext
<1>4. OrderAt(t)' <=> (Sound(t)' => Agree(e, want'[t]))
  BY <1>2 DEF OrderAt
<1>5. QED
  BY <1>3, <1>4

LEMMA OrderStays ==
  ASSUME TypeOK, WorkOK', CallsOK', NEW t \in Threads, OrderAt(t), graphOf'[t] = graphOf[t],
         want'[t] = want[t], quarantined \subseteq quarantined',
         Still(t) \/ (~ Asked(t) /\ ~ Asked(t)'), NEW a, a = graphOf[t],
         NEW k, Slides(k), k = 1 => Added(k) = {},
         a \notin {None} \cup quarantined' => \A i \in Added(k) : Waiting'[i].graph # a,
         a \notin {None} \cup quarantined' =>
            host'[a] = IF k = 1 THEN Step(host[a], a, Waiting[1]) ELSE host[a]
  PROVE  OrderAt(t)'
<1>1. SUFFICES ASSUME a \notin {None} \cup quarantined' PROVE OrderAt(t)'
  BY DEF OrderAt, Sound
<1>2. PICK w : w = Final(host[a], a, Waiting)
  OBVIOUS
<1>3. PICK h : h = IF k = 1 THEN Step(host[a], a, Waiting[1]) ELSE host[a]
  OBVIOUS
<1>4. host'[a] = h /\ Final(h, a, Waiting') = w
  BY <1>1, <1>2, <1>3, FinalSlides
<1>5. w = Final(host'[a], a, Waiting')
  BY <1>4
<1>6. WorkOK /\ CallsOK
  BY TypeParts
<1>7. OrderAt(t) <=> (Sound(t) => Agree(IF Asked(t) THEN Step(w, a, call[t]) ELSE w, want[t]))
  BY <1>2, <1>6, OrderIs
<1>8. Sound(t)
  BY <1>1 DEF Sound
<1>9. PICK o : o = call'[t]
  OBVIOUS
<1>10. OrderAt(t)' <=> (Sound(t)' => Agree(IF Asked(t)' THEN Step(w, a, o) ELSE w, want'[t]))
  BY <1>5, <1>9, OrderNextIs
<1>11. CASE Still(t)
  <2>1. (Asked(t)' <=> Asked(t)) /\ call[t] = o
    BY <1>9, <1>11 DEF Asked, Still
  <2>2. QED
    BY <1>7, <1>8, <1>10, <2>1
<1>12. CASE ~ Asked(t) /\ ~ Asked(t)'
  BY <1>7, <1>8, <1>10, <1>12
<1>13. QED
  BY <1>11, <1>12

LEMMA HandlesDiffer ==
  ASSUME OwnedOnce, NEW t \in Threads, graphOf[t] \in Addresses, NEW u \in Threads \ {t}
  PROVE  graphOf[u] # graphOf[t]
BY DEF OwnedOnce, HeldOnce, Holds

\* Nothing that waits is on a graph that the step makes or the pool holds.
LEMMA OffPool ==
  ASSUME TypeOK, OwnedOnce, NEW t \in Threads, NEW i \in DOMAIN pool
  PROVE  graphOf[t] # pool[i]
<1>1. pool[i] \in Addresses /\ InPool(pool[i])
  BY PooledMade DEF InPool
<1>2. QED
  BY <1>1 DEF OwnedOnce, HeldOnce, Holds

LEMMA QuietOrder ==
  ASSUME TypeOK, TypeOK', OwnedOnce, InOrder, Quiet
  PROVE  InOrder'
<1>1. PICK k \in {0, 1} : Takes(k)
  BY DEF Quiet
<1>2. Slides(k) /\ Added(k) = {} /\ (k = 1 => Waiting[1].graph = None)
  BY <1>1 DEF Takes
<1>3. WorkOK' /\ CallsOK'
  BY DEF TypeOK
<1>4. ASSUME NEW t \in Threads PROVE OrderAt(t)'
  <2>1. PICK a : a = graphOf[t]
    OBVIOUS
  <2>2. Still(t) \/ (~ Asked(t) /\ ~ Asked(t)')
    BY DEF Quiet, Resting, Asked
  <2>3. OrderAt(t) /\ UNCHANGED <<graphOf, want, host, quarantined>>
    BY OrderParts DEF Quiet
  <2>4. a \notin {None} \cup quarantined' =>
          host'[a] = IF k = 1 THEN Step(host[a], a, Waiting[1]) ELSE host[a]
    BY <1>2, <2>3 DEF Step
  <2>5. QED
    BY <1>2, <1>3, <2>1, <2>2, <2>3, <2>4, OrderStays
<1>5. QED
  BY <1>4, OrderParts

LEMMA RefillOrder ==
  ASSUME TypeOK, TypeOK', OwnedOnce, OpsOwned, InOrder, RefillBuilds \/ RefillStores
  PROVE  InOrder'
<1>1. UNCHANGED <<queue, graphOf, want, quarantined, pc, call>>
  BY DEF RefillBuilds, RefillStores, guest, history
<1>2. inProgress.place # "perform" /\ inProgress'.place # "perform"
  BY RefillBuildsMoves, RefillStoresMoves DEF RefillBuilds, RefillStores
<1>3. Slides(0) /\ Added(0) = {} /\ WorkOK' /\ CallsOK'
  BY <1>1, <1>2, WaitingKept, SlidesSame DEF TypeOK
<1>4. ASSUME NEW t \in Threads PROVE OrderAt(t)'
  <2>1. PICK a : a = graphOf[t]
    OBVIOUS
  <2>2. ASSUME a # None PROVE host'[a] = host[a]
    <3>1. a \in Addresses /\ host[a] # None /\ Holds(t, a)
      BY <2>1, <2>2, HandleMade, NoneAssumption DEF Holds
    <3>2. inProgress.graph # a
      BY <3>1 DEF OwnedOnce, HeldOnce
    <3>3. CASE RefillBuilds
      BY <3>1, <3>3, RefillBuildsMoves
    <3>4. CASE RefillStores
      BY <3>1, <3>2, <3>4, RefillStoresMoves
    <3>5. QED
      BY <3>3, <3>4
  <2>3. Still(t) /\ OrderAt(t)
    BY <1>1, OrderParts DEF Still
  <2>4. QED
    BY <1>1, <1>3, <2>1, <2>2, <2>3, OrderStays
<1>5. QED
  BY <1>4, OrderParts

LEMMA AgreeWithout ==
  ASSUME NEW g \in HostGraphs, NEW h \in HostGraphs, Agree(g, h), NEW c
  PROVE  Agree(Without(g, c), Without(h, c))
<1>1. /\ g.nodes = h.nodes /\ g.connections = h.connections /\ g.open = h.open
      /\ g.init = h.init /\ g.running = h.running /\ g.hooks = h.hooks
      /\ Persists \/ g.volume = h.volume
  BY AgreeIs
<1>2. PICK p \in HostGraphs : p = Without(g, c)
  BY WithoutIs
<1>3. PICK q \in HostGraphs : q = Without(h, c)
  BY WithoutIs
<1>4. /\ p.nodes = g.nodes /\ p.connections = g.connections /\ p.open = g.open /\ p.init = g.init
      /\ p.running = g.running /\ p.volume = g.volume /\ p.hooks = g.hooks \ {c}
  BY <1>2, WithoutIs
<1>5. /\ q.nodes = h.nodes /\ q.connections = h.connections /\ q.open = h.open /\ q.init = h.init
      /\ q.running = h.running /\ q.volume = h.volume /\ q.hooks = h.hooks \ {c}
  BY <1>3, WithoutIs
<1>6. Agree(p, q)
  BY <1>1, <1>4, <1>5, AgreeIs
<1>7. QED
  BY <1>2, <1>3, <1>6

\* What a refused notification leaves is what was there before it.
LEMMA NotifyWithout ==
  ASSUME NEW g \in HostGraphs, NEW o \in Ops, o.kind = "notify", o.arg \notin g.hooks
  PROVE  After(g, o) \in HostGraphs /\ Without(After(g, o), o.arg) = g
<1>1. After(g, o) \in HostGraphs
  BY AfterTyped, OpsFit
<1>2. PICK h \in HostGraphs : h = After(g, o)
  BY <1>1
<1>3. Follows(h, g, o)
  BY <1>2, AfterIs
<1>4. PICK p \in HostGraphs : p = Without(h, o.arg)
  BY WithoutIs
<1>5. /\ p.nodes = h.nodes /\ p.connections = h.connections /\ p.open = h.open /\ p.init = h.init
      /\ p.running = h.running /\ p.volume = h.volume /\ p.hooks = h.hooks \ {o.arg}
  BY <1>4, WithoutIs
<1>6. /\ p.nodes = g.nodes /\ p.connections = g.connections /\ p.open = g.open /\ p.init = g.init
      /\ p.running = g.running /\ p.volume = g.volume /\ p.hooks = g.hooks
  BY <1>3, <1>5 DEF Follows
<1>7. p = g
  BY <1>6, SameGraph
<1>8. QED
  BY <1>1, <1>2, <1>4, <1>7

LEMMA StepIsGraph ==
  ASSUME NEW g \in HostGraphs, NEW a, NEW o \in Ops
  PROVE  Step(g, a, o) \in HostGraphs
BY AfterTyped, OpsFit DEF Step

LEMMA StepWithout ==
  ASSUME NEW g \in HostGraphs, NEW a, NEW o \in Ops, NEW c, ~ Attaches(o, c)
  PROVE  Step(Without(g, c), a, o) = Without(Step(g, a, o), c)
<1>1. Fitting(o) /\ ~ (o.kind \in {"notify", "input"} /\ o.arg = c)
  BY OpsFit, OpGraph DEF Attaches
<1>2. After(Without(g, c), o) = Without(After(g, o), c)
  BY <1>1, AfterWithout
<1>3. QED
  BY <1>2 DEF Step

LEMMA StepAgree ==
  ASSUME NEW g \in HostGraphs, NEW h \in HostGraphs, Agree(g, h), NEW a, NEW o \in Ops, o.graph = a
  PROVE  Agree(Step(g, a, o), After(h, o))
BY AfterAgree, OpsFit DEF Step

LEMMA RefusedOrder ==
  ASSUME TypeOK, TypeOK', OwnedOnce, OpsOwned, HooksOwned, PerformsOp,
         NEW t \in Threads, OrderAt(t), NEW a, a = graphOf[t], NEW o, o = inProgress.op, o.graph = a,
         Refuses(o)
  PROVE  OrderAt(t)'
<1>1. SUFFICES ASSUME a # None, a \notin quarantined' PROVE OrderAt(t)'
  BY PerformsOpMoves DEF OrderAt, Sound
<1>2. /\ o \in Ops /\ a \in Addresses /\ host[a] \in HostGraphs /\ o = Waiting[1] /\ 1 \in DOMAIN Waiting
      /\ Slides(1) /\ Added(1) = {} /\ UNCHANGED <<graphOf, pc, call>>
  BY PerformsOpMoves
<1>3. o.kind = "notify" /\ UNCHANGED <<host, quarantined>> /\ want[t] \in HostGraphs
      /\ want'[t] = Without(want[t], o.arg) /\ o.arg \in Callbacks
  BY <1>2, RefusesMoves, TypeParts DEF Refuses
<1>4. PICK c : c = o.arg
  OBVIOUS
<1>5. PICK g : g = host[a]
  OBVIOUS
<1>6. c \notin g.hooks /\ AttachedOnce(c) /\ Attaches(Waiting[1], c)
  BY <1>2, <1>3, <1>4, <1>5, HooksParts DEF Task, Fits, Attaches
<1>7. PICK x : x = After(g, o)
  OBVIOUS
<1>8. x \in HostGraphs /\ Without(x, c) = g /\ g \in HostGraphs
  BY <1>2, <1>3, <1>4, <1>5, <1>6, <1>7, NotifyWithout
<1>9. PICK w : w = Final(g, a, Waiting)
  OBVIOUS
<1>10. Waiting \in Seq(Ops) /\ Waiting' \in Seq(Ops)
  BY <1>2 DEF Slides
<1>11. w \in HostGraphs /\ w = Final(x, a, Waiting')
  <2>1. Step(g, a, Waiting[1]) = x
    BY <1>2, <1>7 DEF Step
  <2>2. Final(x, a, Waiting') = Final(g, a, Waiting)
    BY <1>2, <2>1, FinalSlides
  <2>3. QED
    BY <1>8, <1>9, <1>10, <2>2, FinalTyped
<1>12. ASSUME NEW i \in 1 .. Len(Waiting') PROVE ~ Attaches(Waiting'[i], c)
  <2>1. Len(Waiting) \in Nat /\ Len(Waiting') \in Nat
    BY <1>10
  <2>2. i \in 1 .. Len(Waiting) - 1
    BY <1>2, <2>1 DEF Added
  <2>3. i + 1 \in DOMAIN Waiting /\ Waiting'[i] = Waiting[i + 1] /\ i + 1 # 1
    BY <1>2, <1>10, <2>1, <2>2 DEF Slides
  <2>4. QED
    BY <1>2, <1>6, <2>3 DEF AttachedOnce
<1>13. PICK v : v = Final(host'[a], a, Waiting')
  OBVIOUS
<1>14. v = Without(w, c)
  <2>1. v = Final(Without(x, c), a, Waiting')
    BY <1>3, <1>5, <1>8, <1>13
  <2>2. Final(Without(x, c), a, Waiting') = Without(Final(x, a, Waiting'), c)
    BY <1>8, <1>10, <1>12, FinalWithout
  <2>3. QED
    BY <1>11, <2>1, <2>2
<1>15. WorkOK /\ CallsOK /\ WorkOK' /\ CallsOK'
  BY TypeParts DEF TypeOK
<1>16. Agree(IF Asked(t) THEN Step(w, a, call[t]) ELSE w, want[t])
  <2>1. Sound(t)
    BY <1>1, <1>3 DEF Sound
  <2>2. QED
    BY <1>5, <1>9, <1>15, <2>1, OrderIs
<1>17. PICK p : p = call'[t]
  OBVIOUS
<1>18. Agree(IF Asked(t)' THEN Step(v, a, p) ELSE v, want'[t])
  <2>1. CASE Asked(t)
    <3>1. p \in Ops /\ p = call[t] /\ Asked(t)'
      BY <1>2, <1>15, <1>17, <2>1 DEF CallsOK, Asked
    <3>2. ~ Attaches(p, c)
      BY <1>2, <1>6, <2>1, <3>1 DEF AttachedOnce, Calling, Asked
    <3>3. Step(v, a, p) = Without(Step(w, a, p), c)
      BY <1>11, <1>14, <3>1, <3>2, StepWithout
    <3>4. Agree(Without(Step(w, a, p), c), Without(want[t], c))
      BY <1>3, <1>11, <1>16, <2>1, <3>1, StepIsGraph, AgreeWithout
    <3>5. QED
      BY <1>3, <1>4, <3>1, <3>3, <3>4
  <2>2. CASE ~ Asked(t)
    <3>1. ~ Asked(t)'
      BY <1>2, <2>2 DEF Asked
    <3>2. Agree(Without(w, c), Without(want[t], c))
      BY <1>3, <1>11, <1>16, <2>2, AgreeWithout
    <3>3. QED
      BY <1>3, <1>4, <1>14, <3>1, <3>2
  <2>3. QED
    BY <2>1, <2>2
<1>19. a = graphOf'[t]
  BY <1>2
<1>20. QED
  BY <1>13, <1>15, <1>17, <1>18, <1>19, OrderNextIs

LEMMA PerformsOpOrder ==
  ASSUME TypeOK, TypeOK', OwnedOnce, OpsOwned, HooksOwned, InOrder, PerformsOp
  PROVE  InOrder'
<1>1. PICK o : o = inProgress.op
  OBVIOUS
<1>2. /\ o \in Ops /\ o.graph \in Addresses /\ host[o.graph] \in HostGraphs /\ Does(o)
      /\ o = Waiting[1] /\ 1 \in DOMAIN Waiting /\ Slides(1) /\ Added(1) = {}
      /\ UNCHANGED <<graphOf, pc, call>>
  BY <1>1, PerformsOpMoves
<1>3. WorkOK' /\ CallsOK' /\ HostOK
  BY TypeParts DEF TypeOK
<1>4. /\ quarantined \subseteq quarantined'
      /\ \A b \in Addresses \ {o.graph} : host'[b] = host[b]
  BY <1>2, DoesHost
<1>5. ASSUME NEW t \in Threads PROVE OrderAt(t)'
  <2>1. PICK a : a = graphOf[t]
    OBVIOUS
  <2>2. OrderAt(t) /\ Still(t) /\ a \in Addresses \cup {None}
    BY <1>2, <2>1, OrderParts, TypeParts DEF Still, HandlesOK
  <2>3. CASE Refuses(o) /\ a = o.graph
    BY <1>1, <2>1, <2>2, <2>3, RefusedOrder
  <2>4. CASE ~ (Refuses(o) /\ a = o.graph)
    <3>1. want'[t] = want[t]
      <4>1. CASE Refuses(o)
        BY <1>2, <2>1, <2>4, <4>1, RefusesMoves, TypeParts
      <4>2. CASE ~ Refuses(o)
        BY <1>2, <4>2 DEF Does, Carries, Frees, Abandons
      <4>3. QED
        BY <4>1, <4>2
    <3>2. ASSUME a \notin {None} \cup quarantined' PROVE host'[a] = Step(host[a], a, Waiting[1])
      <4>1. CASE a # o.graph
        BY <1>2, <1>4, <2>2, <3>2, <4>1 DEF Step
      <4>2. CASE a = o.graph
        <5>1. o.kind # "dispose"
          BY <1>2, <2>1, <4>2, DisposalApart
        <5>2. Carries(o)
          BY <1>2, <2>4, <3>2, <4>2, <5>1 DEF Does, Frees, Abandons
        <5>3. host'[a] = After(host[a], o)
          BY <1>2, <1>3, <4>2, <5>2, CarriesMoves
        <5>4. QED
          BY <1>2, <4>2, <5>3 DEF Step
      <4>3. QED
        BY <4>1, <4>2
    <3>3. QED
      BY <1>2, <1>3, <1>4, <2>1, <2>2, <3>1, <3>2, OrderStays
  <2>5. QED
    BY <2>3, <2>4
<1>6. QED
  BY <1>5, OrderParts

LEMMA AgreeSame ==
  ASSUME NEW g \in HostGraphs
  PROVE  Agree(g, g)
BY AgreeIs

LEMMA InlineOrder ==
  ASSUME TypeOK, TypeOK', ModeKept, OwnedOnce, OpsOwned, HooksOwned, InOrder,
         NEW t \in Threads, PerformsInline(t)
  PROVE  InOrder'
<1>1. PICK o : o = call[t]
  OBVIOUS
<1>2. /\ pc[t] = "inline" /\ pc'[t] = "run" /\ Does(o) /\ o \in Ops /\ o.graph \in Addresses
      /\ host[o.graph] \in HostGraphs /\ \A u \in Threads \ {t} : Still(u)
      /\ UNCHANGED <<graphOf, queue, inProgress>>
  BY <1>1, InlineMoves DEF Still
<1>3. Waiting' = Waiting /\ Waiting = <<>> /\ Slides(0) /\ Added(0) = {} /\ Asked(t) /\ ~ Asked(t)'
  BY <1>2, WaitingKept, InlineAlone, SlidesSame DEF Asked
<1>4. WorkOK /\ CallsOK /\ WorkOK' /\ CallsOK' /\ HostOK
  BY TypeParts DEF TypeOK
<1>5. /\ quarantined \subseteq quarantined'
      /\ \A b \in Addresses \ {o.graph} : host'[b] = host[b]
  BY <1>2, DoesHost
<1>6. ASSUME NEW u \in Threads, graphOf[u] # o.graph PROVE want'[u] = want[u]
  BY <1>2, <1>6, RefusesMoves, TypeParts DEF Does, Carries, Frees, Abandons
<1>7. ASSUME NEW u \in Threads, NEW a, a = graphOf[u], a # o.graph PROVE a # None => host'[a] = host[a]
  BY <1>5, <1>7, TypeParts DEF HandlesOK
<1>8. ASSUME NEW u \in Threads \ {t} PROVE OrderAt(u)'
  <2>1. PICK a : a = graphOf[u]
    OBVIOUS
  <2>2. a # o.graph
    <3>1. CASE o.kind = "dispose"
      BY <1>1, <1>2, <1>3, <2>1, <3>1, CallApart
    <3>2. CASE o.kind # "dispose"
      <4>1. o.graph = graphOf[t]
        BY <1>1, <1>2, <3>2, OpsOwnedParts DEF CallOwned
      <4>2. QED
        BY <1>2, <2>1, <4>1, HandlesDiffer
    <3>3. QED
      BY <3>1, <3>2
  <2>3. want'[u] = want[u] /\ (a # None => host'[a] = host[a]) /\ OrderAt(u)
    BY <1>6, <1>7, <2>1, <2>2, OrderParts
  <2>4. QED
    BY <1>2, <1>3, <1>4, <1>5, <2>1, <2>3, OrderStays
<1>9. OrderAt(t)'
  <2>1. PICK a : a = graphOf[t]
    OBVIOUS
  <2>2. SUFFICES ASSUME a # None, a \notin quarantined' PROVE OrderAt(t)'
    BY <1>2, <2>1 DEF OrderAt, Sound
  <2>3. a \in Addresses /\ host[a] \in HostGraphs /\ want[t] \in HostGraphs /\ Sound(t)
    BY <1>5, <2>1, <2>2, HandleMade DEF Sound
  <2>4. PICK g : g = host[a]
    OBVIOUS
  <2>5. \A x : Final(x, a, Waiting) = x
    <3>1. Waiting \in Seq(Ops) /\ \A i \in 1 .. Len(Waiting) : Waiting[i].graph # a
      BY <1>3
    <3>2. QED
      BY <3>1, FinalIdle
  <2>6. Agree(Step(g, a, o), want[t])
    <3>1. g = Final(host[a], a, Waiting)
      BY <2>4, <2>5
    <3>2. OrderAt(t)
      BY OrderParts
    <3>3. QED
      BY <1>1, <1>3, <1>4, <2>1, <2>3, <3>1, <3>2, OrderIs
  <2>7. PICK h : h = host'[a]
    OBVIOUS
  <2>8. Agree(h, want'[t])
    <3>1. CASE a # o.graph
      <4>1. Step(g, a, o) = g
        BY <3>1 DEF Step
      <4>2. h = g /\ want'[t] = want[t]
        BY <1>6, <1>7, <2>1, <2>2, <2>4, <2>7, <3>1
      <4>3. QED
        BY <2>6, <4>1, <4>2
    <3>2. CASE a = o.graph
      <4>1. Step(g, a, o) = After(g, o)
        BY <3>2 DEF Step
      <4>2. o.kind # "dispose"
        BY <1>1, <1>2, <1>3, <2>1, <3>2, CallApart
      <4>3. CASE Carries(o)
        <5>1. h = After(g, o) /\ want'[t] = want[t]
          BY <1>2, <1>4, <2>4, <2>7, <3>2, <4>3, CarriesMoves DEF Carries
        <5>2. QED
          BY <2>6, <4>1, <5>1
      <4>4. CASE Refuses(o)
        <5>1. h = g /\ o.kind = "notify" /\ want'[t] = Without(want[t], o.arg)
          BY <1>2, <2>1, <2>4, <2>7, <3>2, <4>4, RefusesMoves, TypeParts DEF Refuses
        <5>2. o.arg \notin g.hooks
          BY <1>1, <1>3, <2>4, <3>2, <5>1, HooksParts DEF Task, Fits
        <5>3. After(g, o) \in HostGraphs /\ Without(After(g, o), o.arg) = g
          BY <1>2, <2>3, <2>4, <5>1, <5>2, NotifyWithout
        <5>4. Agree(Without(After(g, o), o.arg), Without(want[t], o.arg))
          BY <2>3, <2>6, <4>1, <5>3, AgreeWithout
        <5>5. QED
          BY <5>1, <5>3, <5>4
      <4>5. QED
        BY <1>2, <2>2, <3>2, <4>2, <4>3, <4>4 DEF Does, Frees, Abandons
    <3>3. QED
      BY <3>1, <3>2
  <2>9. h = Final(host'[a], a, Waiting') /\ a = graphOf'[t]
    BY <1>2, <1>3, <2>1, <2>5, <2>7
  <2>10. PICK p : p = call'[t]
    OBVIOUS
  <2>11. QED
    BY <1>3, <1>4, <2>8, <2>9, <2>10, OrderNextIs
<1>10. QED
  BY <1>8, <1>9, OrderParts

LEMMA NewAUGraphOrder ==
  ASSUME TypeOK, TypeOK', OwnedOnce, OpsOwned, InOrder, NEW t \in Threads, NewAUGraph(t)
  PROVE  InOrder'
<1>1. PICK b : b = graphOf'[t]
  OBVIOUS
<1>2. /\ pc[t] = "run" /\ b \in Addresses /\ host[b] = None /\ host'[b] = Fresh
      /\ \A a \in Addresses \ {b} : host'[a] = host[a]
      /\ want'[t] = Fresh /\ \A u \in Threads \ {t} : graphOf'[u] = graphOf[u] /\ want'[u] = want[u]
  BY <1>1, NewAUGraphMoves
<1>3. UNCHANGED <<queue, inProgress, pc, call, quarantined>>
  BY DEF NewAUGraph, work
<1>4. Waiting' = Waiting /\ Slides(0) /\ Added(0) = {} /\ WorkOK' /\ CallsOK'
  BY <1>3, WaitingKept, SlidesSame DEF TypeOK
<1>5. ASSUME NEW u \in Threads \ {t} PROVE OrderAt(u)'
  <2>1. PICK a : a = graphOf[u]
    OBVIOUS
  <2>2. a # None => host'[a] = host[a]
    BY <1>2, <2>1, HandleMade, NoneAssumption
  <2>3. OrderAt(u) /\ Still(u)
    BY <1>3, OrderParts DEF Still
  <2>4. QED
    BY <1>2, <1>3, <1>4, <2>1, <2>2, <2>3, OrderStays
<1>6. OrderAt(t)'
  <2>1. Waiting \in Seq(Ops)
    BY TypeParts, WaitingTyped
  <2>2. \A i \in 1 .. Len(Waiting) : Waiting[i].graph # b
    BY <1>2, <2>1, WaitingMade, OpGraph, NoneAssumption
  <2>3. Final(host'[b], b, Waiting') = Fresh
    BY <1>2, <1>4, <2>1, <2>2, FinalIdle
  <2>4. ~ Asked(t)'
    BY <1>2, <1>3 DEF Asked
  <2>5. Agree(Fresh, want'[t])
    BY <1>2, FreshTyped, AgreeSame
  <2>6. PICK p : p = call'[t]
    OBVIOUS
  <2>7. QED
    BY <1>1, <1>4, <2>3, <2>4, <2>5, <2>6, OrderNextIs
<1>7. QED
  BY <1>5, <1>6, OrderParts

LEMMA FinalStays ==
  ASSUME NEW g, NEW a, Slides(0), \A i \in Added(0) : Waiting'[i].graph # a
  PROVE  Final(g, a, Waiting') = Final(g, a, Waiting)
<1>1. PICK k : k = 0
  OBVIOUS
<1>2. Slides(k) /\ (\A i \in Added(k) : Waiting'[i].graph # a) /\ k # 1
  BY <1>1
<1>3. Final(IF k = 1 THEN Step(g, a, Waiting[1]) ELSE g, a, Waiting') = Final(g, a, Waiting)
  BY <1>2, FinalSlides
<1>4. QED
  BY <1>2, <1>3

LEMMA AltersOrder ==
  ASSUME TypeOK, TypeOK', OwnedOnce, OpsOwned, InOrder, NEW t \in Threads, Alters(t),
         Slides(0), \A i \in Added(0), u \in Threads : graphOf[u] # None => Waiting'[i].graph # graphOf[u]
  PROVE  InOrder'
<1>1. /\ pc[t] = "drain" /\ pc'[t] = "run" /\ graphOf[t] \in Addresses
      /\ host[graphOf[t]] \in HostGraphs /\ want[t] \in HostGraphs
      /\ \A i \in 1 .. Len(Waiting) : Waiting[i].graph # graphOf[t]
      /\ \A b \in Addresses \ {graphOf[t]} : host'[b] = host[b]
      /\ \A u \in Threads \ {t} : want'[u] = want[u] /\ Still(u)
      /\ UNCHANGED <<graphOf, quarantined>>
  BY AltersHost DEF Alters
<1>2. WorkOK /\ CallsOK /\ WorkOK' /\ CallsOK'
  BY TypeParts DEF TypeOK
<1>3. ASSUME NEW u \in Threads \ {t} PROVE OrderAt(u)'
  <2>1. PICK a : a = graphOf[u]
    OBVIOUS
  <2>2. a # None => host'[a] = host[a] /\ \A i \in Added(0) : Waiting'[i].graph # a
    BY <1>1, <2>1, HandlesDiffer, TypeParts DEF HandlesOK
  <2>3. OrderAt(u)
    BY OrderParts
  <2>4. QED
    BY <1>1, <1>2, <2>1, <2>2, <2>3, OrderStays
<1>4. OrderAt(t)'
  <2>1. PICK a : a = graphOf[t]
    OBVIOUS
  <2>2. SUFFICES ASSUME Sound(t) PROVE OrderAt(t)'
    BY <1>1 DEF OrderAt, Sound
  <2>3. Waiting \in Seq(Ops)
    BY <1>2, WaitingTyped
  <2>4. \A x : Final(x, a, Waiting) = x
    BY <1>1, <2>1, <2>3, FinalIdle
  <2>5. a # None /\ \A i \in Added(0) : Waiting'[i].graph # a
    BY <1>1, <2>1, NoneAssumption
  <2>6. \A x : Final(x, a, Waiting') = x
    BY <2>4, <2>5, FinalStays
  <2>7. PICK g : g = host[a]
    OBVIOUS
  <2>8. ~ Asked(t) /\ ~ Asked(t)'
    BY <1>1 DEF Asked
  <2>9. Agree(g, want[t]) /\ g \in HostGraphs
    <3>1. g = Final(host[a], a, Waiting)
      BY <2>4, <2>7
    <3>2. OrderAt(t)
      BY OrderParts
    <3>3. QED
      BY <1>1, <1>2, <2>1, <2>2, <2>7, <2>8, <3>1, <3>2, OrderIs
  <2>10. PICK h : h = host'[a]
    OBVIOUS
  <2>11. Agree(h, want'[t])
    <3>1. CASE UNCHANGED <<host, want, ctx>>
      BY <2>7, <2>9, <2>10, <3>1
    <3>2. CASE \E o : Fitting(o) /\ Makes(t, o)
      <4>1. PICK o : Fitting(o) /\ Makes(t, o)
        BY <3>2
      <4>2. h = After(g, o) /\ want'[t] = After(want[t], o)
        BY <1>1, <2>1, <2>5, <2>7, <2>10, <4>1, MakesMoves
      <4>3. QED
        BY <1>1, <2>9, <4>1, <4>2, AfterAgree
    <3>3. QED
      BY <3>1, <3>2 DEF Alters
  <2>12. h = Final(host'[a], a, Waiting') /\ a = graphOf'[t]
    BY <1>1, <2>1, <2>6, <2>10
  <2>13. PICK p : p = call'[t]
    OBVIOUS
  <2>14. QED
    BY <1>2, <2>8, <2>11, <2>12, <2>13, OrderNextIs
<1>5. QED
  BY <1>3, <1>4, OrderParts

LEMMA BuildingOrder ==
  ASSUME TypeOK, TypeOK', OwnedOnce, OpsOwned, InOrder, NEW t \in Threads,
         Builds(t) \/ Disconnects(t) \/ SetsInput(t) \/ OpensUnpooled(t)
  PROVE  InOrder'
BY BuildingWaits, AltersMoves, AltersOrder

LEMMA MissesOthers ==
  ASSUME TypeOK, OwnedOnce, OpsOwned, NEW t \in Threads, MissesPool(t)
  PROVE  Slides(0) /\ \A i \in Added(0), u \in Threads :
                        graphOf[u] # None => Waiting'[i].graph # graphOf[u]
<1>1. Slides(0) /\ Added(0) = Len(Waiting) + 1 .. Len(Waiting') /\ Waiting \in Seq(Ops)
  BY MissesWaits
<1>2. ASSUME NEW i \in Added(0), NEW u \in Threads, graphOf[u] # None PROVE Waiting'[i].graph # graphOf[u]
  <2>1. CASE \A j \in Added(0) : Waiting'[j].graph = None
    BY <1>2, <2>1
  <2>2. CASE /\ Len(Waiting') >= Len(Waiting) + Len(pool)
             /\ \A j \in 1 .. Len(pool) : Waiting'[Len(Waiting) + j].graph = pool[j]
             /\ \A j \in Len(Waiting) + Len(pool) + 1 .. Len(Waiting') : Waiting'[j].graph = None
    <3>1. /\ Len(pool) \in Nat /\ Len(Waiting) \in Nat /\ i \in Len(Waiting) + 1 .. Len(Waiting')
          /\ DOMAIN pool = 1 .. Len(pool)
      BY <1>1, <1>2, TypeParts DEF PoolOK
    <3>2. CASE i > Len(Waiting) + Len(pool)
      BY <1>2, <2>2, <3>1, <3>2
    <3>3. CASE ~ (i > Len(Waiting) + Len(pool))
      <4>1. PICK j \in 1 .. Len(pool) : Len(Waiting) + j = i
        <5>1. i - Len(Waiting) \in 1 .. Len(pool) /\ Len(Waiting) + (i - Len(Waiting)) = i
          BY <3>1, <3>3
        <5>2. QED
          BY <5>1
      <4>2. Waiting'[i] = Waiting'[Len(Waiting) + j]
        BY <4>1
      <4>3. QED
        BY <2>2, <3>1, <4>1, <4>2, OffPool
    <3>4. QED
      BY <3>2, <3>3
  <2>3. QED
    BY <2>1, <2>2, MissesWaits
<1>3. QED
  BY <1>1, <1>2

LEMMA MissesPoolOrder ==
  ASSUME TypeOK, TypeOK', OwnedOnce, OpsOwned, InOrder, NEW t \in Threads, MissesPool(t)
  PROVE  InOrder'
BY MissesOthers, AltersMoves, AltersOrder

LEMMA TakesPooledOrder ==
  ASSUME TypeOK, TypeOK', OwnedOnce, OpsOwned, InOrder, NEW t \in Threads, TakesPooled(t)
  PROVE  InOrder'
<1>1. /\ Drained(t) /\ pc'[t] = "swap" /\ \A u \in Threads \ {t} : Still(u)
      /\ Waiting' \in Seq(Ops) /\ Len(Waiting') >= Len(Waiting)
      /\ \A i \in 1 .. Len(Waiting) : Waiting'[i] = Waiting[i]
      /\ \A i \in Len(Waiting) + 1 .. Len(Waiting') : Waiting'[i].kind = "refill"
  BY TakesPooledMoves DEF Still
<1>2. UNCHANGED <<graphOf, want, host, quarantined>> /\ pc[t] = "drain"
  BY <1>1 DEF TakesPooled, Drained, history
<1>3. Slides(0) /\ \A i \in Added(0) : Waiting'[i].kind = "refill"
  BY <1>1, SlidesOn
<1>4. WorkOK' /\ CallsOK'
  BY DEF TypeOK
<1>5. \A i \in Added(0) : Waiting'[i].graph = None
  <2>1. ASSUME NEW i \in Added(0) PROVE Waiting'[i] \in Ops
    BY <1>1, <1>3, SlidesOn DEF Added, Slides
  <2>2. QED
    BY <1>3, <2>1 DEF Ops
<1>6. ASSUME NEW u \in Threads PROVE OrderAt(u)'
  <2>1. PICK a : a = graphOf[u]
    OBVIOUS
  <2>2. Still(u) \/ (~ Asked(u) /\ ~ Asked(u)')
    BY <1>1, <1>2 DEF Asked
  <2>3. OrderAt(u)
    BY OrderParts
  <2>4. QED
    BY <1>2, <1>3, <1>4, <1>5, <2>1, <2>2, <2>3, OrderStays
<1>7. QED
  BY <1>6, OrderParts

LEMMA OthersOrder ==
  ASSUME TypeOK, TypeOK', OwnedOnce, OpsOwned, InOrder, NEW t \in Threads, Guest(t), ~ Enqueues(t),
         ~ PerformsInline(t), ~ Synchronizes(t), ~ Answers(t), Slides(0), NEW u \in Threads \ {t},
         quarantined \subseteq quarantined', graphOf[u] # None => host'[graphOf[u]] = host[graphOf[u]],
         graphOf[u] # None => \A i \in Added(0) : Waiting'[i].graph # graphOf[u]
  PROVE  OrderAt(u)'
<1>1. graphOf'[u] = graphOf[u] /\ want'[u] = want[u] /\ Still(u)
  BY GuestOthers
<1>2. OrderAt(u) /\ WorkOK' /\ CallsOK'
  BY OrderParts DEF TypeOK
<1>3. PICK a : a = graphOf[u]
  OBVIOUS
<1>4. QED
  BY <1>1, <1>2, <1>3, OrderStays

LEMMA SwapsGraphOrder ==
  ASSUME TypeOK, TypeOK', OwnedOnce, OpsOwned, TopologyKept, InOrder, NEW t \in Threads, SwapsGraph(t)
  PROVE  InOrder'
<1>1. PICK b, o : b = graphOf'[t] /\ o = call'[t]
  OBVIOUS
<1>2. /\ pc[t] = "swap" /\ b = call[t].graph /\ b \in Addresses /\ call[t] \in Ops
      /\ call[t].kind = "open" /\ graphOf[t] \in Addresses /\ want[t] \in HostGraphs
      /\ o = Op("dispose", graphOf[t], None) /\ want'[t] = After(want[t], call[t])
      /\ want'[t] \in HostGraphs /\ UNCHANGED <<host, queue, inProgress, quarantined>>
  BY <1>1, SwapsGraphMoves
<1>3. Waiting' = Waiting /\ Slides(0) /\ Added(0) = {} /\ WorkOK' /\ CallsOK'
  BY <1>2, WaitingKept, SlidesSame DEF TypeOK
<1>4. ASSUME NEW u \in Threads \ {t} PROVE OrderAt(u)'
  <2>1. /\ Guest(t) /\ ~ Enqueues(t) /\ ~ PerformsInline(t) /\ ~ Synchronizes(t) /\ ~ Answers(t)
    BY <1>2 DEF Guest, Enqueues, PerformsInline, Synchronizes, Answers, Has, Begins, Drained
  <2>2. QED
    BY <1>2, <1>3, <2>1, OthersOrder
<1>5. OrderAt(t)'
  <2>1. /\ graphOf[t] # b /\ \A i \in DOMAIN Waiting : Waiting[i].graph # b
    BY <1>2, ReservedApart DEF Reserved
  <2>2. Waiting \in Seq(Ops) /\ \A i \in 1 .. Len(Waiting) : Waiting[i].graph # b
    BY <2>1, TypeParts, WaitingTyped
  <2>3. PICK g : g = host[b]
    OBVIOUS
  <2>4. g = Final(host'[b], b, Waiting')
    BY <1>2, <1>3, <2>2, <2>3, FinalIdle
  <2>5. /\ Closed(want[t]) /\ want[t].hooks = {} /\ Shape(want[t]) = Shape(topology[t])
        /\ ~ want[t].open /\ g = Built(Shape(topology[t]))
    BY <1>2, <2>3, TopologyParts, NoneAssumption DEF KeptAt
  <2>6. Shape(want[t]) \in Shapes /\ g = Built(Shape(want[t]))
    BY <1>2, <2>5 DEF Shape, Shapes, HostGraphs
  <2>7. /\ g \in HostGraphs /\ g.nodes = want[t].nodes /\ g.connections = want[t].connections
        /\ g.open = TRUE /\ g.init = FALSE /\ g.running = FALSE /\ g.volume = FALSE /\ g.hooks = {}
    BY <2>6, BuiltTyped DEF Shape, HostGraphs
  <2>8. want[t].open = FALSE /\ want[t].init = FALSE /\ want[t].running = FALSE /\ want[t].volume = FALSE
    BY <1>2, <2>5 DEF Closed, HostGraphs
  <2>9. PICK v : v = want'[t]
    OBVIOUS
  <2>10. v \in HostGraphs /\ Follows(v, want[t], call[t])
    BY <1>2, <2>9, AfterIs
  <2>11. /\ v.nodes = want[t].nodes /\ v.connections = want[t].connections /\ v.open = TRUE
         /\ v.init = FALSE /\ v.running = FALSE /\ v.volume = FALSE /\ v.hooks = {}
    BY <1>2, <2>5, <2>8, <2>10 DEF Follows
  <2>12. g = v
    BY <2>7, <2>10, <2>11, SameGraph
  <2>13. Agree(g, want'[t])
    BY <2>7, <2>9, <2>12, AgreeSame
  <2>14. Step(g, b, o) = g
    BY <1>2, <2>1, OpIs DEF Step
  <2>15. QED
    BY <1>1, <1>3, <2>4, <2>13, <2>14, OrderNextIs
<1>6. QED
  BY <1>4, <1>5, OrderParts

LEMMA QueuesOrder ==
  ASSUME TypeOK, TypeOK', OwnedOnce, OpsOwned, InOrder, NEW t \in Threads,
         Initialize(t) \/ Start(t) \/ Stop(t) \/ AddRenderNotify(t) \/ TearDown(t)
  PROVE  InOrder'
<1>1. /\ UNCHANGED <<host, queue, inProgress, quarantined>> /\ pc[t] = "run"
      /\ graphOf[t] \in Addresses /\ graphOf[t] # None
  <2>1. graphOf[t] \in Addresses /\ graphOf[t] # None
    BY InitializeMoves, StartMoves, StopMoves, AddRenderNotifyMoves, TearDownMoves, NoneAssumption
  <2>2. QED
    BY <2>1 DEF Initialize, Start, Stop, AddRenderNotify, TearDown, Has, Begins, work
<1>2. Waiting' = Waiting /\ Slides(0) /\ Added(0) = {}
  BY <1>1, WaitingKept, SlidesSame
<1>3. WorkOK /\ CallsOK /\ WorkOK' /\ CallsOK'
  BY TypeParts DEF TypeOK
<1>4. ASSUME NEW u \in Threads \ {t} PROVE OrderAt(u)'
  <2>1. Guest(t) /\ ~ Enqueues(t) /\ ~ PerformsInline(t) /\ ~ Answers(t)
    BY <1>1 DEF Guest, Enqueues, PerformsInline, Answers, Drained
  <2>2. CASE Synchronizes(t)
    BY <2>2, GuestQuiet, QuietOrder, <1>1, OrderParts
  <2>3. CASE ~ Synchronizes(t)
    BY <1>1, <1>2, <2>1, <2>3, OthersOrder
  <2>4. QED
    BY <2>2, <2>3
<1>5. CASE Drops(t)
  <2>1. graphOf'[t] = None
    BY <1>1, <1>5, DropsMoves
  <2>2. OrderAt(t)'
    BY <2>1 DEF OrderAt, Sound
  <2>3. QED
    BY <1>4, <2>2, OrderParts
<1>6. CASE ~ Drops(t)
  <2>1. UNCHANGED graphOf
    BY <1>6, TearDownMoves DEF Initialize, Start, Stop, AddRenderNotify
  <2>2. PICK o : Asks(t, o)
    BY <1>6, InitializeMoves, StartMoves, StopMoves, AddRenderNotifyMoves, TearDownMoves
  <2>3. /\ o \in Ops /\ o.graph = graphOf[t] /\ call'[t] = o /\ pc'[t] \in {"enqueue", "inline"}
        /\ want'[t] = After(want[t], o) /\ want[t] \in HostGraphs
    BY <1>1, <2>2, AsksMoves DEF Asks
  <2>4. PICK a : a = graphOf[t]
    OBVIOUS
  <2>5. PICK w : w = Final(host[a], a, Waiting)
    OBVIOUS
  <2>6. w \in HostGraphs /\ w = Final(host'[a], a, Waiting') /\ a = graphOf'[t]
    BY <1>1, <1>2, <1>3, <2>1, <2>4, <2>5, HandleMade, WaitingTyped, FinalTyped
  <2>7. SUFFICES ASSUME Sound(t) PROVE OrderAt(t)'
    BY <1>1, <1>4, <2>1, OrderParts DEF OrderAt, Sound
  <2>8. ~ Asked(t) /\ Asked(t)'
    BY <1>1, <2>3 DEF Asked
  <2>9. Agree(w, want[t])
    BY <1>3, <2>4, <2>5, <2>7, <2>8, OrderIs, OrderParts
  <2>10. Agree(Step(w, a, o), want'[t])
    BY <2>3, <2>4, <2>6, <2>9, StepAgree
  <2>11. QED
    BY <1>3, <2>3, <2>6, <2>8, <2>10, OrderNextIs
<1>7. QED
  BY <1>5, <1>6

LEMMA EnqueuesOrder ==
  ASSUME TypeOK, TypeOK', OwnedOnce, OpsOwned, InOrder, NEW t \in Threads, Enqueues(t)
  PROVE  InOrder'
<1>1. PICK o : o = call[t]
  OBVIOUS
<1>2. /\ pc[t] = "enqueue" /\ pc'[t] = "run" /\ o \in Ops /\ \A u \in Threads \ {t} : Still(u)
      /\ Waiting' \in Seq(Ops) /\ Len(Waiting') = Len(Waiting) + 1
      /\ \A i \in 1 .. Len(Waiting) : Waiting'[i] = Waiting[i]
      /\ Waiting'[Len(Waiting) + 1] = o
  BY <1>1, EnqueuesMoves DEF Still
<1>3. UNCHANGED <<host, graphOf, want, quarantined>>
  BY DEF Enqueues, history
<1>4. WorkOK /\ CallsOK /\ WorkOK' /\ CallsOK'
  BY TypeParts DEF TypeOK
<1>5. Waiting \in Seq(Ops) /\ Asked(t) /\ ~ Asked(t)'
  BY <1>2, <1>4, WaitingTyped DEF Asked
<1>6. Slides(0) /\ Added(0) = {Len(Waiting) + 1}
  BY <1>2, <1>5, SlidesOn
<1>7. ASSUME NEW u \in Threads \ {t} PROVE OrderAt(u)'
  <2>1. PICK a : a = graphOf[u]
    OBVIOUS
  <2>2. o.graph \in Addresses
    BY <1>1, <1>2, CallMade
  <2>3. o.graph # a
    <3>1. CASE o.kind = "dispose"
      BY <1>1, <1>5, <2>1, <2>2, <3>1, CallApart
    <3>2. CASE o.kind # "dispose"
      <4>1. o.graph = graphOf[t]
        BY <1>1, <1>2, <3>2, OpsOwnedParts DEF CallOwned
      <4>2. QED
        BY <2>1, <2>2, <4>1, HandlesDiffer
    <3>3. QED
      BY <3>1, <3>2
  <2>4. \A i \in Added(0) : Waiting'[i].graph # a
    BY <1>2, <1>6, <2>3
  <2>5. OrderAt(u)
    BY OrderParts
  <2>6. QED
    BY <1>2, <1>3, <1>4, <1>6, <2>1, <2>4, <2>5, OrderStays
<1>8. OrderAt(t)'
  <2>1. PICK a : a = graphOf[t]
    OBVIOUS
  <2>2. PICK w : w = Final(host[a], a, Waiting)
    OBVIOUS
  <2>3. PICK v : v = Final(host'[a], a, Waiting')
    OBVIOUS
  <2>4. v = Step(w, a, o)
    BY <1>2, <1>3, <1>5, <2>2, <2>3, FinalAppends
  <2>5. OrderAt(t) /\ a = graphOf'[t]
    BY <1>3, <2>1, OrderParts
  <2>6. Sound(t) => Agree(v, want[t])
    BY <1>1, <1>4, <1>5, <2>1, <2>2, <2>4, <2>5, OrderIs
  <2>7. Sound(t)' => Sound(t)
    BY <1>3 DEF Sound
  <2>8. Sound(t)' => Agree(v, want'[t])
    BY <1>3, <2>6, <2>7
  <2>9. PICK p : p = call'[t]
    OBVIOUS
  <2>10. QED
    BY <1>4, <1>5, <2>3, <2>5, <2>8, <2>9, OrderNextIs
<1>9. QED
  BY <1>7, <1>8, OrderParts

LEMMA WithoutWork ==
  ASSUME TypeOK, NEW a, ~ HasWork(a, FALSE)
  PROVE  \A i \in DOMAIN Waiting : Waiting[i].graph # a
<1>1. WorkOK
  BY TypeParts
<1>2. \A i \in DOMAIN queue : queue[i].graph # a
  BY DEF HasWork, IsOf
<1>3. CASE inProgress.place = "perform"
  <2>1. Waiting = <<inProgress.op>> \o queue /\ queue \in Seq(Ops) /\ inProgress.op # None
    BY <1>1, <1>3 DEF Waiting, WorkOK
  <2>2. inProgress.op.graph # a
    BY <2>1 DEF HasWork, IsOf
  <2>3. ASSUME NEW i \in DOMAIN Waiting PROVE Waiting[i].graph # a
    <3>1. CASE i = 1
      BY <2>1, <2>2, <3>1
    <3>2. CASE i # 1
      <4>1. i - 1 \in DOMAIN queue /\ Waiting[i] = queue[i - 1]
        BY <2>1, <3>2
      <4>2. QED
        BY <1>2, <4>1
    <3>3. QED
      BY <3>1, <3>2
  <2>4. QED
    BY <2>3
<1>4. CASE inProgress.place # "perform"
  BY <1>1, <1>2, <1>4 DEF Waiting, WorkOK
<1>5. QED
  BY <1>3, <1>4

LEMMA SetParameterOrder ==
  ASSUME TypeOK, TypeOK', OwnedOnce, OpsOwned, InOrder, NEW t \in Threads, SetParameter(t)
  PROVE  InOrder'
<1>1. PICK a, o : a = graphOf[t] /\ o = Op("parameter", graphOf[t], TRUE)
  OBVIOUS
<1>2. /\ Has(t) /\ a \in Addresses /\ o \in Ops /\ host[a] \in HostGraphs
      /\ Persists \/ ~ (want[t].init /\ HasWork(a, TRUE))
      /\ want'[t] = After(want[t], o) /\ want[t] \in HostGraphs /\ want'[t] \in HostGraphs
      /\ UNCHANGED <<graphOf, pc, call, inProgress, quarantined>>
      /\ \/ HasWork(a, TRUE) /\ UNCHANGED <<host, queue>>
         \/ /\ UNCHANGED host /\ Waiting' \in Seq(Ops) /\ Len(Waiting') = Len(Waiting) + 1
            /\ \A i \in 1 .. Len(Waiting) : Waiting'[i] = Waiting[i]
            /\ Waiting'[Len(Waiting) + 1] = o
         \/ /\ ~ HasWork(a, FALSE) /\ UNCHANGED queue
            /\ host'[a] = After(host[a], o)
            /\ \A b \in Addresses \ {a} : host'[b] = host[b]
  BY <1>1, SetParameterMoves
<1>3. o.kind = "parameter" /\ o.graph = a
  BY <1>1 DEF Op
<1>4. WorkOK /\ CallsOK /\ WorkOK' /\ CallsOK'
  BY TypeParts DEF TypeOK
<1>5. Waiting \in Seq(Ops) /\ ~ Asked(t) /\ ~ Asked(t)' /\ Sound(t)
  BY <1>1, <1>2, <1>4, WaitingTyped DEF Asked, Has, Begins, Sound
<1>6. ASSUME NEW u \in Threads \ {t} PROVE OrderAt(u)'
  <2>1. graphOf[u] # a
    BY <1>1, <1>2, HandlesDiffer
  <2>2. Slides(0) /\ \A i \in Added(0) : Waiting'[i].graph # graphOf[u]
    <3>1. CASE UNCHANGED queue
      BY <1>2, <3>1, WaitingKept, SlidesSame
    <3>2. CASE /\ Waiting' \in Seq(Ops) /\ Len(Waiting') = Len(Waiting) + 1
               /\ \A i \in 1 .. Len(Waiting) : Waiting'[i] = Waiting[i]
               /\ Waiting'[Len(Waiting) + 1] = o
      BY <1>3, <1>5, <2>1, <3>2, SlidesOn
    <3>3. QED
      BY <1>2, <3>1, <3>2
  <2>3. graphOf[u] # None => host'[graphOf[u]] = host[graphOf[u]]
    BY <1>2, <2>1, TypeParts DEF HandlesOK
  <2>4. Guest(t) /\ ~ Enqueues(t) /\ ~ PerformsInline(t) /\ ~ Answers(t)
    BY <1>2 DEF Guest, Enqueues, PerformsInline, Answers, Has, Begins, Drained
  <2>5. ~ Synchronizes(t)
    <3>1. ASSUME Synchronizes(t) PROVE FALSE
      <4>1. pc'[t] = "drain"
        BY <3>1, TypeParts, GoesBack DEF Synchronizes
      <4>2. QED
        BY <1>2, <4>1 DEF Has, Begins
    <3>2. QED
      BY <3>1
  <2>6. QED
    BY <1>2, <2>2, <2>3, <2>4, <2>5, OthersOrder
<1>7. PICK w : w = Final(host[a], a, Waiting)
  OBVIOUS
<1>8. w \in HostGraphs /\ Agree(w, want[t])
  BY <1>1, <1>2, <1>4, <1>5, <1>7, FinalTyped, OrderIs, OrderParts
<1>9. PICK v : v = Final(host'[a], a, Waiting')
  OBVIOUS
<1>10. Agree(v, want'[t])
  <2>1. CASE HasWork(a, TRUE) /\ UNCHANGED <<host, queue>>
    <3>1. v = w
      BY <1>2, <1>7, <1>9, <2>1, WaitingKept
    <3>2. PICK x : x = want'[t]
      OBVIOUS
    <3>3. x \in HostGraphs /\ Follows(x, want[t], o) /\ (Persists \/ ~ want[t].init)
      BY <1>2, <2>1, <3>2, AfterIs
    <3>4. /\ x.nodes = want[t].nodes /\ x.connections = want[t].connections /\ x.open = want[t].open
          /\ x.init = want[t].init /\ x.running = want[t].running /\ x.hooks = want[t].hooks
          /\ Persists \/ x.volume = want[t].volume
      BY <1>3, <3>3 DEF Follows
    <3>5. /\ w.nodes = want[t].nodes /\ w.connections = want[t].connections /\ w.open = want[t].open
          /\ w.init = want[t].init /\ w.running = want[t].running /\ w.hooks = want[t].hooks
          /\ Persists \/ w.volume = want[t].volume
      BY <1>2, <1>8, AgreeIs
    <3>6. Agree(w, x)
      BY <1>8, <3>3, <3>4, <3>5, AgreeIs
    <3>7. QED
      BY <3>1, <3>2, <3>6
  <2>2. CASE /\ UNCHANGED host /\ Waiting' \in Seq(Ops) /\ Len(Waiting') = Len(Waiting) + 1
             /\ \A i \in 1 .. Len(Waiting) : Waiting'[i] = Waiting[i]
             /\ Waiting'[Len(Waiting) + 1] = o
    <3>1. v = Step(w, a, o)
      BY <1>5, <1>7, <1>9, <2>2, FinalAppends
    <3>2. QED
      BY <1>2, <1>3, <1>8, <3>1, StepAgree
  <2>3. CASE /\ ~ HasWork(a, FALSE) /\ UNCHANGED queue /\ host'[a] = After(host[a], o)
    <3>1. Waiting' = Waiting /\ \A i \in 1 .. Len(Waiting) : Waiting[i].graph # a
      <4>1. Waiting' = Waiting
        BY <1>2, <2>3, WaitingKept
      <4>2. \A i \in DOMAIN Waiting : Waiting[i].graph # a
        BY <2>3, WithoutWork
      <4>3. QED
        BY <1>5, <4>1, <4>2
    <3>2. w = host[a] /\ v = host'[a]
      BY <1>5, <1>7, <1>9, <3>1, FinalIdle
    <3>3. QED
      BY <1>2, <1>8, <2>3, <3>2, AfterAgree, OpsFit
  <2>4. QED
    BY <1>2, <2>1, <2>2, <2>3
<1>11. OrderAt(t)'
  <2>1. PICK p : p = call'[t]
    OBVIOUS
  <2>2. a = graphOf'[t]
    BY <1>1, <1>2
  <2>3. QED
    BY <1>4, <1>5, <1>9, <1>10, <2>1, <2>2, OrderNextIs
<1>12. QED
  BY <1>6, <1>11, OrderParts

LEMMA StepOrder ==
  ASSUME TypeOK, ModeKept, OwnedOnce, OpsOwned, HooksOwned, TopologyKept, InOrder, [Next]_vars
  PROVE  InOrder'
<1>1. TypeOK'
  BY StepTyped
<1>2. CASE Worker
  BY <1>1, <1>2, WorkerQuiet, QuietOrder, PerformsOpOrder, RefillOrder DEF Worker
<1>3. ASSUME NEW t \in Threads, Guest(t) PROVE InOrder'
  <2>1. CASE Synchronizes(t) \/ Answers(t)
    <3>1. graphOf[t] # None
      BY <2>1, DrainedHas DEF Synchronizes, Answers, Has
    <3>2. QED
      BY <1>1, <2>1, <3>1, GuestQuiet, QuietOrder
  <2>2. CASE Builds(t) \/ Disconnects(t) \/ SetsInput(t) \/ OpensUnpooled(t)
    BY <1>1, <2>2, BuildingOrder
  <2>3. CASE NewAUGraph(t) \/ TakesPooled(t) \/ MissesPool(t) \/ SwapsGraph(t)
    BY <1>1, <2>3, NewAUGraphOrder, TakesPooledOrder, MissesPoolOrder, SwapsGraphOrder
  <2>4. CASE Initialize(t) \/ Start(t) \/ Stop(t) \/ AddRenderNotify(t) \/ TearDown(t)
    BY <1>1, <2>4, QueuesOrder
  <2>5. CASE Enqueues(t) \/ PerformsInline(t) \/ SetParameter(t)
    BY <1>1, <2>5, EnqueuesOrder, InlineOrder, SetParameterOrder
  <2>6. QED
    BY <1>3, <2>1, <2>2, <2>3, <2>4, <2>5, Zenon DEF Guest
<1>4. CASE UNCHANGED vars
  BY <1>1, <1>4, StutterQuiet, QuietOrder
<1>5. QED
  BY <1>2, <1>3, <1>4 DEF Next

-----------------------------------------------------------------------------
(* Silence: no graph on the way to a stopped one has a callback to call *)
SilentAt(t) ==
  Sound(t) /\ ~ want[t].running /\ pc[t] # "inline" =>
    \A i \in 0 .. Len(Pending(t)) : SilentWith(Becomes(t)[i])

LEMMA SilentParts == /\ Silent <=> \A t \in Threads : SilentAt(t)
                     /\ Silent' <=> \A t \in Threads : SilentAt(t)'
BY DEF Silent, SilentAt

\* What the steps do to the callbacks of a graph.
Quieted(c) == ctx'[c] = None \/ ctx'[c].muted
Hushed(a) == \A c \in Callbacks : ctx[c] # None /\ ctx[c].owner = a => Quieted(c)
Quieter(a) == \A c \in Callbacks : ctx[c] # None /\ ctx[c].owner = a => ctx'[c] = ctx[c] \/ Quieted(c)

LEMMA PathHooks ==
  ASSUME TypeOK, HooksOwned, NEW a \in Addresses, host[a] \in HostGraphs, NEW i \in 0 .. Len(Waiting),
         NEW x, x = Effects(host[a], a, Waiting)[i]
  PROVE  \A c \in x.hooks : c \in Callbacks /\ ctx[c] # None /\ ctx[c].owner = a
<1>1. Waiting \in Seq(Ops)
  BY TypeParts, WaitingTyped
<1>2. x \in HostGraphs
  BY <1>1, EffectsTyped
<1>3. x.hooks \subseteq Callbacks
  BY <1>2 DEF HostGraphs
<1>4. host[a] # None
  BY NoneAssumption
<1>5. ASSUME NEW c \in x.hooks, ~ (ctx[c] # None /\ ctx[c].owner = a) PROVE FALSE
  <2>1. c \notin host[a].hooks
    BY <1>4, <1>5, HooksParts DEF Hooked
  <2>2. ASSUME NEW j \in 1 .. Len(Waiting), Waiting[j].graph = a, Attaches(Waiting[j], c) PROVE FALSE
    <3>1. j \in DOMAIN Waiting
      BY <1>1
    <3>2. Fits(Waiting[j])
      BY <3>1, HooksParts DEF Task
    <3>3. QED
      BY <1>5, <2>2, <3>2 DEF Fits, Attaches
  <2>3. c \notin Effects(host[a], a, Waiting)[i].hooks
    BY <1>1, <2>1, <2>2, EffectsHooks
  <2>4. QED
    BY <1>5, <2>3
<1>6. QED
  BY <1>3, <1>5

LEMMA SilentStill ==
  ASSUME NEW x, NEW a, \A c \in x.hooks : c \in Callbacks /\ ctx[c] # None /\ ctx[c].owner = a,
         (SilentWith(x) /\ Quieter(a)) \/ Hushed(a)
  PROVE  SilentWith(x)'
BY DEF SilentWith, Quieter, Hushed, Quieted

LEMMA PathSlides ==
  ASSUME NEW g, NEW a, NEW k, Slides(k), \A i \in Added(k) : Waiting'[i].graph # a,
         k = 1 => Added(k) = {}, NEW h, h = IF k = 1 THEN Step(g, a, Waiting[1]) ELSE g,
         NEW i \in 0 .. Len(Waiting')
  PROVE  \E j \in 0 .. Len(Waiting) : Effects(h, a, Waiting')[i] = Effects(g, a, Waiting)[j]
<1>1. /\ k \in {0, 1} /\ k <= Len(Waiting) /\ Waiting \in Seq(Ops) /\ Waiting' \in Seq(Ops)
      /\ Len(Waiting') >= Len(Waiting) - k /\ Len(Waiting) \in Nat /\ Len(Waiting') \in Nat
      /\ \A j \in 1 .. Len(Waiting) - k : Waiting'[j] = Waiting[j + k]
  BY DEF Slides
<1>2. CASE k = 0
  <2>1. /\ Len(Waiting) <= Len(Waiting') /\ \A j \in 1 .. Len(Waiting) : Waiting'[j] = Waiting[j]
        /\ \A j \in Len(Waiting) + 1 .. Len(Waiting') : Waiting'[j].graph # a
    BY <1>1, <1>2 DEF Added
  <2>2. \A j \in 0 .. Len(Waiting) : Effects(g, a, Waiting')[j] = Effects(g, a, Waiting)[j]
    BY <1>1, <2>1, EffectsPrefix
  <2>3. Len(Waiting) \in 0 .. Len(Waiting')
    BY <1>1, <2>1
  <2>4. \A j \in Len(Waiting) .. Len(Waiting') :
          Effects(g, a, Waiting')[j] = Effects(g, a, Waiting')[Len(Waiting)]
    BY <1>1, <2>1, <2>3, EffectsIdle
  <2>5. h = g
    BY <1>2
  <2>6. CASE i <= Len(Waiting)
    BY <1>1, <2>2, <2>5, <2>6
  <2>7. CASE ~ (i <= Len(Waiting))
    <3>1. i \in Len(Waiting) .. Len(Waiting') /\ Len(Waiting) \in 0 .. Len(Waiting)
      BY <1>1, <2>7
    <3>2. QED
      BY <2>2, <2>4, <2>5, <3>1
  <2>8. QED
    BY <2>6, <2>7
<1>3. CASE k = 1
  <2>1. Len(Waiting) = Len(Waiting') + 1
    <3>1. Len(Waiting) - 1 + 1 .. Len(Waiting') = {}
      BY <1>3 DEF Added
    <3>2. ~ (Len(Waiting') >= Len(Waiting))
      <4>1. SUFFICES ASSUME Len(Waiting') >= Len(Waiting) PROVE FALSE
        OBVIOUS
      <4>2. Len(Waiting') \in Len(Waiting) - 1 + 1 .. Len(Waiting')
        BY <1>1, <4>1
      <4>3. QED
        BY <3>1, <4>2
    <3>3. QED
      BY <1>1, <1>3, <3>2
  <2>2. \A j \in 1 .. Len(Waiting') : Waiting'[j] = Waiting[j + 1]
    BY <1>1, <1>3, <2>1
  <2>3. h = Step(g, a, Waiting[1])
    BY <1>3
  <2>4. \A j \in 0 .. Len(Waiting') : Effects(h, a, Waiting')[j] = Effects(g, a, Waiting)[j + 1]
    BY <1>1, <2>1, <2>2, <2>3, EffectsTail
  <2>5. i + 1 \in 0 .. Len(Waiting)
    BY <1>1, <2>1
  <2>6. QED
    BY <2>4, <2>5
<1>4. QED
  BY <1>1, <1>2, <1>3

LEMMA SilentIs ==
  ASSUME WorkOK, CallsOK, NEW t \in Threads, SilentAt(t), Sound(t), ~ want[t].running,
         pc[t] # "inline", NEW a, a = graphOf[t]
  PROVE  \A i \in 0 .. Len(Waiting) : SilentWith(Effects(host[a], a, Waiting)[i])
<1>1. /\ Waiting \in Seq(Ops) /\ Pending(t) \in Seq(Ops) /\ Len(Waiting) <= Len(Pending(t))
      /\ \A i \in 1 .. Len(Waiting) : Pending(t)[i] = Waiting[i]
  BY WaitingTyped, PendingTyped
<1>2. \A i \in 0 .. Len(Waiting) : Effects(host[a], a, Pending(t))[i] = Effects(host[a], a, Waiting)[i]
  BY <1>1, EffectsPrefix
<1>3. \A i \in 0 .. Len(Waiting) : i \in 0 .. Len(Pending(t))
  BY <1>1
<1>4. Becomes(t) = Effects(host[a], a, Pending(t))
  BY DEF Becomes
<1>5. ASSUME NEW i \in 0 .. Len(Waiting) PROVE SilentWith(Effects(host[a], a, Waiting)[i])
  <2>1. SilentWith(Becomes(t)[i])
    BY <1>3 DEF SilentAt
  <2>2. QED
    BY <1>2, <1>4, <2>1
<1>6. QED
  BY <1>5

LEMMA PendingNext ==
  ASSUME WorkOK', CallsOK', NEW t \in Threads
  PROVE  /\ Waiting' \in Seq(Ops) /\ Pending(t)' \in Seq(Ops)
         /\ Len(Pending(t)') \in {Len(Waiting'), Len(Waiting') + 1}
         /\ \A i \in 1 .. Len(Waiting') : Pending(t)'[i] = Waiting'[i]
<1>1. Waiting' \in Seq(Ops)
  <2>1. queue' \in Seq(Ops)
    BY DEF WorkOK
  <2>2. inProgress'.place = "perform" => inProgress'.op \in Ops
    BY DEF WorkOK
  <2>3. QED
    BY <2>1, <2>2 DEF Waiting
<1>2. CASE Asked(t)'
  <2>1. call'[t] \in Ops
    BY <1>2 DEF CallsOK, Asked
  <2>2. Pending(t)' = Waiting' \o <<call'[t]>>
    BY <1>2 DEF Pending, Asked
  <2>3. QED
    BY <1>1, <2>1, <2>2
<1>3. CASE ~ Asked(t)'
  <2>1. Pending(t)' = Waiting' \o <<>>
    BY <1>3 DEF Pending, Asked
  <2>2. QED
    BY <1>1, <2>1
<1>4. QED
  BY <1>2, <1>3

LEMMA PrefixAgrees ==
  ASSUME NEW w \in Seq(Ops), NEW p \in Seq(Ops), Len(p) \in {Len(w), Len(w) + 1},
         \A i \in 1 .. Len(w) : p[i] = w[i], NEW g, NEW a
  PROVE  \A i \in 0 .. Len(w) : Effects(g, a, p)[i] = Effects(g, a, w)[i]
<1>1. Len(w) <= Len(p)
  OBVIOUS
<1>2. QED
  BY <1>1, EffectsPrefix

\* The last graph on the way is the one that is wanted, which does not run.
LEMMA SilentNext ==
  ASSUME TypeOK', OwnedOnce', InOrder', NEW t \in Threads, NEW a, a = graphOf'[t],
         Sound(t)' /\ ~ want'[t].running /\ pc'[t] # "inline" =>
           \A i \in 0 .. Len(Waiting') : \A x :
             i # Len(Pending(t)') /\ x = Effects(host'[a], a, Waiting')[i] => SilentWith(x)'
  PROVE  SilentAt(t)'
<1>1. WorkOK' /\ CallsOK' /\ HandlesOK' /\ HostOK'
  BY DEF TypeOK, HostOK
<1>2. SUFFICES ASSUME Sound(t)', ~ want'[t].running, pc'[t] # "inline" PROVE SilentAt(t)'
  BY DEF SilentAt
<1>3. PICK p : p = Pending(t)'
  OBVIOUS
<1>4. PICK w : w = Waiting'
  OBVIOUS
<1>5. /\ w \in Seq(Ops) /\ p \in Seq(Ops) /\ Len(p) \in {Len(w), Len(w) + 1}
      /\ \A i \in 1 .. Len(w) : p[i] = w[i]
  BY <1>1, <1>3, <1>4, PendingNext
<1>6. Becomes(t)' = Effects(host'[a], a, p)
  BY <1>3 DEF Becomes
<1>7. \A i \in 0 .. Len(w) : Effects(host'[a], a, p)[i] = Effects(host'[a], a, w)[i]
  <2>1. \A g : \A i \in 0 .. Len(w) : Effects(g, a, p)[i] = Effects(g, a, w)[i]
    BY ONLY <1>5, PrefixAgrees, SMTT(30)
  <2>2. QED
    BY ONLY <2>1
<1>8. ASSUME NEW i \in 0 .. Len(p), NEW x, x = Effects(host'[a], a, p)[i] PROVE SilentWith(x)'
  <2>1. CASE i # Len(p)
    <3>1. i \in 0 .. Len(w)
      BY <1>5, <2>1
    <3>2. QED
      BY <1>2, <1>3, <1>4, <1>7, <1>8, <2>1, <3>1
  <2>2. CASE i = Len(p)
    <3>1. i = Len(p)
      BY <2>2
    <3>2. OrderAt(t)'
      BY OrderParts
    <3>3. PICK v : v = want'[t]
      OBVIOUS
    <3>4. Becomes(t)'[Len(Pending(t)')] = x
      BY <1>3, <1>6, <1>8, <3>1
    <3>5. Agree(x, v)
      <4>1. PICK e : e = Becomes(t)'[Len(Pending(t)')]
        OBVIOUS
      <4>2. Agree(e, v)
        BY <1>2, <3>2, <3>3, <4>1 DEF OrderAt
      <4>3. QED
        BY <3>4, <4>1, <4>2
    <3>6. v \in HostGraphs /\ a \in Addresses /\ host'[a] \in HostGraphs \cup {None}
      BY <1>1, <1>2, <3>3 DEF HandlesOK, Sound, HostOK
    <3>7. ~ x.running
      <4>1. CASE host'[a] \in HostGraphs
        <5>1. x \in HostGraphs
          BY <1>5, <1>8, <4>1, EffectsTyped
        <5>2. QED
          BY <1>2, <3>3, <3>5, <3>6, <5>1, AgreeIs
      <4>2. host'[a] # None
        BY <3>6 DEF OwnedOnce, Held, Holds
      <4>3. QED
        BY <3>6, <4>1, <4>2
    <3>8. QED
      BY <3>7 DEF SilentWith
  <2>3. QED
    BY <2>1, <2>2
<1>9. ASSUME NEW i \in 0 .. Len(Pending(t)') PROVE SilentWith(Becomes(t)[i])'
  <2>1. PICK x : x = Effects(host'[a], a, p)[i]
    OBVIOUS
  <2>2. SilentWith(x)' /\ Becomes(t)'[i] = x
    BY <1>3, <1>6, <1>8, <1>9, <2>1
  <2>3. QED
    BY <2>2 DEF SilentWith
<1>10. QED
  BY <1>9 DEF SilentAt

LEMMA SilentStays ==
  ASSUME TypeOK, TypeOK', OwnedOnce, OwnedOnce', HooksOwned, InOrder', NEW t \in Threads, SilentAt(t),
         pc[t] # "inline", NEW a, a = graphOf[t], graphOf'[t] = a, quarantined \subseteq quarantined',
         NEW k, Slides(k), k = 1 => Added(k) = {},
         a \notin {None} \cup quarantined' => \A i \in Added(k) : Waiting'[i].graph # a,
         a \notin {None} \cup quarantined' =>
            host'[a] = IF k = 1 THEN Step(host[a], a, Waiting[1]) ELSE host[a],
         ((~ want'[t].running => ~ want[t].running) /\ Quieter(a)) \/ Hushed(a)
  PROVE  SilentAt(t)'
<1>1. SUFFICES ASSUME Sound(t)', ~ want'[t].running, pc'[t] # "inline" PROVE SilentAt(t)'
  BY DEF SilentAt
<1>2. a \notin {None} \cup quarantined' /\ Sound(t)
  BY <1>1 DEF Sound
<1>3. WorkOK /\ CallsOK /\ a \in Addresses /\ host[a] \in HostGraphs
  BY <1>2, TypeParts, HandleMade
<1>4. ASSUME NEW i \in 0 .. Len(Waiting'), NEW x, x = Effects(host'[a], a, Waiting')[i]
      PROVE  SilentWith(x)'
  <2>1. PICK h : h = IF k = 1 THEN Step(host[a], a, Waiting[1]) ELSE host[a]
    OBVIOUS
  <2>2. host'[a] = h
    BY <1>2, <2>1
  <2>3. PICK j \in 0 .. Len(Waiting) : Effects(h, a, Waiting')[i] = Effects(host[a], a, Waiting)[j]
    BY <1>2, <2>1, PathSlides
  <2>4. x = Effects(host[a], a, Waiting)[j]
    BY <1>4, <2>2, <2>3
  <2>5. \A c \in x.hooks : c \in Callbacks /\ ctx[c] # None /\ ctx[c].owner = a
    BY <1>3, <2>4, PathHooks
  <2>6. CASE Hushed(a)
    BY <2>5, <2>6, SilentStill
  <2>7. CASE (~ want'[t].running => ~ want[t].running) /\ Quieter(a)
    <3>1. SilentWith(x)
      BY <1>1, <1>2, <1>3, <2>4, <2>7, SilentIs
    <3>2. QED
      BY <2>5, <2>7, <3>1, SilentStill
  <2>8. QED
    BY <2>6, <2>7
<1>5. QED
  BY <1>4, SilentNext

\* Nothing is pending for the graph: it is what is wanted.
LEMMA SilentAlone ==
  ASSUME TypeOK', OwnedOnce', InOrder', NEW t \in Threads, NEW a, a = graphOf'[t],
         \A i \in 1 .. Len(Waiting') : Waiting'[i].graph # a,
         Asked(t)' => pc'[t] = "inline" \/ call'[t].graph # a
  PROVE  SilentAt(t)'
<1>1. SUFFICES ASSUME Sound(t)', ~ want'[t].running, pc'[t] # "inline" PROVE SilentAt(t)'
  BY DEF SilentAt
<1>2. WorkOK' /\ CallsOK' /\ HandlesOK' /\ HostOK'
  BY DEF TypeOK, HostOK
<1>3. a \in Addresses /\ host'[a] \in HostGraphs /\ want'[t] \in HostGraphs
  BY <1>1, <1>2 DEF HandlesOK, Sound, HostOK, OwnedOnce, Held, Holds
<1>4. PICK ops : ops = Waiting'
  OBVIOUS
<1>5. ops \in Seq(Ops) /\ Len(ops) \in Nat
  BY <1>2, <1>4, PendingNext
<1>6. PICK g : g = host'[a]
  OBVIOUS
<1>7. \A i \in 0 .. Len(ops) : Effects(g, a, ops)[i] = g
  <2>1. 0 \in 0 .. Len(ops) /\ \A i \in 0 + 1 .. Len(ops) : ops[i].graph # a
    BY <1>4, <1>5
  <2>2. Effects(g, a, ops)[0] = g
    BY <1>5, EffectsIs
  <2>3. QED
    BY <1>5, <2>1, <2>2, EffectsIdle
<1>8. g = Final(host'[a], a, Waiting')
  BY <1>4, <1>5, <1>6, <1>7 DEF Final
<1>9. PICK o : o = call'[t]
  OBVIOUS
<1>10. Agree(g, want'[t])
  <2>1. Agree(IF Asked(t)' THEN Step(g, a, o) ELSE g, want'[t])
    BY <1>1, <1>2, <1>8, <1>9, OrderNextIs, OrderParts
  <2>2. Asked(t)' => Step(g, a, o) = g
    BY <1>1, <1>9 DEF Step
  <2>3. QED
    BY <2>1, <2>2
<1>11. ~ g.running
  BY <1>1, <1>3, <1>6, <1>10, AgreeIs
<1>12. SilentWith(g)'
  BY <1>11 DEF SilentWith
<1>13. \A i \in 0 .. Len(Waiting') : \A x : x = Effects(host'[a], a, Waiting')[i] => SilentWith(x)'
  BY <1>4, <1>6, <1>7, <1>12
<1>14. QED
  BY <1>13, SilentNext

LEMMA WorkerlessSilent ==
  ASSUME TypeOK', ModeKept', OwnedOnce', InOrder', ~ Deferred'
  PROVE  Silent'
<1>1. /\ queue' = <<>> /\ inProgress' = Idle
      /\ \A t \in Threads : pc'[t] \notin {"enqueue", "swap"}
  BY DEF ModeKept
<1>2. Waiting' = <<>> \o <<>>
  BY <1>1 DEF Idle, Waiting
<1>3. \A i \in 1 .. Len(Waiting') : FALSE
  BY <1>2
<1>4. ASSUME NEW t \in Threads PROVE SilentAt(t)'
  <2>1. PICK a : a = graphOf'[t]
    OBVIOUS
  <2>2. Asked(t)' => pc'[t] = "inline"
    BY <1>1 DEF Asked
  <2>3. QED
    BY <1>3, <2>1, <2>2, SilentAlone
<1>5. QED
  BY <1>4, SilentParts

LEMMA OthersSilent ==
  ASSUME TypeOK, TypeOK', OwnedOnce, OwnedOnce', OpsOwned, HooksOwned, InOrder',
         NEW t \in Threads, Guest(t), ~ Enqueues(t),
         ~ PerformsInline(t), ~ Synchronizes(t), ~ Answers(t), Slides(0), NEW u \in Threads \ {t},
         SilentAt(u), pc[u] # "inline", NEW a, a = graphOf[u],
         quarantined \subseteq quarantined', a # None => host'[a] = host[a],
         a # None => \A i \in Added(0) : Waiting'[i].graph # a, Quieter(a)
  PROVE  SilentAt(u)'
<1>1. graphOf'[u] = a /\ want'[u] = want[u]
  BY GuestOthers
<1>2. PICK k : k = 0
  OBVIOUS
<1>3. QED
  BY <1>1, <1>2, SilentStays

LEMMA DoesQuieter ==
  ASSUME TypeOK, NEW o \in Ops, o.graph \in Addresses, host[o.graph] \in HostGraphs, Does(o),
         NEW a
  PROVE  Quieter(a)
<1>0. HostOK /\ CtxOK
  BY TypeParts
<1>1. CASE Carries(o)
  BY <1>1 DEF Carries, Quieter
<1>2. CASE Frees(o)
  BY <1>0, <1>2, FreesMoves DEF Quieter, Quieted
<1>3. CASE Abandons(o)
  BY <1>0, <1>3, ReleasedIs DEF Abandons, Quieter, Quieted
<1>4. CASE Refuses(o)
  BY <1>0, <1>4 DEF Refuses, Quieter, Quieted, CtxOK
<1>5. QED
  BY <1>1, <1>2, <1>3, <1>4 DEF Does

LEMMA QuietSilent ==
  ASSUME TypeOK, TypeOK', OwnedOnce, OwnedOnce', HooksOwned, InOrder', Silent, Quiet,
         \A t \in Threads : pc[t] # "inline"
  PROVE  Silent'
<1>1. PICK k \in {0, 1} : Takes(k)
  BY DEF Quiet
<1>2. Slides(k) /\ Added(k) = {} /\ (k = 1 => Waiting[1].graph = None)
  BY <1>1 DEF Takes
<1>3. ASSUME NEW t \in Threads PROVE SilentAt(t)'
  <2>1. PICK a : a = graphOf[t]
    OBVIOUS
  <2>2. SilentAt(t) /\ UNCHANGED <<graphOf, want, host, ctx, quarantined>>
    BY SilentParts DEF Quiet
  <2>3. a \notin {None} \cup quarantined' =>
          host'[a] = IF k = 1 THEN Step(host[a], a, Waiting[1]) ELSE host[a]
    BY <1>2, <2>2 DEF Step
  <2>4. Quieter(a)
    BY <2>2 DEF Quieter
  <2>5. QED
    BY <1>2, <2>1, <2>2, <2>3, <2>4, SilentStays
<1>4. QED
  BY <1>3, SilentParts

LEMMA RefillSilent ==
  ASSUME TypeOK, TypeOK', OwnedOnce, OwnedOnce', OpsOwned, HooksOwned, InOrder', Silent,
         RefillBuilds \/ RefillStores, \A t \in Threads : pc[t] # "inline"
  PROVE  Silent'
<1>1. UNCHANGED <<queue, graphOf, want, quarantined, pc, call, ctx>>
  BY DEF RefillBuilds, RefillStores, guest, history
<1>2. inProgress.place # "perform" /\ inProgress'.place # "perform"
  BY RefillBuildsMoves, RefillStoresMoves DEF RefillBuilds, RefillStores
<1>3. Slides(0) /\ Added(0) = {}
  BY <1>1, <1>2, WaitingKept, SlidesSame
<1>4. ASSUME NEW t \in Threads PROVE SilentAt(t)'
  <2>1. PICK a : a = graphOf[t]
    OBVIOUS
  <2>2. ASSUME a # None PROVE host'[a] = host[a]
    <3>1. a \in Addresses /\ host[a] # None /\ Holds(t, a)
      BY <2>1, <2>2, HandleMade, NoneAssumption DEF Holds
    <3>2. inProgress.graph # a
      BY <3>1 DEF OwnedOnce, HeldOnce
    <3>3. CASE RefillBuilds
      BY <3>1, <3>3, RefillBuildsMoves
    <3>4. CASE RefillStores
      BY <3>1, <3>2, <3>4, RefillStoresMoves
    <3>5. QED
      BY <3>3, <3>4
  <2>3. SilentAt(t) /\ Quieter(a)
    BY <1>1, SilentParts DEF Quieter
  <2>4. QED
    BY <1>1, <1>3, <2>1, <2>2, <2>3, SilentStays
<1>5. QED
  BY <1>4, SilentParts

LEMMA RefusedSilent ==
  ASSUME TypeOK, TypeOK', OwnedOnce, OwnedOnce', OpsOwned, HooksOwned, InOrder', PerformsOp,
         NEW t \in Threads, SilentAt(t), pc[t] # "inline",
         NEW a, a = graphOf[t], NEW o, o = inProgress.op, o.graph = a, Refuses(o)
  PROVE  SilentAt(t)'
<1>1. /\ o \in Ops /\ a \in Addresses /\ host[a] \in HostGraphs /\ o = Waiting[1] /\ 1 \in DOMAIN Waiting
      /\ Slides(1) /\ Added(1) = {} /\ UNCHANGED <<graphOf, pc, call>>
  BY PerformsOpMoves
<1>2. o.kind = "notify" /\ UNCHANGED <<host, quarantined>> /\ want[t] \in HostGraphs
      /\ want'[t] = Without(want[t], o.arg) /\ o.arg \in Callbacks
  <2>1. graphOf[t] # None
    BY <1>1, NoneAssumption
  <2>2. QED
    BY <1>1, <2>1, RefusesMoves, TypeParts, HandleMade DEF Refuses
<1>3. SUFFICES ASSUME Sound(t)', ~ want'[t].running PROVE SilentAt(t)'
  BY DEF SilentAt
<1>4. Sound(t) /\ ~ want[t].running
  BY <1>1, <1>2, <1>3, WithoutIs DEF Sound
<1>5. PICK c, g, x : c = o.arg /\ g = host[a] /\ x = After(g, o)
  OBVIOUS
<1>6. c \notin g.hooks /\ AttachedOnce(c) /\ Attaches(Waiting[1], c)
  BY <1>1, <1>2, <1>5, HooksParts DEF Task, Fits, Attaches
<1>7. x \in HostGraphs /\ Without(x, c) = g /\ g \in HostGraphs
  BY <1>1, <1>2, <1>5, <1>6, NotifyWithout
<1>8. /\ Waiting \in Seq(Ops) /\ Waiting' \in Seq(Ops) /\ Len(Waiting) \in Nat /\ Len(Waiting') \in Nat
  BY <1>1 DEF Slides
<1>9. ASSUME NEW i \in 1 .. Len(Waiting') PROVE ~ Attaches(Waiting'[i], c)
  <2>1. i \in 1 .. Len(Waiting) - 1
    BY <1>1, <1>8 DEF Added
  <2>2. i + 1 \in DOMAIN Waiting /\ Waiting'[i] = Waiting[i + 1] /\ i + 1 # 1
    BY <1>1, <1>8, <2>1 DEF Slides
  <2>3. QED
    BY <1>1, <1>6, <2>2 DEF AttachedOnce
<1>10. ctx' = [ctx EXCEPT ![c] = None] /\ CtxOK
  BY <1>5, TypeParts DEF Refuses
<1>11. ASSUME NEW i \in 0 .. Len(Waiting'), NEW y, y = Effects(host'[a], a, Waiting')[i]
       PROVE  SilentWith(y)'
  <2>1. PICK z : z = Effects(x, a, Waiting')[i]
    OBVIOUS
  <2>2. z \in HostGraphs
    BY <1>7, <1>8, <2>1, EffectsTyped
  <2>3. y = Without(z, c)
    <3>1. host'[a] = Without(x, c)
      BY <1>2, <1>5, <1>7
    <3>2. y = Effects(Without(x, c), a, Waiting')[i]
      BY <1>11, <3>1
    <3>3. Effects(Without(x, c), a, Waiting')[i] = Without(Effects(x, a, Waiting')[i], c)
      BY <1>7, <1>8, <1>9, EffectsWithout
    <3>4. QED
      BY <2>1, <3>2, <3>3
  <2>4. PICK j \in 0 .. Len(Waiting) : z = Effects(g, a, Waiting)[j]
    <3>1. x = Step(g, a, Waiting[1])
      BY <1>1, <1>5 DEF Step
    <3>2. \E j \in 0 .. Len(Waiting) : Effects(x, a, Waiting')[i] = Effects(g, a, Waiting)[j]
      <4>1. PICK k : k = 1
        OBVIOUS
      <4>2. x = IF k = 1 THEN Step(g, a, Waiting[1]) ELSE g
        BY <3>1, <4>1
      <4>3. Slides(k) /\ Added(k) = {}
        BY <1>1, <4>1
      <4>4. QED
        BY <4>2, <4>3, PathSlides
    <3>3. QED
      BY <2>1, <3>2
  <2>5. SilentWith(z)
    <3>1. WorkOK /\ CallsOK
      BY TypeParts
    <3>2. QED
      BY <1>4, <1>5, <2>4, <3>1, SilentIs
  <2>6. y.running = z.running /\ y.hooks = z.hooks \ {c} /\ z.hooks \subseteq Callbacks
    BY <2>2, <2>3, WithoutIs DEF HostGraphs
  <2>7. QED
    BY <1>10, <2>5, <2>6 DEF SilentWith, CtxOK
<1>12. a = graphOf'[t]
  BY <1>1
<1>13. QED
  BY <1>11, <1>12, SilentNext

LEMMA PerformsOpSilent ==
  ASSUME TypeOK, TypeOK', OwnedOnce, OwnedOnce', OpsOwned, HooksOwned, InOrder', Silent, PerformsOp,
         \A t \in Threads : pc[t] # "inline"
  PROVE  Silent'
<1>1. PICK o : o = inProgress.op
  OBVIOUS
<1>2. /\ o \in Ops /\ o.graph \in Addresses /\ host[o.graph] \in HostGraphs /\ Does(o)
      /\ o = Waiting[1] /\ 1 \in DOMAIN Waiting /\ Slides(1) /\ Added(1) = {}
      /\ UNCHANGED <<graphOf, pc, call>>
  BY <1>1, PerformsOpMoves
<1>3. HostOK
  BY TypeParts
<1>4. /\ quarantined \subseteq quarantined'
      /\ \A b \in Addresses \ {o.graph} : host'[b] = host[b]
  BY <1>2, DoesHost
<1>5. ASSUME NEW t \in Threads PROVE SilentAt(t)'
  <2>1. PICK a : a = graphOf[t]
    OBVIOUS
  <2>2. SilentAt(t) /\ a \in Addresses \cup {None} /\ Quieter(a)
    BY <1>2, <2>1, SilentParts, DoesQuieter, TypeParts DEF HandlesOK
  <2>3. CASE Refuses(o) /\ a = o.graph
    BY <1>1, <2>1, <2>2, <2>3, RefusedSilent
  <2>4. CASE ~ (Refuses(o) /\ a = o.graph)
    <3>1. want'[t] = want[t]
      <4>1. CASE Refuses(o)
        BY <1>2, <2>1, <2>4, <4>1, RefusesMoves, TypeParts
      <4>2. CASE ~ Refuses(o)
        BY <1>2, <4>2 DEF Does, Carries, Frees, Abandons
      <4>3. QED
        BY <4>1, <4>2
    <3>2. ASSUME a \notin {None} \cup quarantined' PROVE host'[a] = Step(host[a], a, Waiting[1])
      <4>1. CASE a # o.graph
        BY <1>2, <1>4, <2>2, <3>2, <4>1 DEF Step
      <4>2. CASE a = o.graph
        <5>1. o.kind # "dispose"
          BY <1>2, <2>1, <4>2, DisposalApart
        <5>2. Carries(o)
          BY <1>2, <2>4, <3>2, <4>2, <5>1 DEF Does, Frees, Abandons
        <5>3. host'[a] = After(host[a], o)
          BY <1>2, <1>3, <4>2, <5>2, CarriesMoves
        <5>4. QED
          BY <1>2, <4>2, <5>3 DEF Step
      <4>3. QED
        BY <4>1, <4>2
    <3>3. QED
      BY <1>2, <1>4, <2>1, <2>2, <3>1, <3>2, SilentStays
  <2>5. QED
    BY <2>3, <2>4
<1>6. QED
  BY <1>5, SilentParts

\* The thread whose step it is, and the others.
LEMMA SilentFrom ==
  ASSUME TypeOK, TypeOK', OwnedOnce, OwnedOnce', OpsOwned, HooksOwned, InOrder', Silent,
         \A t \in Threads : pc[t] # "inline",
         NEW t \in Threads, Guest(t), pc[t] # "enqueue", SilentAt(t)',
         Slides(0), quarantined \subseteq quarantined', NEW b \in Addresses,
         \A a \in Addresses \ {b} : host[a] # None => host'[a] = host[a] /\ Quieter(a),
         \A u \in Threads \ {t} : graphOf[u] # b,
         \A i \in Added(0), u \in Threads : graphOf[u] # None => Waiting'[i].graph # graphOf[u]
  PROVE  Silent'
<1>0. CASE Synchronizes(t) \/ Answers(t)
  <2>1. graphOf[t] # None
    BY <1>0, DrainedHas DEF Synchronizes, Answers, Has
  <2>2. QED
    BY <1>0, <2>1, GuestQuiet, QuietSilent
<1>1. ~ PerformsInline(t) /\ ~ Enqueues(t)
  BY DEF PerformsInline, Enqueues
<1>2. ASSUME ~ (Synchronizes(t) \/ Answers(t)), NEW u \in Threads \ {t} PROVE SilentAt(u)'
  <2>1. PICK a : a = graphOf[u]
    OBVIOUS
  <2>2. SilentAt(u)
    BY SilentParts
  <2>3. CASE a = None
    <3>1. graphOf'[u] = None
      BY <1>1, <1>2, <2>1, <2>3, GuestOthers
    <3>2. QED
      BY <3>1 DEF SilentAt, Sound
  <2>4. CASE a # None
    <3>1. a \in Addresses \ {b} /\ host[a] # None
      BY <2>1, <2>4, HandleMade, NoneAssumption
    <3>2. QED
      BY <1>1, <1>2, <2>1, <2>2, <2>4, <3>1, OthersSilent
  <2>5. QED
    BY <2>3, <2>4
<1>3. QED
  BY <1>0, <1>2, SilentParts

LEMMA AltersSilent ==
  ASSUME TypeOK, TypeOK', OwnedOnce, OwnedOnce', OpsOwned, HooksOwned, InOrder', Silent,
         \A t \in Threads : pc[t] # "inline",
         NEW t \in Threads, Guest(t), Alters(t), Slides(0),
         \A i \in Added(0), u \in Threads : graphOf[u] # None => Waiting'[i].graph # graphOf[u]
  PROVE  Silent'
<1>1. PICK a : a = graphOf[t]
  OBVIOUS
<1>2. /\ pc[t] = "drain" /\ pc'[t] = "run" /\ a \in Addresses
      /\ \A i \in 1 .. Len(Waiting) : Waiting[i].graph # a
      /\ \A b \in Addresses \ {a} : host'[b] = host[b]
      /\ UNCHANGED <<graphOf, quarantined>>
  BY <1>1, AltersHost DEF Alters
<1>3. \A i \in 1 .. Len(Waiting') : Waiting'[i].graph # a
  <2>1. /\ Len(Waiting) \in Nat /\ Len(Waiting') \in Nat
        /\ \A i \in 1 .. Len(Waiting) - 0 : Waiting'[i] = Waiting[i + 0]
    BY DEF Slides
  <2>2. ASSUME NEW i \in 1 .. Len(Waiting') PROVE Waiting'[i].graph # a
    <3>1. CASE i <= Len(Waiting)
      <4>1. i \in 1 .. Len(Waiting) - 0 /\ i \in 1 .. Len(Waiting) /\ i + 0 = i
        BY <2>1, <3>1
      <4>2. QED
        BY <1>2, <2>1, <4>1
    <3>2. CASE ~ (i <= Len(Waiting))
      <4>1. i \in Added(0)
        BY <2>1, <3>2 DEF Added
      <4>2. QED
        BY <1>1, <1>2, <4>1, NoneAssumption
    <3>3. QED
      BY <3>1, <3>2
  <2>3. QED
    BY <2>2
<1>4. a = graphOf'[t] /\ ~ Asked(t)'
  BY <1>1, <1>2 DEF Asked
<1>5. SilentAt(t)'
  BY <1>3, <1>4, SilentAlone
<1>6. \A b \in Addresses \ {a} : Quieter(b)
  <2>1. CASE UNCHANGED ctx
    BY <2>1 DEF Quieter
  <2>2. CASE \E o : Gives(t, o.arg)
    BY <1>1, <1>2, <2>2, GivesMoves, TypeParts DEF Quieter
  <2>3. QED
    BY <2>1, <2>2 DEF Alters
<1>7. \A u \in Threads \ {t} : graphOf[u] # a
  BY <1>1, <1>2, HandlesDiffer
<1>8. QED
  BY <1>2, <1>5, <1>6, <1>7, SilentFrom

LEMMA BuildingSilent ==
  ASSUME TypeOK, TypeOK', OwnedOnce, OwnedOnce', OpsOwned, HooksOwned, InOrder', Silent,
         \A t \in Threads : pc[t] # "inline",
         NEW t \in Threads, Builds(t) \/ Disconnects(t) \/ SetsInput(t) \/ OpensUnpooled(t)
  PROVE  Silent'
<1>1. Guest(t)
  BY DEF Guest
<1>2. QED
  BY <1>1, BuildingWaits, AltersMoves, AltersSilent

LEMMA MissesPoolSilent ==
  ASSUME TypeOK, TypeOK', OwnedOnce, OwnedOnce', OpsOwned, HooksOwned, InOrder', Silent,
         \A t \in Threads : pc[t] # "inline", NEW t \in Threads, MissesPool(t)
  PROVE  Silent'
<1>1. Guest(t)
  BY DEF Guest
<1>2. QED
  BY <1>1, MissesOthers, AltersMoves, AltersSilent

LEMMA TakesPooledSilent ==
  ASSUME TypeOK, TypeOK', OwnedOnce, OwnedOnce', OpsOwned, HooksOwned, InOrder', Silent,
         \A t \in Threads : pc[t] # "inline", NEW t \in Threads, TakesPooled(t)
  PROVE  Silent'
<1>1. /\ Drained(t) /\ Waiting' \in Seq(Ops) /\ Len(Waiting') >= Len(Waiting)
      /\ \A i \in 1 .. Len(Waiting) : Waiting'[i] = Waiting[i]
      /\ \A i \in Len(Waiting) + 1 .. Len(Waiting') : Waiting'[i].kind = "refill"
  BY TakesPooledMoves
<1>2. UNCHANGED <<graphOf, want, host, ctx, quarantined>>
  BY DEF TakesPooled, history
<1>3. Slides(0) /\ \A i \in Added(0) : Waiting'[i].kind = "refill"
  BY <1>1, SlidesOn
<1>4. \A i \in Added(0) : Waiting'[i].graph = None
  <2>1. ASSUME NEW i \in Added(0) PROVE Waiting'[i] \in Ops
    BY <1>1, <1>3, SlidesOn DEF Added, Slides
  <2>2. QED
    BY <1>3, <2>1 DEF Ops
<1>5. ASSUME NEW u \in Threads PROVE SilentAt(u)'
  <2>1. PICK a, k : a = graphOf[u] /\ k = 0
    OBVIOUS
  <2>2. SilentAt(u) /\ Quieter(a)
    BY <1>2, SilentParts DEF Quieter
  <2>3. QED
    BY <1>2, <1>3, <1>4, <2>1, <2>2, SilentStays
<1>6. QED
  BY <1>5, SilentParts

LEMMA NewAUGraphSilent ==
  ASSUME TypeOK, TypeOK', OwnedOnce, OwnedOnce', OpsOwned, HooksOwned, InOrder', Silent,
         \A t \in Threads : pc[t] # "inline", NEW t \in Threads, NewAUGraph(t)
  PROVE  Silent'
<1>1. PICK b : b = graphOf'[t]
  OBVIOUS
<1>2. /\ pc[t] = "run" /\ b \in Addresses /\ host[b] = None
      /\ \A a \in Addresses \ {b} : host'[a] = host[a]
  BY <1>1, NewAUGraphMoves
<1>3. UNCHANGED <<queue, inProgress, pc, call, quarantined, ctx>>
  BY DEF NewAUGraph, work
<1>4. Waiting' = Waiting /\ Slides(0) /\ Added(0) = {}
  BY <1>3, WaitingKept, SlidesSame
<1>5. Waiting \in Seq(Ops)
  BY TypeParts, WaitingTyped
<1>6. \A i \in 1 .. Len(Waiting') : Waiting'[i].graph # b
  BY <1>2, <1>4, <1>5, WaitingMade, OpGraph, NoneAssumption
<1>7. ~ Asked(t)'
  BY <1>2, <1>3 DEF Asked
<1>8. SilentAt(t)'
  BY <1>1, <1>6, <1>7, SilentAlone
<1>9. (\A a : Quieter(a)) /\ \A u \in Threads \ {t} : graphOf[u] # b
  BY <1>2, <1>3, FreeApart DEF Quieter
<1>10. Guest(t)
  BY DEF Guest
<1>11. QED
  BY <1>2, <1>3, <1>4, <1>8, <1>9, <1>10, SilentFrom

LEMMA SwapsGraphSilent ==
  ASSUME TypeOK, TypeOK', OwnedOnce, OwnedOnce', OpsOwned, HooksOwned, InOrder', Silent,
         \A t \in Threads : pc[t] # "inline", NEW t \in Threads, SwapsGraph(t)
  PROVE  Silent'
<1>1. PICK b : b = graphOf'[t]
  OBVIOUS
<1>2. /\ pc[t] = "swap" /\ b = call[t].graph /\ b \in Addresses /\ graphOf[t] \in Addresses
      /\ call'[t] = Op("dispose", graphOf[t], None)
      /\ UNCHANGED <<host, ctx, queue, inProgress, quarantined>>
  BY <1>1, SwapsGraphMoves
<1>3. Waiting' = Waiting /\ Slides(0) /\ Added(0) = {}
  BY <1>2, WaitingKept, SlidesSame
<1>4. (\A u \in Threads : graphOf[u] # b) /\ \A i \in DOMAIN Waiting : Waiting[i].graph # b
  BY <1>2, ReservedApart DEF Reserved
<1>5. Waiting \in Seq(Ops)
  BY TypeParts, WaitingTyped
<1>6. \A i \in 1 .. Len(Waiting') : Waiting'[i].graph # b
  BY <1>3, <1>4, <1>5
<1>7. call'[t].graph # b
  BY <1>2, <1>4, OpIs
<1>8. SilentAt(t)'
  BY <1>1, <1>6, <1>7, SilentAlone
<1>9. Guest(t) /\ \A a : Quieter(a)
  BY <1>2 DEF Quieter, Guest
<1>10. QED
  BY <1>2, <1>3, <1>4, <1>8, <1>9, SilentFrom

LEMMA QueuesSilent ==
  ASSUME TypeOK, TypeOK', OwnedOnce, OwnedOnce', OpsOwned, HooksOwned, InOrder', Silent,
         \A t \in Threads : pc[t] # "inline", Deferred, NEW t \in Threads,
         Initialize(t) \/ Start(t) \/ Stop(t) \/ AddRenderNotify(t) \/ TearDown(t)
  PROVE  Silent'
<1>1. PICK a, k : a = graphOf[t] /\ k = 0
  OBVIOUS
<1>2. /\ UNCHANGED <<host, queue, inProgress, quarantined>> /\ pc[t] = "run" /\ a \in Addresses /\ a # None
      /\ Guest(t)
  <2>1. graphOf[t] \in Addresses /\ graphOf[t] # None
    BY InitializeMoves, StartMoves, StopMoves, AddRenderNotifyMoves, TearDownMoves, NoneAssumption
  <2>2. QED
    BY <1>1, <2>1 DEF Initialize, Start, Stop, AddRenderNotify, TearDown, Has, Begins, work, Guest
<1>3. Slides(0) /\ Added(0) = {}
  BY <1>2, WaitingKept, SlidesSame
<1>4. CtxOK /\ SilentAt(t)
  BY TypeParts, SilentParts
<1>5. \A b \in Addresses \ {a} : Quieter(b)
  <2>1. CASE Initialize(t)
    BY <2>1 DEF Initialize, Quieter
  <2>2. CASE Start(t)
    <3>1. ctx' = Muted(a, FALSE) /\ FALSE \in BOOLEAN
      BY <1>1, <2>2, StartMoves
    <3>2. QED
      BY ZenonT(60), <1>2, <1>4, <3>1, MutedIs DEF Quieter
  <2>3. CASE Stop(t) \/ TearDown(t)
    <3>1. StopMutes(a)
      BY <1>1, <2>3, StopMoves, TearDownMoves
    <3>2. QED
      BY <1>2, <1>4, <3>1, StopMutesMoves DEF Quieter
  <2>4. CASE AddRenderNotify(t)
    <3>1. PICK c : Gives(t, c)
      BY <2>4, AddRenderNotifyMoves
    <3>2. QED
      BY <1>1, <1>2, <1>4, <3>1, GivesMoves DEF Quieter
  <2>5. QED
    BY <2>1, <2>2, <2>3, <2>4
<1>6. SilentAt(t)'
  <2>1. CASE Drops(t)
    <3>1. graphOf'[t] = None
      BY <1>1, <1>2, <2>1, DropsMoves
    <3>2. QED
      BY <3>1 DEF SilentAt, Sound
  <2>2. CASE ~ Drops(t)
    <3>1. graphOf'[t] = a
      BY <1>1, <2>2, TearDownMoves DEF Initialize, Start, Stop, AddRenderNotify
    <3>2. CASE Initialize(t) \/ AddRenderNotify(t)
      <4>1. PICK o : Asks(t, o) /\ o.kind \in {"initialize", "notify"}
        BY <3>2, InitializeMoves, AddRenderNotifyMoves, OpIs
      <4>2. want'[t] = After(want[t], o) /\ want[t] \in HostGraphs
        BY <1>1, <1>2, <4>1, AsksMoves
      <4>3. want'[t].running = want[t].running
        <5>1. PICK x : x = want'[t]
          OBVIOUS
        <5>2. Follows(x, want[t], o)
          BY <4>2, <5>1, AfterIs
        <5>3. QED
          BY <4>1, <5>1, <5>2 DEF Follows
      <4>4. Quieter(a)
        <5>1. CASE Initialize(t)
          BY <5>1 DEF Initialize, Quieter
        <5>2. CASE AddRenderNotify(t)
          <6>1. PICK c : Gives(t, c)
            BY <5>2, AddRenderNotifyMoves
          <6>2. QED
            BY <1>1, <1>2, <1>4, <6>1, GivesMoves DEF Quieter
        <5>3. QED
          BY <3>2, <5>1, <5>2
      <4>5. QED
        BY <1>1, <1>2, <1>3, <1>4, <3>1, <4>3, <4>4, SilentStays
    <3>3. CASE Stop(t) \/ TearDown(t)
      <4>1. StopMutes(a)
        BY <1>1, <3>3, StopMoves, TearDownMoves
      <4>2. Hushed(a)
        BY <1>2, <1>4, <4>1, StopMutesMoves DEF Deferred, Hushed, Quieted
      <4>3. QED
        BY <1>1, <1>2, <1>3, <1>4, <3>1, <4>2, SilentStays
    <3>4. CASE Start(t)
      <4>1. PICK o : o = Op("start", graphOf[t], None)
        OBVIOUS
      <4>2. Asks(t, o) /\ want[t].init
        BY <3>4, <4>1, StartMoves
      <4>3. want'[t] = After(want[t], o) /\ want[t] \in HostGraphs /\ o.kind = "start"
        BY <1>1, <1>2, <4>1, <4>2, AsksMoves, OpIs
      <4>4. want'[t].running
        <5>1. PICK x : x = want'[t]
          OBVIOUS
        <5>2. Follows(x, want[t], o)
          BY <4>3, <5>1, AfterIs
        <5>3. QED
          BY <4>2, <4>3, <5>1, <5>2 DEF Follows
      <4>5. QED
        BY <4>4 DEF SilentAt
    <3>5. QED
      BY <3>2, <3>3, <3>4
  <2>3. QED
    BY <2>1, <2>2
<1>7. \A u \in Threads \ {t} : graphOf[u] # a
  BY <1>1, <1>2, HandlesDiffer
<1>8. QED
  BY <1>2, <1>3, <1>5, <1>6, <1>7, SilentFrom

LEMMA EnqueuesSilent ==
  ASSUME TypeOK, TypeOK', OwnedOnce, OwnedOnce', OpsOwned, HooksOwned, InOrder', Silent,
         \A t \in Threads : pc[t] # "inline", NEW t \in Threads, Enqueues(t)
  PROVE  Silent'
<1>1. PICK o, k : o = call[t] /\ k = 0
  OBVIOUS
<1>2. /\ pc[t] = "enqueue" /\ pc'[t] = "run" /\ o \in Ops /\ \A u \in Threads \ {t} : Still(u)
      /\ Waiting' \in Seq(Ops) /\ Len(Waiting') = Len(Waiting) + 1
      /\ \A i \in 1 .. Len(Waiting) : Waiting'[i] = Waiting[i]
      /\ Waiting'[Len(Waiting) + 1] = o
  BY <1>1, EnqueuesMoves DEF Still
<1>3. UNCHANGED <<host, graphOf, want, quarantined, ctx>>
  BY DEF Enqueues, history
<1>4. WorkOK /\ CallsOK
  BY TypeParts
<1>5. Waiting \in Seq(Ops)
  BY <1>4, WaitingTyped
<1>6. Slides(k) /\ Added(k) = {Len(Waiting) + 1}
  BY <1>1, <1>2, <1>5, SlidesOn
<1>7. ASSUME NEW u \in Threads \ {t} PROVE SilentAt(u)'
  <2>1. PICK a : a = graphOf[u]
    OBVIOUS
  <2>2. o.graph \in Addresses
    BY <1>1, <1>2, CallMade
  <2>3. o.graph # a
    <3>1. CASE o.kind = "dispose"
      BY <1>1, <1>2, <2>1, <2>2, <3>1, CallApart DEF Asked
    <3>2. CASE o.kind # "dispose"
      <4>1. o.graph = graphOf[t]
        BY <1>1, <1>2, <3>2, OpsOwnedParts DEF CallOwned
      <4>2. QED
        BY <2>1, <2>2, <4>1, HandlesDiffer
    <3>3. QED
      BY <3>1, <3>2
  <2>4. \A i \in Added(k) : Waiting'[i].graph # a
    BY <1>2, <1>6, <2>3
  <2>5. SilentAt(u) /\ Quieter(a)
    BY <1>3, SilentParts DEF Quieter
  <2>6. QED
    BY <1>1, <1>3, <1>6, <2>1, <2>4, <2>5, SilentStays
<1>8. SilentAt(t)'
  <2>1. PICK a : a = graphOf[t]
    OBVIOUS
  <2>2. PICK w : w = Waiting'
    OBVIOUS
  <2>3. Pending(t) = w
    <3>1. Pending(t) = Waiting \o <<o>>
      BY <1>1, <1>2 DEF Pending
    <3>2. w \in Seq(Ops) /\ Len(w) = Len(Waiting) + 1
          /\ (\A i \in 1 .. Len(Waiting) : w[i] = Waiting[i]) /\ w[Len(Waiting) + 1] = o
      BY <1>2, <2>2
    <3> HIDE DEF Waiting
    <3>3. QED
      BY <1>2, <1>5, <3>1, <3>2
  <2>4. Becomes(t) = Effects(host[a], a, w)
    BY <2>1, <2>3 DEF Becomes
  <2>5. SUFFICES ASSUME Sound(t)', ~ want'[t].running PROVE SilentAt(t)'
    BY DEF SilentAt
  <2>6. \A i \in 0 .. Len(w) : SilentWith(Effects(host[a], a, w)[i])
    <3>1. SilentAt(t) /\ Sound(t) /\ ~ want[t].running /\ pc[t] # "inline"
      BY <1>3, <2>5, SilentParts DEF Sound
    <3>2. QED
      BY <2>3, <2>4, <3>1 DEF SilentAt
  <2>7. ASSUME NEW i \in 0 .. Len(Waiting'), NEW x, x = Effects(host'[a], a, Waiting')[i] PROVE SilentWith(x)'
    <3>1. x = Effects(host[a], a, w)[i] /\ i \in 0 .. Len(w)
      BY <1>3, <2>2, <2>7
    <3>2. SilentWith(x)
      BY <2>6, <3>1
    <3>3. QED
      BY <1>3, <3>2 DEF SilentWith
  <2>8. a = graphOf'[t]
    BY <1>3, <2>1
  <2>9. QED
    BY <2>7, <2>8, SilentNext
<1>9. QED
  BY <1>7, <1>8, SilentParts

LEMMA SetParameterSilent ==
  ASSUME TypeOK, TypeOK', OwnedOnce, OwnedOnce', OpsOwned, HooksOwned, InOrder', Silent,
         \A t \in Threads : pc[t] # "inline", NEW t \in Threads, SetParameter(t)
  PROVE  Silent'
<1>1. PICK a, o, k : a = graphOf[t] /\ o = Op("parameter", graphOf[t], TRUE) /\ k = 0
  OBVIOUS
<1>2. /\ Has(t) /\ a \in Addresses /\ o \in Ops /\ host[a] \in HostGraphs
      /\ want'[t] = After(want[t], o) /\ want[t] \in HostGraphs
      /\ UNCHANGED <<graphOf, pc, call, inProgress, quarantined, ctx>>
      /\ \/ HasWork(a, TRUE) /\ UNCHANGED <<host, queue>>
         \/ /\ UNCHANGED host /\ Waiting' \in Seq(Ops) /\ Len(Waiting') = Len(Waiting) + 1
            /\ \A i \in 1 .. Len(Waiting) : Waiting'[i] = Waiting[i]
            /\ Waiting'[Len(Waiting) + 1] = o
         \/ /\ ~ HasWork(a, FALSE) /\ UNCHANGED queue
            /\ \A b \in Addresses \ {a} : host'[b] = host[b]
  BY <1>1, SetParameterMoves
<1>3. o.kind = "parameter" /\ o.graph = a
  BY <1>1 DEF Op
<1>4. WorkOK /\ CallsOK /\ WorkOK' /\ CallsOK'
  BY TypeParts DEF TypeOK
<1>5. Waiting \in Seq(Ops) /\ pc[t] = "run" /\ ~ Asked(t)' /\ a = graphOf'[t] /\ Guest(t)
  BY <1>1, <1>2, <1>4, WaitingTyped DEF Asked, Has, Begins, Guest
<1>6. (\A b : Quieter(b)) /\ \A u \in Threads \ {t} : graphOf[u] # a
  BY <1>1, <1>2, HandlesDiffer DEF Quieter
<1>7. want'[t].running = want[t].running
  <2>1. PICK x : x = want'[t]
    OBVIOUS
  <2>2. Follows(x, want[t], o)
    BY <1>2, <2>1, AfterIs
  <2>3. QED
    BY <1>3, <2>1, <2>2 DEF Follows
<1>8. CASE HasWork(a, TRUE) /\ UNCHANGED <<host, queue>>
  <2>1. Slides(k) /\ Added(k) = {}
    BY <1>1, <1>2, <1>8, WaitingKept, SlidesSame
  <2>2. SilentAt(t)'
    <3>1. SilentAt(t) /\ Quieter(a) /\ pc[t] # "inline" /\ graphOf'[t] = a /\ host'[a] = host[a]
      BY <1>1, <1>2, <1>6, <1>8, SilentParts
    <3>2. quarantined \subseteq quarantined' /\ (~ want'[t].running => ~ want[t].running)
      BY <1>2, <1>7
    <3>3. k # 1
      BY <1>1
    <3>4. QED
      BY <1>1, <2>1, <3>1, <3>2, <3>3, SilentStays
  <2>3. QED
    BY <1>1, <1>2, <1>5, <1>6, <1>8, <2>1, <2>2, SilentFrom
<1>9. CASE /\ UNCHANGED host /\ Waiting' \in Seq(Ops) /\ Len(Waiting') = Len(Waiting) + 1
           /\ \A i \in 1 .. Len(Waiting) : Waiting'[i] = Waiting[i]
           /\ Waiting'[Len(Waiting) + 1] = o
  <2>1. Slides(0) /\ Added(0) = {Len(Waiting) + 1}
    BY <1>5, <1>9, SlidesOn
  <2>2. \A i \in Added(0), u \in Threads \ {t} : Waiting'[i].graph # graphOf[u]
    BY <1>3, <1>6, <1>9, <2>1
  <2>3. SilentAt(t)'
    <3>1. SUFFICES ASSUME Sound(t)', ~ want'[t].running PROVE SilentAt(t)'
      BY DEF SilentAt
    <3>2. Sound(t) /\ ~ want[t].running
      BY <1>2, <1>7, <3>1 DEF Sound
    <3>3. \A i \in 0 .. Len(Waiting) : SilentWith(Effects(host[a], a, Waiting)[i])
      BY <1>1, <1>4, <1>5, <3>2, SilentIs, SilentParts
    <3>4. Pending(t)' = Waiting' \o <<>>
      BY <1>5 DEF Pending, Asked
    <3>5. Len(Pending(t)') = Len(Waiting) + 1
      <4>1. PICK w : w = Waiting'
        OBVIOUS
      <4>2. w \in Seq(Ops) /\ Len(w) = Len(Waiting) + 1 /\ Pending(t)' = w \o <<>>
        BY <1>9, <3>4, <4>1
      <4>3. QED
        BY <4>2
    <3>6. \A i \in 0 .. Len(Waiting) : Effects(host[a], a, Waiting')[i] = Effects(host[a], a, Waiting)[i]
      <4>1. Len(Waiting) <= Len(Waiting')
        BY <1>5, <1>9
      <4>2. QED
        BY <1>5, <1>9, <4>1, EffectsPrefix
    <3>7. ASSUME NEW i \in 0 .. Len(Waiting'), NEW x, i # Len(Pending(t)'),
                 x = Effects(host'[a], a, Waiting')[i]
          PROVE  SilentWith(x)'
      <4>1. i \in 0 .. Len(Waiting)
        BY <1>5, <1>9, <3>5, <3>7
      <4>2. x = Effects(host[a], a, Waiting)[i]
        BY <1>9, <3>6, <3>7, <4>1
      <4>3. SilentWith(x)
        BY <3>3, <4>1, <4>2
      <4>4. QED
        BY <1>2, <4>3 DEF SilentWith
    <3>8. QED
      BY <1>5, <3>7, SilentNext
  <2>4. ASSUME NEW u \in Threads \ {t} PROVE SilentAt(u)'
    <3>1. PICK b : b = graphOf[u]
      OBVIOUS
    <3>2. SilentAt(u) /\ want'[u] = want[u] /\ graphOf'[u] = graphOf[u] /\ Quieter(b)
      BY <1>2, <1>6, SetParameterMoves, SilentParts
    <3>3. Slides(k) /\ \A i \in Added(k) : Waiting'[i].graph # b
      BY <1>1, <2>1, <2>2, <3>1
    <3>4. QED
      BY <1>1, <1>2, <1>9, <3>1, <3>2, <3>3, SilentStays
  <2>5. QED
    BY <2>3, <2>4, SilentParts
<1>10. CASE /\ ~ HasWork(a, FALSE) /\ UNCHANGED queue
            /\ \A b \in Addresses \ {a} : host'[b] = host[b]
  <2>1. Waiting' = Waiting /\ Slides(0) /\ Added(0) = {}
    BY <1>2, <1>10, WaitingKept, SlidesSame
  <2>2. \A i \in DOMAIN Waiting : Waiting[i].graph # a
    BY <1>10, WithoutWork
  <2>3. \A i \in 1 .. Len(Waiting') : Waiting'[i].graph # a
    BY <1>5, <2>1, <2>2
  <2>4. SilentAt(t)'
    BY <1>5, <2>3, SilentAlone
  <2>5. QED
    BY <1>2, <1>5, <1>6, <1>10, <2>1, <2>4, SilentFrom
<1>11. QED
  BY <1>2, <1>8, <1>9, <1>10

LEMMA StepSilent ==
  ASSUME TypeOK, ModeKept, OwnedOnce, OpsOwned, HooksOwned, TopologyKept, InOrder, Silent, [Next]_vars
  PROVE  Silent'
<1>1. TypeOK' /\ ModeKept' /\ OwnedOnce' /\ InOrder' /\ UNCHANGED mode
  BY StepTyped, ModeKeptStep, StepOwned, StepOrder, StepMode
<1>2. CASE ~ Deferred
  <2>1. ~ Deferred'
    BY <1>1, <1>2 DEF Deferred
  <2>2. QED
    BY <1>1, <2>1, WorkerlessSilent
<1>3. CASE Deferred
  <2>1. \A t \in Threads : pc[t] # "inline"
    BY <1>3 DEF ModeKept
  <2>2. CASE Worker
    BY <1>1, <2>1, <2>2, WorkerQuiet, QuietSilent, PerformsOpSilent, RefillSilent DEF Worker
  <2>3. ASSUME NEW t \in Threads, Guest(t) PROVE Silent'
    <3>1. CASE Synchronizes(t) \/ Answers(t)
      <4>1. graphOf[t] # None
        BY <3>1, DrainedHas DEF Synchronizes, Answers, Has
      <4>2. QED
        BY <1>1, <2>1, <3>1, <4>1, GuestQuiet, QuietSilent
    <3>2. CASE Builds(t) \/ Disconnects(t) \/ SetsInput(t) \/ OpensUnpooled(t)
      BY <1>1, <2>1, <3>2, BuildingSilent
    <3>3. CASE NewAUGraph(t) \/ TakesPooled(t) \/ MissesPool(t) \/ SwapsGraph(t)
      BY <1>1, <2>1, <3>3, NewAUGraphSilent, TakesPooledSilent, MissesPoolSilent, SwapsGraphSilent
    <3>4. CASE Initialize(t) \/ Start(t) \/ Stop(t) \/ AddRenderNotify(t) \/ TearDown(t)
      BY <1>1, <1>3, <2>1, <3>4, QueuesSilent
    <3>5. CASE Enqueues(t) \/ SetParameter(t)
      BY <1>1, <2>1, <3>5, EnqueuesSilent, SetParameterSilent
    <3>6. CASE PerformsInline(t)
      BY <2>1, <3>6 DEF PerformsInline
    <3>7. QED
      BY <2>3, <3>1, <3>2, <3>3, <3>4, <3>5, <3>6, Zenon DEF Guest
  <2>4. CASE UNCHANGED vars
    BY <1>1, <2>1, <2>4, StutterQuiet, QuietSilent
  <2>5. QED
    BY <2>2, <2>3, <2>4 DEF Next
<1>4. QED
  BY <1>2, <1>3

-----------------------------------------------------------------------------
(* Muting: what is not muted belongs to a handle, or to a call that a thread makes itself *)
Accounts(t, a) == graphOf[t] = a \/ (pc[t] = "inline" /\ call[t].graph = a)

LEMMA UnmutedParts ==
  Unmuted <=> \A c \in Callbacks : ctx[c] # None /\ ~ ctx[c].muted =>
                \E t \in Threads : Accounts(t, ctx[c].owner)
BY DEF Unmuted, Accounts

LEMMA UnmutedNext ==
  ASSUME CtxOK', \A c \in Callbacks, a \in Addresses : ctx'[c] # None /\ ~ ctx'[c].muted /\ ctx'[c].owner = a =>
                   \E t \in Threads : Accounts(t, a)'
  PROVE  Unmuted'
<1>1. ASSUME NEW c \in Callbacks, ctx'[c] # None, ~ ctx'[c].muted, NEW a, a = ctx'[c].owner
      PROVE  \E t \in Threads : Accounts(t, a)'
  <2>1. a \in Addresses
    BY <1>1 DEF CtxOK, Contexts
  <2>2. QED
    BY <1>1, <2>1
<1>2. QED
  BY <1>1 DEF Unmuted, Accounts

\* A step that unmutes nothing, and after which whoever accounts for a graph still does.
LEMMA UnmutedKept ==
  ASSUME CtxOK', Unmuted,
         \A c \in Callbacks : ctx'[c] # None /\ ~ ctx'[c].muted => ctx'[c] = ctx[c],
         \A t \in Threads, c \in Callbacks :
           ctx'[c] # None /\ Accounts(t, ctx'[c].owner) => graphOf'[t] = graphOf[t] /\ (Still(t) \/ graphOf[t] = ctx'[c].owner)
  PROVE  Unmuted'
<1>1. ASSUME NEW c \in Callbacks, NEW a \in Addresses, ctx'[c] # None, ~ ctx'[c].muted, ctx'[c].owner = a
      PROVE  \E t \in Threads : Accounts(t, a)'
  <2>1. ctx'[c] = ctx[c]
    BY <1>1
  <2>2. PICK t \in Threads : Accounts(t, a)
    BY <1>1, <2>1, UnmutedParts
  <2>3. graphOf'[t] = graphOf[t] /\ (Still(t) \/ graphOf[t] = a)
    BY <1>1, <2>2
  <2>4. Accounts(t, a)'
    BY <2>2, <2>3 DEF Accounts, Still
  <2>5. QED
    BY <2>4
<1>2. QED
  BY <1>1, UnmutedNext

\* A step of a thread that is in no call that it makes itself.
LEMMA UnmutedGuest ==
  ASSUME TypeOK, CtxOK', Unmuted, NEW t \in Threads, pc[t] # "inline",
         \A u \in Threads \ {t} : graphOf'[u] = graphOf[u] /\ Still(u),
         NEW a, a = graphOf[t],
         \A c \in Callbacks : \/ ctx'[c] = ctx[c] \/ Quieted(c)
                              \/ graphOf'[t] = a /\ ctx'[c].owner = a,
         \/ a = None \/ graphOf'[t] = a \/ (pc'[t] = "inline" /\ call'[t].graph = a)
         \/ \A c \in Callbacks : ctx'[c] # None /\ ctx'[c].owner = a => ctx'[c].muted
  PROVE  Unmuted'
<1>1. ASSUME NEW c \in Callbacks, NEW b \in Addresses, ctx'[c] # None, ~ ctx'[c].muted, ctx'[c].owner = b
      PROVE  \E u \in Threads : Accounts(u, b)'
  <2>1. CASE graphOf'[t] = a /\ ctx'[c].owner = a
    BY <1>1, <2>1 DEF Accounts
  <2>2. CASE ctx'[c] = ctx[c]
    <3>1. PICK u \in Threads : Accounts(u, b)
      BY <1>1, <2>2, UnmutedParts
    <3>2. CASE u # t
      BY <3>1, <3>2 DEF Accounts, Still
    <3>3. CASE u = t
      <4>1. a = b /\ a # None
        BY <3>1, <3>3, NoneAssumption DEF Accounts
      <4>2. QED
        BY <1>1, <4>1 DEF Accounts
    <3>4. QED
      BY <3>2, <3>3
  <2>3. QED
    BY <1>1, <2>1, <2>2 DEF Quieted
<1>2. QED
  BY <1>1, UnmutedNext

LEMMA WorkerUnmuted ==
  ASSUME TypeOK, TypeOK', OwnedOnce, OpsOwned, Unmuted, Worker
  PROVE  Unmuted'
<1>1. UNCHANGED <<graphOf, pc, call>>
  BY Zenon DEF Worker, TakesOp, PerformsOp, OpDone, RefillReads, RefillBuilds, RefillStores, guest
<1>0. CtxOK'
  BY DEF TypeOK, CtxOK
<1>2. CASE PerformsOp
  <2>1. PICK o \in Ops : o.graph \in Addresses /\ host[o.graph] \in HostGraphs /\ Does(o)
    BY <1>2, PerformedOp
  <2>2. \A c \in Callbacks : ctx'[c] # None => ctx'[c] = ctx[c]
    BY <2>1, DoesContexts
  <2>3. QED
    BY <1>0, <1>1, <2>2, UnmutedKept DEF Still
<1>3. CASE ~ PerformsOp
  <2>1. UNCHANGED ctx
    BY <1>3, Zenon DEF Worker, TakesOp, OpDone, RefillReads, RefillBuilds, RefillStores
  <2>2. QED
    BY <1>0, <1>1, <2>1, UnmutedKept DEF Still
<1>4. QED
  BY <1>2, <1>3

LEMMA InlineUnmuted ==
  ASSUME TypeOK, TypeOK', OwnedOnce, OpsOwned, Unmuted, NEW t \in Threads, PerformsInline(t)
  PROVE  Unmuted'
<1>1. PICK o : o = call[t]
  OBVIOUS
<1>2. /\ pc[t] = "inline" /\ o \in Ops /\ o.graph \in Addresses /\ host[o.graph] \in HostGraphs /\ Does(o)
      /\ UNCHANGED graphOf /\ \A u \in Threads \ {t} : Still(u)
  BY <1>1, InlineMoves DEF Still
<1>3. \A c \in Callbacks : ctx'[c] # None => ctx'[c] = ctx[c] /\ (o.kind = "dispose" => ctx[c].owner # o.graph)
  BY <1>2, DoesContexts
<1>4. o.kind # "dispose" => o.graph = graphOf[t]
  BY <1>1, <1>2, OpsOwnedParts DEF CallOwned
<1>5. ASSUME NEW c \in Callbacks, ctx'[c] # None, Accounts(t, ctx'[c].owner) PROVE graphOf[t] = ctx'[c].owner
  BY <1>1, <1>3, <1>4, <1>5 DEF Accounts
<1>6. CtxOK'
  BY DEF TypeOK, CtxOK
<1>7. QED
  BY <1>2, <1>3, <1>5, <1>6, UnmutedKept

\* What the guest's own graph has when it is exchanged has no context.
LEMMA SwapsUnowned ==
  ASSUME TypeOK, OwnedOnce, OpsOwned, ContextsOwned, TopologyKept, NEW t \in Threads, SwapsGraph(t),
         NEW c \in Callbacks, ctx[c] # None
  PROVE  ctx[c].owner # graphOf[t]
<1>1. pc[t] = "swap" /\ graphOf[t] \in Addresses
  BY SwapsGraphMoves
<1>2. SUFFICES ASSUME NEW a, a = graphOf[t], ctx[c].owner = a PROVE FALSE
  OBVIOUS
<1>3. ~ topology[t].unpoolable
  BY <1>1, NoneAssumption DEF TopologyKept
<1>4. Settled(a)
  BY <1>2, ContextsParts
<1>5. Holds(t, a) /\ a \in Addresses
  BY <1>1, <1>2 DEF Holds
<1>6. ~ InWaiting(a)
  BY <1>5 DEF OwnedOnce, HeldOnce
<1>7. ASSUME NEW u \in Threads, SettledBy(u, a) PROVE FALSE
  <2>1. CASE graphOf[u] = a /\ topology[u].unpoolable
    <3>1. u = t
      BY <1>1, <1>2, <2>1, HandlesDiffer
    <3>2. QED
      BY <1>3, <2>1, <3>1
  <2>2. CASE pc[u] \in {"enqueue", "inline"} /\ Disposes(call[u], a)
    BY <1>2, <1>5, <2>2, CallApart DEF Asked, Disposes
  <2>3. QED
    BY <1>7, <2>1, <2>2 DEF SettledBy
<1>8. QED
  BY <1>4, <1>6, <1>7 DEF Settled

LEMMA SwapsGraphUnmuted ==
  ASSUME TypeOK, TypeOK', OwnedOnce, OpsOwned, ContextsOwned, TopologyKept, Unmuted,
         NEW t \in Threads, SwapsGraph(t)
  PROVE  Unmuted'
<1>1. PICK a : a = graphOf[t]
  OBVIOUS
<1>2. pc[t] = "swap" /\ UNCHANGED ctx /\ \A u \in Threads \ {t} : graphOf'[u] = graphOf[u] /\ Still(u)
  BY SwapsGraphMoves DEF Still
<1>3. \A c \in Callbacks : ctx[c] # None => ctx[c].owner # a
  BY <1>1, SwapsUnowned
<1>4. CtxOK'
  BY DEF TypeOK, CtxOK
<1>5. QED
  BY <1>1, <1>2, <1>3, <1>4, UnmutedGuest

LEMMA TearDownUnmuted ==
  ASSUME TypeOK, TypeOK', Unmuted, NEW t \in Threads, TearDown(t),
         \A u \in Threads \ {t} : graphOf'[u] = graphOf[u] /\ Still(u)
  PROVE  Unmuted'
<1>1. PICK a : a = graphOf[t]
  OBVIOUS
<1>2. pc[t] # "inline" /\ a \in Addresses /\ StopMutes(a)
  BY <1>1, TearDownMoves DEF Begins
<1>3. CtxOK /\ CtxOK'
  BY DEF TypeOK, CtxOK
<1>4. \A c \in Callbacks : ctx'[c] = ctx[c] \/ Quieted(c)
  BY <1>2, <1>3, StopMutesMoves DEF Quieted
<1>5. CASE Drops(t)
  <2>1. call'[t] = Op("dispose", graphOf[t], None) /\ pc'[t] = (IF Deferred THEN "enqueue" ELSE "inline")
    BY <1>1, <1>2, <1>5, DropsMoves
  <2>2. call'[t].graph = a
    BY <1>1, <2>1, OpIs
  <2>3. CASE Deferred
    <3>1. mode \notin {"synchronous", "quarantine"}
      BY <2>3 DEF Deferred
    <3>2. \A c \in Callbacks : ctx'[c] # None /\ ctx'[c].owner = a => ctx'[c].muted
      BY <1>2, <1>3, <3>1, StopMutesMoves
    <3>3. QED
      BY <1>1, <1>2, <1>3, <1>4, <3>2, UnmutedGuest
  <2>4. CASE ~ Deferred
    <3>1. pc'[t] = "inline"
      BY <2>1, <2>4
    <3>2. QED
      BY <1>1, <1>2, <1>3, <1>4, <2>2, <3>1, UnmutedGuest
  <2>5. QED
    BY <2>3, <2>4
<1>6. CASE UNCHANGED graphOf
  BY <1>1, <1>2, <1>3, <1>4, <1>6, UnmutedGuest
<1>7. QED
  BY <1>5, <1>6, TearDownMoves

LEMMA GuestUnmuted ==
  ASSUME TypeOK, TypeOK', OwnedOnce, OpsOwned, Unmuted, NEW t \in Threads,
         \/ Builds(t) \/ Disconnects(t) \/ SetsInput(t) \/ OpensUnpooled(t) \/ MissesPool(t)
         \/ TakesPooled(t) \/ NewAUGraph(t) \/ Initialize(t) \/ Start(t) \/ Stop(t) \/ AddRenderNotify(t)
         \/ SetParameter(t),
         \A u \in Threads \ {t} : graphOf'[u] = graphOf[u] /\ Still(u)
  PROVE  Unmuted'
<1>1. PICK a : a = graphOf[t]
  OBVIOUS
<1>2. CtxOK /\ CtxOK'
  BY DEF TypeOK, CtxOK
<1>3. CASE Builds(t) \/ Disconnects(t) \/ SetsInput(t) \/ OpensUnpooled(t) \/ MissesPool(t)
  <2>1. Alters(t)
    BY <1>3, AltersMoves
  <2>2. pc[t] # "inline" /\ graphOf'[t] = a /\ a \in Addresses
    BY <1>1, <2>1, AltersHost DEF Alters
  <2>3. \A c \in Callbacks : ctx'[c] = ctx[c] \/ ctx'[c].owner = a
    <3>1. CASE UNCHANGED ctx
      BY <3>1
    <3>2. CASE \E c : Gives(t, c)
      BY <1>1, <1>2, <2>2, <3>2, GivesMoves
    <3>3. QED
      BY <2>1, <3>1, <3>2 DEF Alters
  <2>4. QED
    BY <1>1, <1>2, <2>2, <2>3, UnmutedGuest
<1>4. CASE TakesPooled(t)
  <2>1. pc[t] # "inline" /\ UNCHANGED <<ctx, graphOf>>
    BY <1>4, TakesPooledMoves DEF TakesPooled, Drained
  <2>2. QED
    BY <1>1, <1>2, <2>1, UnmutedGuest
<1>5. CASE NewAUGraph(t)
  <2>1. pc[t] # "inline" /\ UNCHANGED ctx /\ a = None
    BY <1>1, <1>5 DEF NewAUGraph, Begins
  <2>2. QED
    BY <1>1, <1>2, <2>1, UnmutedGuest
<1>6. CASE Initialize(t) \/ SetParameter(t)
  <2>1. pc[t] # "inline" /\ UNCHANGED <<ctx, graphOf>>
    BY <1>6 DEF Initialize, SetParameter, Has, Begins, guest
  <2>2. QED
    BY <1>1, <1>2, <2>1, UnmutedGuest
<1>7. CASE Start(t)
  <2>1. pc[t] # "inline" /\ graphOf'[t] = a /\ a \in Addresses /\ ctx' = Muted(a, FALSE)
    BY <1>1, <1>7, StartMoves DEF Start, Has, Begins
  <2>2. FALSE \in BOOLEAN
    OBVIOUS
  <2>3. \A c \in Callbacks : ctx'[c] = ctx[c] \/ ctx'[c].owner = a
    BY <1>2, <2>1, <2>2, MutedIs
  <2>4. QED
    BY <1>1, <1>2, <2>1, <2>3, UnmutedGuest
<1>8. CASE Stop(t)
  <2>1. pc[t] # "inline" /\ graphOf'[t] = a /\ a \in Addresses /\ StopMutes(a)
    BY <1>1, <1>8, StopMoves DEF Stop, Has, Begins
  <2>2. \A c \in Callbacks : ctx'[c] = ctx[c] \/ Quieted(c)
    BY <1>2, <2>1, StopMutesMoves DEF Quieted
  <2>3. QED
    BY <1>1, <1>2, <2>1, <2>2, UnmutedGuest
<1>9. CASE AddRenderNotify(t)
  <2>1. pc[t] # "inline" /\ graphOf'[t] = a /\ a \in Addresses /\ \E c \in Callbacks : Gives(t, c)
    BY <1>1, <1>9, AddRenderNotifyMoves DEF AddRenderNotify, Has, Begins
  <2>2. \A c \in Callbacks : ctx'[c] = ctx[c] \/ ctx'[c].owner = a
    BY <1>1, <1>2, <2>1, GivesMoves
  <2>3. QED
    BY <1>1, <1>2, <2>1, <2>2, UnmutedGuest
<1>10. QED
  BY <1>3, <1>4, <1>5, <1>6, <1>7, <1>8, <1>9

LEMMA StepUnmuted ==
  ASSUME TypeOK, OwnedOnce, OpsOwned, ContextsOwned, TopologyKept, Unmuted, [Next]_vars
  PROVE  Unmuted'
<1>1. TypeOK'
  BY StepTyped
<1>2. CtxOK'
  BY <1>1 DEF TypeOK, CtxOK
<1>3. CASE Worker
  BY <1>1, <1>3, WorkerUnmuted
<1>4. ASSUME NEW t \in Threads, Guest(t) PROVE Unmuted'
  <2>1. CASE PerformsInline(t)
    BY <1>1, <2>1, InlineUnmuted
  <2>2. CASE Synchronizes(t) \/ Answers(t) \/ Enqueues(t)
    <3>1. UNCHANGED <<graphOf, ctx>> /\ pc[t] # "inline"
      BY <2>2 DEF Synchronizes, Answers, Enqueues, Has, Begins, Drained
    <3>2. PICK p \in {"run", "drain"} : Goes(t, p, None)
      BY <2>2 DEF Synchronizes, Answers, Enqueues
    <3>3. \A u \in Threads \ {t} : Still(u)
      BY <3>2, TypeParts, GoesBack DEF Still
    <3>4. PICK a : a = graphOf[t]
      OBVIOUS
    <3>5. QED
      BY <1>2, <3>1, <3>3, <3>4, UnmutedGuest
  <2>3. CASE ~ (PerformsInline(t) \/ Synchronizes(t) \/ Answers(t) \/ Enqueues(t))
    <3>1. \A u \in Threads \ {t} : graphOf'[u] = graphOf[u] /\ Still(u)
      BY <1>4, <2>3, GuestOthers
    <3>2. QED
      BY <1>1, <1>4, <2>3, <3>1, SwapsGraphUnmuted, TearDownUnmuted, GuestUnmuted, Zenon DEF Guest
  <2>4. QED
    BY <2>1, <2>2, <2>3
<1>5. CASE UNCHANGED vars
  <2>1. UNCHANGED <<ctx, graphOf, pc, call>>
    BY <1>5 DEF vars, guest
  <2>2. QED
    BY <1>2, <2>1, UnmutedKept DEF Still
<1>6. QED
  BY <1>3, <1>4, <1>5 DEF Next

-----------------------------------------------------------------------------
(* The inductive invariant *)
LEMMA InitGraphs == Init => GraphsInv
<1>1. SUFFICES ASSUME Init PROVE GraphsInv
  OBVIOUS
<1>2. TypeOK
  BY <1>1, InitTyped
<1>3. /\ queue = <<>> /\ pool = <<>> /\ inProgress = Idle /\ pending = 0
      /\ \A t \in Threads : pc[t] = "run" /\ graphOf[t] = None
      /\ \A c \in Callbacks : ctx[c] = None
      /\ \A a \in Addresses : host[a] = None
  BY <1>1 DEF Init
<1>4. Waiting = <<>> \o <<>> /\ inProgress.graph = None
  BY <1>3 DEF Idle, Waiting
<1>5. DOMAIN Waiting = {} /\ DOMAIN pool = {}
  BY <1>3, <1>4
<1>6. ModeKept
  BY <1>3 DEF ModeKept
<1>7. OwnedOnce
  <2>1. ASSUME NEW a \in Addresses
        PROVE  /\ ~ (\E t \in Threads : Holds(t, a)) /\ ~ InPool(a) /\ ~ InWaiting(a)
               /\ inProgress.graph # a /\ ~ Held(a) /\ host[a] = None
    BY <1>3, <1>4, <1>5, NoneAssumption DEF Holds, InCall, InPool, InWaiting, Held
  <2>2. QED
    BY <1>5, <2>1 DEF OwnedOnce, HeldOnce
<1>8. OpsOwned
  BY <1>3, <1>5 DEF OpsOwned
<1>9. ContextsOwned /\ Unmuted
  BY <1>3 DEF ContextsOwned, Unmuted
<1>10. HooksOwned
  BY <1>3, <1>5 DEF HooksOwned, Calling
<1>11. TopologyKept
  BY <1>3 DEF TopologyKept
<1>12. PoolKept
  BY <1>3, <1>4, <1>5, AudioGraphsAssumption DEF PoolKept
<1>13. InOrder /\ Silent
  BY <1>3 DEF InOrder, Silent, Sound
<1>14. QED
  BY <1>2, <1>6, <1>7, <1>8, <1>9, <1>10, <1>11, <1>12, <1>13 DEF GraphsInv

LEMMA StepGraphs == GraphsInv /\ [Next]_vars => GraphsInv'
<1>1. SUFFICES ASSUME GraphsInv, [Next]_vars PROVE GraphsInv'
  OBVIOUS
<1>2. /\ TypeOK /\ ModeKept /\ OwnedOnce /\ OpsOwned /\ ContextsOwned /\ HooksOwned
      /\ TopologyKept /\ PoolKept /\ InOrder /\ Silent /\ Unmuted
  BY <1>1 DEF GraphsInv
<1>3. TypeOK' /\ ModeKept' /\ OwnedOnce' /\ OpsOwned'
  BY <1>1, <1>2, StepTyped, ModeKeptStep, StepOwned, StepOps
<1>4. ContextsOwned' /\ HooksOwned' /\ TopologyKept' /\ PoolKept'
  BY <1>1, <1>2, StepContexts, StepHooks, StepTopology, StepPool
<1>5. InOrder' /\ Silent' /\ Unmuted'
  BY <1>1, <1>2, StepOrder, StepSilent, StepUnmuted
<1>6. QED
  BY <1>3, <1>4, <1>5 DEF GraphsInv

\* In every state each graph has one owner, each context and each operation one to
\* belong to, and the calls on a graph are in their order.
THEOREM GraphsInvariant == Spec => []GraphsInv
<1>1. Init => GraphsInv
  BY InitGraphs
<1>2. GraphsInv /\ [Next]_vars => GraphsInv'
  BY StepGraphs
<1>3. QED
  BY <1>1, <1>2, PTL DEF Spec

\* No step leaves the types of the bridge's tables: no more than Capacity of a
\* topology is recorded, no more than Target graphs pooled or asked for, and a
\* call that is made elsewhere than where it is begun is of a kind it may be.
THEOREM GraphsTyped == Spec => []TypeOK
<1>1. GraphsInv => TypeOK
  BY DEF GraphsInv
<1>2. QED
  BY <1>1, GraphsInvariant, PTL

\* Without writes to a graph that is being torn down, the calls on a graph take
\* effect in the order in which the guest has made them, whatever was swapped.
THEOREM CallsOrdered == ~ Persists => (Spec => []CallsInOrder)
<1>1. SUFFICES ASSUME ~ Persists PROVE Spec => []CallsInOrder
  OBVIOUS
<1>2. GraphsInv => CallsInOrder
  <2>1. SUFFICES ASSUME GraphsInv, NEW t \in Threads, Sound(t)
                 PROVE  Becomes(t)[Len(Pending(t))] = want[t]
    BY DEF CallsInOrder
  <2>2. TypeOK /\ OwnedOnce /\ InOrder
    BY <2>1 DEF GraphsInv
  <2>3. PICK g, w : g = Becomes(t)[Len(Pending(t))] /\ w = want[t]
    OBVIOUS
  <2>4. Agree(g, w)
    BY <2>1, <2>2, <2>3 DEF InOrder
  <2>5. g \in HostGraphs /\ w \in HostGraphs
    <3>1. PICK a : a = graphOf[t]
      OBVIOUS
    <3>2. a \in Addresses /\ host[a] \in HostGraphs /\ w \in HostGraphs /\ a # None
      BY <2>1, <2>2, <2>3, <3>1, HandleMade DEF Sound
    <3>3. Pending(t) \in Seq(Ops)
      BY <2>2, TypeParts, PendingTyped
    <3>4. Len(Pending(t)) \in 0 .. Len(Pending(t))
      BY <3>3
    <3>5. Effects(host[a], a, Pending(t))[Len(Pending(t))] \in HostGraphs
      BY <3>2, <3>3, <3>4, EffectsTyped
    <3>6. QED
      BY <2>3, <3>1, <3>2, <3>5 DEF Becomes
  <2>6. g = w
    BY <1>1, <2>4, <2>5, EqualWhenAgree
  <2>7. QED
    BY <2>3, <2>6
<1>3. QED
  BY <1>2, GraphsInvariant, PTL

\* What the owners of a graph are.
OwnerIs(x, a) ==
  \/ \E t \in Threads : x = <<"handle", t>> /\ graphOf[t] = a
  \/ \E t \in Threads : x = <<"call", t>> /\ InCall(t, a)
  \/ \E i \in DOMAIN pool : x = <<"pool", i>> /\ pool[i] = a
  \/ \E i \in DOMAIN Waiting : x = <<"disposal", i>> /\ Disposes(Waiting[i], a)
  \/ x = <<"refill", a>> /\ inProgress.graph = a

LEMMA OwnersAre ==
  ASSUME NEW a
  PROVE  \A x : x \in Owners(a) <=> OwnerIs(x, a)
<1>1. ASSUME NEW x, x \in Owners(a) PROVE OwnerIs(x, a)
  BY <1>1 DEF Owners, OwnerIs
<1>2. ASSUME NEW x, OwnerIs(x, a) PROVE x \in Owners(a)
  <2>1. CASE \E t \in Threads : x = <<"handle", t>> /\ graphOf[t] = a
    BY <2>1 DEF Owners
  <2>2. CASE \E t \in Threads : x = <<"call", t>> /\ InCall(t, a)
    BY <2>2 DEF Owners
  <2>3. CASE \E i \in DOMAIN pool : x = <<"pool", i>> /\ pool[i] = a
    BY <2>3 DEF Owners
  <2>4. CASE \E i \in DOMAIN Waiting : x = <<"disposal", i>> /\ Disposes(Waiting[i], a)
    BY <2>4 DEF Owners
  <2>5. CASE x = <<"refill", a>> /\ inProgress.graph = a
    BY <2>5 DEF Owners
  <2>6. QED
    BY <1>2, <2>1, <2>2, <2>3, <2>4, <2>5 DEF OwnerIs
<1>3. QED
  BY <1>1, <1>2

LEMMA OwnersHold ==
  ASSUME NEW a
  PROVE  Held(a) <=> Owners(a) # {}
<1>1. ASSUME Held(a) PROVE \E x : OwnerIs(x, a)
  <2>1. CASE \E t \in Threads : graphOf[t] = a
    BY <2>1 DEF OwnerIs
  <2>2. CASE \E t \in Threads : InCall(t, a)
    BY <2>2 DEF OwnerIs
  <2>3. CASE InPool(a)
    BY <2>3 DEF OwnerIs, InPool
  <2>4. CASE InWaiting(a)
    BY <2>4 DEF OwnerIs, InWaiting
  <2>5. CASE inProgress.graph = a
    BY <2>5 DEF OwnerIs
  <2>6. QED
    BY <1>1, <2>1, <2>2, <2>3, <2>4, <2>5 DEF Held, Holds
<1>2. ASSUME NEW x, OwnerIs(x, a) PROVE Held(a)
  BY <1>2 DEF OwnerIs, Held, Holds, InPool, InWaiting
<1>3. QED
  BY <1>1, <1>2, OwnersAre

LEMMA OwnersSingle ==
  ASSUME NEW a, HeldOnce(a), NEW x, OwnerIs(x, a), NEW y, OwnerIs(y, a)
  PROVE  x = y
<1>1. ASSUME NEW t \in Threads, Holds(t, a)
      PROVE  /\ (\A u \in Threads : Holds(u, a) => u = t) /\ ~ InPool(a) /\ ~ InWaiting(a)
             /\ inProgress.graph # a /\ ~ (graphOf[t] = a /\ InCall(t, a))
  BY <1>1 DEF HeldOnce
<1>2. CASE \E t \in Threads : x = <<"handle", t>> /\ graphOf[t] = a
  <2>1. PICK t \in Threads : x = <<"handle", t>> /\ graphOf[t] = a
    BY <1>2
  <2>2. QED
    BY <1>1, <2>1 DEF OwnerIs, Holds, InPool, InWaiting
<1>3. CASE \E t \in Threads : x = <<"call", t>> /\ InCall(t, a)
  <2>1. PICK t \in Threads : x = <<"call", t>> /\ InCall(t, a)
    BY <1>3
  <2>2. QED
    BY <1>1, <2>1 DEF OwnerIs, Holds, InPool, InWaiting
<1>4. CASE \E i \in DOMAIN pool : x = <<"pool", i>> /\ pool[i] = a
  <2>1. PICK i \in DOMAIN pool : x = <<"pool", i>> /\ pool[i] = a
    BY <1>4
  <2>2. InPool(a)
    BY <2>1 DEF InPool
  <2>3. ~ InWaiting(a) /\ inProgress.graph # a /\ \A t \in Threads : ~ Holds(t, a)
    BY <1>1, <2>2 DEF HeldOnce
  <2>4. QED
    BY <2>1, <2>3 DEF OwnerIs, Holds, InWaiting, HeldOnce
<1>5. CASE \E i \in DOMAIN Waiting : x = <<"disposal", i>> /\ Disposes(Waiting[i], a)
  <2>1. PICK i \in DOMAIN Waiting : x = <<"disposal", i>> /\ Disposes(Waiting[i], a)
    BY <1>5
  <2>2. InWaiting(a)
    BY <2>1 DEF InWaiting
  <2>3. ~ InPool(a) /\ inProgress.graph # a /\ \A t \in Threads : ~ Holds(t, a)
    BY <1>1, <2>2 DEF HeldOnce
  <2>4. QED
    BY <2>1, <2>3 DEF OwnerIs, Holds, InPool, HeldOnce
<1>6. CASE x = <<"refill", a>> /\ inProgress.graph = a
  <2>1. ~ InPool(a) /\ ~ InWaiting(a) /\ \A t \in Threads : ~ Holds(t, a)
    BY <1>1, <1>6 DEF HeldOnce
  <2>2. QED
    BY <1>6, <2>1 DEF OwnerIs, Holds, InPool, InWaiting
<1>7. QED
  BY <1>2, <1>3, <1>4, <1>5, <1>6 DEF OwnerIs

\* Every graph that CoreAudio has and has not failed has exactly one owner, and one
\* that it does not have has none: no graph is leaked, none disposed of twice, none
\* both handed out and kept.  What is pooled is of the template, within the target.
THEOREM GraphsPooled == Spec => []PoolSound
<1>1. GraphsInv => PoolSound
  <2>1. SUFFICES ASSUME GraphsInv PROVE PoolSound
    OBVIOUS
  <2>2. OwnedOnce /\ PoolKept
    BY <2>1 DEF GraphsInv
  <2>3. ASSUME NEW a \in Addresses \ quarantined
        PROVE  Cardinality(Owners(a)) = IF host[a] = None THEN 0 ELSE 1
    <3>1. HeldOnce(a) /\ (Held(a) <=> host[a] # None)
      BY <2>2 DEF OwnedOnce
    <3>2. CASE host[a] = None
      <4>1. Owners(a) = {}
        BY <3>1, <3>2, OwnersHold
      <4>2. QED
        BY <3>2, <4>1, FS_EmptySet
    <3>3. CASE host[a] # None
      <4>1. PICK x : x \in Owners(a)
        BY <3>1, <3>3, OwnersHold
      <4>2. \A y \in Owners(a) : y = x
        BY <3>1, <4>1, OwnersAre, OwnersSingle
      <4>3. Owners(a) = {x}
        BY <4>1, <4>2
      <4>4. QED
        BY <3>3, <4>3, FS_Singleton
    <3>4. QED
      BY <3>2, <3>3
  <2>4. QED
    BY <2>2, <2>3 DEF PoolSound, PoolKept
<1>2. QED
  BY <1>1, GraphsInvariant, PTL

\* No callback that CoreAudio may call is unmuted on a graph that the guest has
\* stopped or disposed of, but for what the stopping thread is about to stop itself.
THEOREM GraphsSilent == Spec => []StoppedIsSilent
<1>1. GraphsInv => StoppedIsSilent
  <2>1. SUFFICES ASSUME GraphsInv, NEW a \in Addresses \ quarantined, host[a] # None, host[a].running,
                        NEW c \in host[a].hooks, ctx[c] # None, ~ ctx[c].muted
                 PROVE  \E t \in Threads : \/ graphOf[t] = a /\ want[t].running
                                           \/ pc[t] = "inline" /\ call[t].graph = a
    BY DEF StoppedIsSilent
  <2>2. /\ TypeOK /\ ModeKept /\ OwnedOnce /\ OpsOwned /\ HooksOwned /\ InOrder /\ Silent /\ Unmuted
        /\ HostOK /\ WorkOK /\ CallsOK
    BY <2>1, TypeParts DEF GraphsInv
  <2>3. host[a] \in HostGraphs
    BY <2>1, <2>2 DEF HostOK
  <2>4. c \in Callbacks
    BY <2>1, <2>3 DEF HostGraphs
  <2>5. ctx[c].owner = a
    BY <2>1, <2>2 DEF HooksOwned
  <2>6. PICK t \in Threads : Accounts(t, a)
    BY <2>1, <2>2, <2>4, <2>5, UnmutedParts
  <2>7. ASSUME graphOf[t] = a, ~ want[t].running, ~ (pc[t] = "inline" /\ call[t].graph = a) PROVE FALSE
    <3>1. Sound(t)
      BY <2>7, NoneAssumption DEF Sound
    <3>2. CASE pc[t] # "inline"
      <4>1. \A i \in 0 .. Len(Waiting) : SilentWith(Effects(host[a], a, Waiting)[i])
        BY <2>2, <2>3, <2>7, <3>1, <3>2, SilentIs, SilentParts
      <4>2. Waiting \in Seq(Ops)
        BY <2>2, WaitingTyped
      <4>3. 0 \in 0 .. Len(Waiting) /\ Effects(host[a], a, Waiting)[0] = host[a]
        BY <4>2, EffectsIs
      <4>4. SilentWith(host[a])
        BY <4>1, <4>3
      <4>5. QED
        BY <2>1, <4>4 DEF SilentWith
    <3>3. CASE pc[t] = "inline"
      <4>1. Asked(t) /\ call[t].graph # a
        BY <2>7, <3>3 DEF Asked
      <4>2. Waiting = <<>> /\ Waiting \in Seq(Ops)
        BY <2>2, <3>3, InlineAlone, WaitingTyped
      <4>3. Final(host[a], a, Waiting) = host[a]
        <5>1. \A i \in 1 .. Len(Waiting) : Waiting[i].graph # a
          BY <4>2
        <5>2. QED
          BY <4>2, <5>1, FinalIdle
      <4>4. PICK w : w = Final(host[a], a, Waiting)
        OBVIOUS
      <4>5. Agree(Step(w, a, call[t]), want[t])
        BY <2>2, <2>7, <3>1, <4>1, <4>4, OrderIs, OrderParts
      <4>6. Step(w, a, call[t]) = host[a]
        BY <4>1, <4>3, <4>4 DEF Step
      <4>7. want[t] \in HostGraphs
        BY <2>2, <2>7, <3>1, HandleMade DEF Sound
      <4>8. host[a].running = want[t].running
        BY <2>3, <4>5, <4>6, <4>7, AgreeIs
      <4>9. QED
        BY <2>1, <2>7, <4>8
    <3>4. QED
      BY <3>2, <3>3
  <2>8. QED
    BY <2>6, <2>7 DEF Accounts
<1>2. QED
  BY <1>1, GraphsInvariant, PTL

=============================================================================
