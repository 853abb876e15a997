---------------------------- MODULE GuestImages ----------------------------
(***************************************************************************)
(* Getting the game's i386 image, and the dylib one title ships beside it, *)
(* into low memory and bound to the host: macho_loader.c maps a file,      *)
(* applies its relocations while its segments are still writable and then  *)
(* protects them; compat_runtime.c's bridge gives each undefined symbol a  *)
(* thunk, a data cell or an object and writes it into the image through a  *)
(* window that opens one or two pages; game_loader.c patches the title,    *)
(* loads the companion and runs the initializers.  Everything here is one  *)
(* thread; the hazards are the order of the steps and what each leaves of  *)
(* the pages' protections.                                                 *)
(*                                                                         *)
(* A word is what one table entry of the file speaks of: a pointer, a      *)
(* stub, or a word a relocation names.  Its use says what the entry is.    *)
(***************************************************************************)
EXTENDS Naturals, Sequences, FiniteSets, SequencesExt

CONSTANTS
  Pages,          \* low memory, 1..n
  Pinned,         \* those the host's __LEGACY section reserves
  Layouts,        \* the pairs of files: [Images -> [segments, words, initializers]]
  Slide,          \* what is added to the companion's addresses
  Symbol,         \* the unslid address of a symbol the image defines
  ClassOf,        \* what an undefined name is: [names -> classes]
  Natives,        \* the names with a native i386 stub
  ImportCapacity, \* MACHO_IMAGE32_MAX_IMPORTS
  ThunkRoom,      \* the import thunks that fit before the dynamic ones
  DynamicRoom,    \* kDynamicThunkCapacity
  CellRoom        \* the data cells the bridge has

Images == {"game", "companion"}

ImagesAssumption ==
  /\ Pages = 1..Cardinality(Pages) /\ Pinned \subseteq Pages
  /\ {Slide, Symbol, ImportCapacity, ThunkRoom, DynamicRoom, CellRoom} \subseteq Nat \ {0}

VARIABLES
  layout, space, protection, word, stage, next, imports, relocations,
  window, code, dynamic, cells, hosted, ran, faulted

imageVars == <<layout, space, protection, word, stage, next, imports, relocations,
               window, code, dynamic, cells, hosted, ran, faulted>>

Segments(i) == layout[i].segments
Words(i) == layout[i].words
SlideOf(i) == IF i = "companion" THEN Slide ELSE 0
PagesOf(i) == UNION {Segments(i)[n].pages : n \in DOMAIN Segments(i)}
HasCompanion == Words("companion") # <<>>
LastPage(i) == CHOOSE p \in PagesOf(i) : \A q \in PagesOf(i) : q <= p
FirstPage(i) == CHOOSE p \in PagesOf(i) : \A q \in PagesOf(i) : p <= q
Extent(i) == FirstPage(i)..LastPage(i)

Address(n) == [to |-> "address", at |-> n]
Held(i, w) == Address(Words(i)[w].held)
Absent == [to |-> "none", at |-> 0]
Slots == 1..(ThunkRoom + DynamicRoom + 1)   \* the last one stands for the 64-bit pads
Pad == [of |-> "pad", index |-> 0]

ImagesInit ==
  /\ layout \in Layouts
  /\ space = [p \in Pages |-> IF p \in Pinned THEN "pinned" ELSE "free"]
  /\ protection = [p \in Pages |-> "---"]
  /\ word = [i \in Images |-> [w \in DOMAIN Words(i) |-> Absent]]
  /\ stage = [i \in Images |-> "absent"]
  /\ next = 1
  /\ imports = [i \in Images |-> <<>>] /\ relocations = [i \in Images |-> <<>>]
  /\ window = {}
  /\ code = [s \in Slots |-> Pad]
  /\ dynamic = <<>> /\ cells = 0 /\ hosted = {} /\ ran = <<>> /\ faulted = FALSE

Moves(i, to) == stage' = [stage EXCEPT ![i] = to]
FinalProtection(i, p) ==
  Segments(i)[CHOOSE n \in DOMAIN Segments(i) : p \in Segments(i)[n].pages].protection
Writable(pages) == \A p \in pages : protection[p] \in {"rw-", "rwx"}

Writes(i, ws, Value(_)) ==
  /\ word' = [word EXCEPT ![i] = [w \in DOMAIN @ |-> IF w \in ws THEN Value(w) ELSE @[w]]]
  /\ faulted' = (faulted \/ \E w \in ws : ~ Writable(Words(i)[w].pages))

binding == <<window, code, dynamic, cells, ran>>
mapping == <<space, protection, hosted>>
found == <<imports, relocations>>

(***************************************************************************)
(* The guest write window                                                  *)
(***************************************************************************)

Closed(held) ==
  [p \in Pages |-> IF \E o \in held : o.page = p THEN (CHOOSE o \in held : o.page = p).was ELSE protection[p]]

\* The mutant forgets the pages opened before.
OpensWindowOver(pages) ==
  /\ window' = {[page |-> p, was |-> protection[p]] : p \in pages}
  /\ protection' = [p \in Pages |-> IF p \in pages THEN "rwx" ELSE protection[p]]

\* Opens exactly these pages, having put back the ones opened before.
OpensWindow(pages) ==
  IF {o.page : o \in window} = pages THEN UNCHANGED <<window, protection>>
  ELSE /\ window' = {[page |-> p, was |-> Closed(window)[p]] : p \in pages}
       /\ protection' = [p \in Pages |-> IF p \in pages THEN "rwx" ELSE Closed(window)[p]]

ClosesWindow == window' = {} /\ protection' = Closed(window)

\* Writes a word through the window.
Patches(i, w, value) ==
  /\ OpensWindow(Words(i)[w].pages)
  /\ word' = [word EXCEPT ![i][w] = value]

(***************************************************************************)
(* macho_loader.c                                                          *)
(***************************************************************************)

\* Any step of a load may fail, and the image is then never used.
Fails(i) ==
  /\ stage[i] \notin {"absent", "patched", "ready", "done", "trapped", "main", "failed"}
  /\ Moves(i, "failed")
  /\ ClosesWindow
  /\ UNCHANGED <<layout, space, word, next, found, code, dynamic, cells, hosted, ran, faulted>>

Inspect(i) ==
  /\ stage[i] = "absent"
  /\ i = "companion" => HasCompanion /\ stage["game"] = "patched"
  /\ Moves(i, "inspected")
  /\ next' = 1
  /\ UNCHANGED <<layout, mapping, word, found, binding, faulted>>

\* The game's load frees the reservation up to the end of its image, a
\* companion's only the window it needs.
Released(i) == IF i = "game" THEN {p \in Pages : p <= LastPage(i)} ELSE Extent(i)

Release(i) ==
  /\ stage[i] = "inspected"
  /\ IF Extent(i) \subseteq Pinned
       THEN Moves(i, "released") /\ space' = [p \in Pages |-> IF p \in Released(i) THEN "free" ELSE space[p]]
       ELSE Moves(i, "failed") /\ UNCHANGED space
  /\ UNCHANGED <<layout, protection, word, next, found, binding, hosted, faulted>>

\* The host maps something of its own where the reservation was: external.
HostMaps(p) ==
  /\ \E i \in Images : stage[i] = "released" /\ p \in Extent(i)
  /\ space[p] = "free" /\ hosted = {}
  /\ space' = [space EXCEPT ![p] = "host"]
  /\ hosted' = {p}
  /\ UNCHANGED <<layout, protection, word, stage, next, found, binding, faulted>>

IsHole(i) == \A p \in Extent(i) : space[p] = "free"

VerifyHole(i) ==
  /\ stage[i] = "released"
  /\ Moves(i, IF IsHole(i) THEN "verified" ELSE "failed")
  /\ UNCHANGED <<layout, mapping, word, next, found, binding, faulted>>

\* Walks the segments; the last one's step ends the stage.
WalksSegments(i, from, to) ==
  /\ stage[i] = from /\ next \in DOMAIN Segments(i)
  /\ next' = IF next = Len(Segments(i)) THEN 1 ELSE next + 1
  /\ IF next = Len(Segments(i)) THEN Moves(i, to) ELSE UNCHANGED stage

MapSegment(i) ==
  /\ WalksSegments(i, "verified", "mapped")
  /\ LET pages == Segments(i)[next].pages IN
       /\ space' = [p \in Pages |-> IF p \in pages THEN i ELSE space[p]]
       /\ protection' = [p \in Pages |-> IF p \in pages THEN "rw-" ELSE protection[p]]
       /\ word' = [word EXCEPT ![i] = [w \in DOMAIN @ |->
                     IF Words(i)[w].pages \cap pages # {} THEN Held(i, w) ELSE @[w]]]
  /\ UNCHANGED <<layout, found, binding, hosted, faulted>>

WordsThat(i, P(_)) == {w \in DOMAIN Words(i) : P(Words(i)[w])}
InOrder(ws) == SetToSortSeq(ws, <)

\* The mutant rebases a local stub's relative jump too.
IsBoundHereOrStub(i, x) ==
  x.kind \in {"pointer", "stub"} /\ (x.use = "defined" \/ (x.use = "local" /\ SlideOf(i) # 0))

\* A local pointer holds its own image's address and moves with it, and a
\* defined one is given its target; absolute entries and local stubs stay.
IsBoundHere(i, x) ==
  \/ x.kind \in {"pointer", "stub"} /\ x.use = "defined"
  \/ x.kind = "pointer" /\ x.use = "local" /\ SlideOf(i) # 0

BoundHere(i, w) ==
  IF Words(i)[w].use = "local" THEN Address(word[i][w].at + SlideOf(i)) ELSE Address(Symbol + SlideOf(i))

IsImport(x) == x.kind \in {"pointer", "stub"} /\ x.use = "undefined"

CollectIndirect(i) ==
  /\ stage[i] = "mapped"
  /\ LET wanted == WordsThat(i, IsImport) IN
       IF Cardinality(wanted) > ImportCapacity
         THEN Moves(i, "failed") /\ UNCHANGED <<word, imports, faulted>>
         ELSE /\ Moves(i, "indirect")
              /\ imports' = [imports EXCEPT ![i] = InOrder(wanted)]
              /\ Writes(i, {w \in DOMAIN Words(i) : IsBoundHere(i, Words(i)[w])}, LAMBDA w : BoundHere(i, w))
  /\ UNCHANGED <<layout, mapping, next, relocations, binding>>

IsLeft(x) == x.kind = "data" /\ x.use = "undefined"
IsAdded(x) == x.kind = "data" /\ x.use = "defined"
Added(i, w) == Address(word[i][w].at + Symbol + SlideOf(i))

CollectExternal(i) ==
  /\ stage[i] = "indirect"
  /\ Moves(i, "external")
  /\ relocations' = [relocations EXCEPT ![i] = InOrder(WordsThat(i, IsLeft))]
  /\ Writes(i, WordsThat(i, IsAdded), LAMBDA w : Added(i, w))
  /\ UNCHANGED <<layout, mapping, next, imports, binding>>

IsRebased(x) == x.kind = "data" /\ x.use = "local"

CollectLocal(i) ==
  /\ stage[i] = "external"
  /\ Moves(i, "collected")
  /\ IF SlideOf(i) = 0 THEN UNCHANGED <<word, faulted>>
       ELSE Writes(i, WordsThat(i, IsRebased), LAMBDA w : Address(word[i][w].at + SlideOf(i)))
  /\ UNCHANGED <<layout, mapping, next, found, binding>>

Protect(i) ==
  /\ WalksSegments(i, "collected", "loaded")
  /\ protection' = [p \in Pages |-> IF p \in Segments(i)[next].pages
                                      THEN Segments(i)[next].protection ELSE protection[p]]
  /\ UNCHANGED <<layout, space, word, found, binding, hosted, faulted>>

(***************************************************************************)
(* The bridge: build_transition_bridge and bind_companion_imports          *)
(***************************************************************************)

Import(i, n) == Words(i)[imports[i][n]]
HasName(name) == \E d \in DOMAIN dynamic : dynamic[d] = name
HasThunk(name) == HasName(name) \/ Len(dynamic) < DynamicRoom
WithThunk(name) == IF HasName(name) THEN dynamic ELSE Append(dynamic, name)
ThunkOf(name) == CHOOSE d \in DOMAIN WithThunk(name) : WithThunk(name)[d] = name
Dynamic(name) == [to |-> "code", at |-> ThunkRoom + ThunkOf(name)]

WalksImports(i, from, to) ==
  /\ stage[i] = from
  /\ IF next <= Len(imports[i]) THEN next' = next + 1 /\ UNCHANGED stage ELSE next' = 1 /\ Moves(i, to)

BuildStub ==
  /\ WalksImports("game", "loaded", "stubs")
  /\ IF next <= Len(imports["game"])
       THEN IF Import("game", next).kind = "stub"
              THEN /\ code' = [code EXCEPT ![next] = [of |-> "import", index |-> next]]
                   /\ Patches("game", imports["game"][next], [to |-> "code", at |-> next])
              ELSE UNCHANGED <<code, protection, window, word>>
       ELSE ClosesWindow /\ UNCHANGED <<code, word>>
  /\ UNCHANGED <<layout, space, found, dynamic, cells, hosted, ran, faulted>>

\* The dynamic thunks, and native code in the thunks of the hot imports.
BuildThunks ==
  /\ stage["game"] = "stubs"
  /\ Moves("game", "thunks")
  /\ code' = [s \in Slots |->
       CASE s > ThunkRoom /\ s <= ThunkRoom + DynamicRoom -> [of |-> "dynamic", index |-> s - ThunkRoom]
         [] s <= Len(imports["game"]) /\ code[s].of = "import" /\ Import("game", s).name \in Natives ->
              [of |-> "native", index |-> Import("game", s).name]
         [] OTHER -> code[s]]
  /\ UNCHANGED <<layout, mapping, word, next, found, window, dynamic, cells, ran, faulted>>

\* A name the game reads keeps its data cell, a name it only calls borrows
\* the thunk of its stub or gets a dynamic one, and an object is itself.
Borrowed(name) ==
  {n \in DOMAIN imports["game"] : Import("game", n).kind = "stub" /\ Import("game", n).name = name}

PointerValue(name) ==
  IF ClassOf[name] = "object" THEN [to |-> "object", at |-> name]
  ELSE IF Borrowed(name) # {} THEN [to |-> "code", at |-> CHOOSE n \in Borrowed(name) : \A m \in Borrowed(name) : n <= m]
  ELSE IF ClassOf[name] = "function" /\ HasThunk(name) THEN Dynamic(name)
  ELSE [to |-> "cell", at |-> cells]

TakesThunk(name) == ClassOf[name] = "function" /\ Borrowed(name) = {} /\ HasThunk(name)

BuildPointer ==
  /\ WalksImports("game", "thunks", "bound")
  /\ IF next <= Len(imports["game"]) /\ Import("game", next).kind = "pointer"
       THEN LET name == Import("game", next).name IN
              /\ cells < CellRoom
              /\ cells' = cells + 1
              /\ Writes("game", {imports["game"][next]}, LAMBDA w : PointerValue(name))
              /\ dynamic' = IF TakesThunk(name) THEN WithThunk(name) ELSE dynamic
       ELSE UNCHANGED <<cells, word, dynamic, faulted>>
  /\ UNCHANGED <<layout, mapping, found, window, code, ran>>

\* The companion's stubs and callable pointers get dynamic thunks; what it
\* reads gets its value in a word of its own, and a vtable is left alone.
IsLeftAlone(x) == x.kind = "pointer" /\ ClassOf[x.name] = "opaque"
NeedsThunk(x) == x.kind = "stub" \/ ClassOf[x.name] = "function"

BindImport ==
  /\ WalksImports("companion", "loaded", "bound")
  /\ IF next <= Len(imports["companion"])
       THEN LET x == Import("companion", next)
                w == imports["companion"][next] IN
            IF IsLeftAlone(x) THEN UNCHANGED <<word, window, protection, dynamic>>
            ELSE IF NeedsThunk(x)
              THEN /\ HasThunk(x.name)
                   /\ Patches("companion", w, Dynamic(x.name))
                   /\ dynamic' = WithThunk(x.name)
              ELSE /\ Patches("companion", w, [to |-> ClassOf[x.name], at |-> x.name])
                   /\ UNCHANGED dynamic
       ELSE ClosesWindow /\ UNCHANGED <<word, dynamic>>
  /\ UNCHANGED <<layout, space, found, code, cells, hosted, ran, faulted>>

\* What a name stands for is added to what the word holds.
Past(target, v) == [to |-> "past", at |-> <<target, v>>]

\* The relocations left to the runtime, after the segments are protected: the
\* run-time type and class objects are allocated, any other name is a thunk.
Relocate(i) ==
  /\ stage[i] = "bound"
  /\ IF next <= Len(relocations[i])
       THEN LET w == relocations[i][next]
                name == Words(i)[w].name IN
            /\ next' = next + 1
            /\ IF ClassOf[name] = "object"
                 THEN /\ Writes(i, {w}, LAMBDA v : Past([to |-> "object", at |-> name], word[i][v]))
                      /\ UNCHANGED dynamic
               ELSE IF HasThunk(name)
                 THEN /\ Writes(i, {w}, LAMBDA v : Past(Dynamic(name), word[i][v]))
                      /\ dynamic' = WithThunk(name)
                 ELSE UNCHANGED <<word, faulted, dynamic>>
            /\ UNCHANGED stage
       ELSE next' = 1 /\ Moves(i, IF i = "game" THEN "relocated" ELSE "ready")
            /\ UNCHANGED <<word, faulted, dynamic>>
  /\ UNCHANGED <<layout, mapping, found, window, code, cells, ran>>

(***************************************************************************)
(* game_loader.c                                                           *)
(***************************************************************************)

\* A title's patches: each checks the bytes it replaces, and stops the start
\* if they are not there.
IsSite(x) == x.kind = "site"
Recognized == \A w \in WordsThat("game", IsSite) : Words("game")[w].use = "expected"

InstallPatches ==
  /\ stage["game"] = "relocated"
  /\ LET sites == WordsThat("game", IsSite) IN
       IF Recognized
         THEN /\ Moves("game", "patched")
              /\ word' = [word EXCEPT !["game"] = [w \in DOMAIN @ |->
                            IF w \in sites THEN [to |-> "patch", at |-> w] ELSE @[w]]]
              /\ protection' = [p \in Pages |-> IF \E w \in sites : p \in Words("game")[w].pages
                                                  THEN "r-x" ELSE protection[p]]
         ELSE Moves("game", "failed") /\ UNCHANGED <<word, protection>>
  /\ UNCHANGED <<layout, space, next, found, binding, hosted, faulted>>

\* The companion's initializers run as it is loaded, then the game's.  The
\* ownership stub's place is taken by the initializer it displaced, or by
\* nothing; one that traps ends the list.
Prepared(i) == IF i = "game" THEN "patched" ELSE "ready"
Turn(i) == i = "game" /\ HasCompanion => stage["companion"] = "done"

RunInitializer(i) ==
  /\ stage[i] = Prepared(i) /\ Turn(i)
  /\ LET list == layout[i].initializers IN
       IF next <= Len(list)
         THEN /\ ran' = IF list[next] = "bare stub" THEN ran ELSE Append(ran, <<i, next>>)
              /\ next' = next + 1
              /\ \/ UNCHANGED stage
                 \/ list[next] # "bare stub" /\ Moves(i, IF i = "game" THEN "trapped" ELSE "done")
         ELSE Moves(i, "done") /\ next' = 1 /\ UNCHANGED ran
  /\ UNCHANGED <<layout, mapping, word, found, window, code, dynamic, cells, faulted>>

EnterMain ==
  /\ stage["game"] = "done"
  /\ Moves("game", "main")
  /\ UNCHANGED <<layout, mapping, word, next, found, binding, faulted>>

ImagesNext ==
  \/ \E i \in Images :
       \/ Inspect(i) \/ Release(i) \/ VerifyHole(i) \/ MapSegment(i)
       \/ CollectIndirect(i) \/ CollectExternal(i) \/ CollectLocal(i) \/ Protect(i)
       \/ Relocate(i) \/ RunInitializer(i) \/ Fails(i)
  \/ \E p \in Pages : HostMaps(p)
  \/ BuildStub \/ BuildThunks \/ BuildPointer \/ BindImport \/ InstallPatches \/ EnterMain

ImagesSpec == ImagesInit /\ [][ImagesNext]_imageVars

-----------------------------------------------------------------------------

ImagesTypeOK ==
  /\ space \in [Pages -> Images \cup {"pinned", "free", "host"}]
  /\ protection \in [Pages -> {"---", "r--", "rw-", "r-x", "rwx"}]
  /\ DOMAIN word = Images /\ DOMAIN stage = Images
  /\ cells \in 0..CellRoom /\ Len(dynamic) <= DynamicRoom
  /\ \A o \in window : o.page \in Pages

Mapped(i) == stage[i] \notin {"absent", "inspected", "released", "verified", "failed"}
Loaded(i) == Mapped(i) /\ stage[i] \notin {"mapped", "indirect", "external", "collected"}
Bound(i) == stage[i] \in {"relocated", "patched", "ready", "done", "main", "trapped"}

\* Where a bound word leads: the code that answers its own name, the object
\* or the value itself, or a data cell no other name has.
Leads(v, name) ==
  CASE v.to = "code" -> LET c == code[v.at] IN
         CASE c.of = "import" -> Import("game", c.index).name = name
           [] c.of = "dynamic" -> c.index \in DOMAIN dynamic /\ dynamic[c.index] = name
           [] c.of = "native" -> c.index = name
           [] OTHER -> FALSE
    [] v.to = "cell" -> ClassOf[name] \in {"value", "opaque"}
    [] OTHER -> v.to = ClassOf[name] /\ v.at = name

\* What dyld would have left in a word.
Right(i, w) ==
  LET x == Words(i)[w]
      held == x.held IN
    CASE x.use = "absolute" -> word[i][w] = Address(held)
      [] x.use = "local" -> word[i][w] = Address(IF x.kind = "stub" THEN held ELSE held + SlideOf(i))
      [] x.use = "defined" -> word[i][w] = Address(SlideOf(i) + Symbol + (IF x.kind = "data" THEN held ELSE 0))
      [] x.use = "undefined" /\ x.kind = "data" ->
           word[i][w].to = "past" /\ word[i][w].at[2] = Address(held) /\ Leads(word[i][w].at[1], x.name)
      [] x.use = "undefined" /\ x.kind # "data" ->
           \/ Leads(word[i][w], x.name)
           \/ i = "companion" /\ IsLeftAlone(x) /\ word[i][w] = Address(held)
      [] OTHER -> word[i][w] \in {Address(held), [to |-> "patch", at |-> w]}

\* Loading and binding come out as dyld's would: nothing is written while its
\* page is read-only; each word has its value once and each name its own
\* answer when the image is bound; and no initializer of either image runs
\* before both are.
WordsSound ==
  /\ ~ faulted
  /\ \A i \in Images : Bound(i) => \A w \in DOMAIN Words(i) : Right(i, w)
  /\ ran # <<>> => Bound("game") /\ (HasCompanion => Bound("companion"))

\* What the steps leave of the address space: the segments have their own
\* protections, but for the pages the window holds open, at most two of them;
\* a mapping of the host's is never taken over; and the reservation above the
\* images stays.  A page left open would split the region around it, and
\* Steam's decryptor finds its data by regions.
PagesSound ==
  /\ Cardinality(window) <= 2
  /\ \A i \in Images : Loaded(i) =>
       \A p \in PagesOf(i) : \/ \E o \in window : o.page = p /\ protection[p] = "rwx"
                             \/ /\ ~ \E o \in window : o.page = p
                                /\ protection[p] = FinalProtection(i, p)
  /\ window # {} => \E i \in Images : stage[i] = "loaded"
  /\ \A p \in hosted : space[p] = "host"
  /\ \A p \in Pinned : space[p] # "pinned" => \E i \in Images : p \in Released(i)

=============================================================================
