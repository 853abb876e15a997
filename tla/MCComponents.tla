----------------------------- MODULE MCComponents -----------------------------
(* Components with the instances TLC checks. *)
EXTENDS Components, TLC

CONSTANT FirstOwner   \* one of Owners, whose requests differ

Symmetry == Permutations(Owners \ {FirstOwner})

OneGuest == {CHOOSE t \in Guests : TRUE}

Installations == {"original", "silicon"} \X {"none", "original"}

\* One owner asks for blocks of two sizes from two sites, the others for one.
Asked == [o \in Owners |->
  IF o = FirstOwner THEN {[size |-> 1, site |-> 1], [size |-> 2, site |-> 2]}
               ELSE {[size |-> 1, site |-> 2]}]

ObjectOwners == <<1, 2, 2>>

Texts == {[size |-> 1, text |-> 1], [size |-> 2, text |-> 2]}

\* The images: the game with one word of each kind of entry, in every use of its
\* stubs and pointers; or a plain game with a companion likewise.
Word(kind, use, pages, name) ==
  [kind |-> kind, use |-> use, pages |-> pages, name |-> name, held |-> 1]
Segment(pages, mode) == [pages |-> pages, protection |-> mode]
Kinds == [read |-> "value", call |-> "function", obj |-> "object", vt |-> "opaque",
          hot |-> "function"]
StubUses == {<<"local", "call">>, <<"defined", "call">>, <<"undefined", "call">>,
             <<"undefined", "hot">>}
PointerUses == {<<"absolute", "vt">>, <<"local", "vt">>, <<"defined", "vt">>}
               \cup {<<"undefined", n>> : n \in {"read", "call", "obj", "vt"}}
GameWords ==
  {<<Word("stub", s[1], {2, 3}, s[2]), Word("stub", t[1], {3}, t[2]),
     Word("pointer", p[1], {4}, p[2]), Word("pointer", q[1], {4}, q[2]),
     Word("data", "defined", {2}, "call"), Word("data", "undefined", {4}, "obj"),
     Word("site", "expected", {2}, "vt")>>
     : s \in StubUses, t \in StubUses, p \in PointerUses, q \in PointerUses}
PlainWords(site) ==
  <<Word("stub", "undefined", {2, 3}, "call"), Word("pointer", "undefined", {4}, "read"),
    Word("site", site, {2}, "vt")>>
CompanionWords ==
  {<<Word("stub", s[1], {6}, s[2]), Word("stub", t[1], {6, 7}, t[2]),
     Word("pointer", p[1], {7}, p[2]), Word("data", "defined", {6}, "call"),
     Word("data", "local", {8}, "call"), Word("data", "undefined", {7}, "call")>>
     : s \in StubUses, t \in StubUses, p \in PointerUses}
Pair(game, companion, own, other) ==
  [game |-> [segments |-> <<Segment({2}, "r-x"), Segment({3}, "r-x"), Segment({4}, "rw-")>>,
             words |-> game, initializers |-> own],
   companion |-> [segments |-> <<Segment({6}, "r-x"), Segment({7}, "rw-"), Segment({8}, "r--")>>,
                  words |-> companion, initializers |-> other]]
Pairs ==
  {Pair(g, <<>>, <<"own", "bare stub">>, <<>>) : g \in GameWords \cup {PlainWords("unexpected")}}
  \cup {Pair(PlainWords("expected"), c, <<"own">>, <<"own">>) : c \in CompanionWords}

\* One word of each kind that steamloader's and the crypto bundle's tables name.
LoaderWords == [l |-> "local", s |-> "stub", z |-> "lazy", zl |-> "lazy local",
                nl |-> "nonlazy local", t |-> "task self", g |-> "guard"]
BundleWords == [l |-> "local", s |-> "stub", z |-> "lazy", zl |-> "lazy local",
                nl |-> "nonlazy local", t |-> "task self", p |-> "port"]

\* Saves with no plants and with plants; eighteen plants are as long in one
\* layout as in the other with more tail records, so that both may fit.
Save(count, tail, mac, windows, spare) ==
  [count |-> count, tail |-> tail, asOther |-> [mac |-> mac, windows |-> windows],
   spare |-> spare]
Saves == {Save(0, 1, 1, 1, FALSE), Save(2, 0, 0, 0, FALSE), Save(18, 2, 9, 9, FALSE),
          Save(18, 9, 2, 16, FALSE), Save(2, 1, 1, 1, TRUE), Save(18, 2, 9, 3, FALSE)}

\* The game's import and a dynamic symbol, each of every kind in some table.
Name(spelling, known, variant, fast) ==
  [base |-> spelling, known |-> known, variant |-> variant, fast |-> fast]
ImportTable(game, symbol) == (<<"image", 0>> :> game) @@ (<<"dynamic", 0>> :> symbol)
ImportTables ==
  LET usleep == Name("_usleep", {"runtime"}, TRUE, FALSE)
      openFile == Name("_open", {"libc"}, TRUE, FALSE)
      flush == Name("_glFlush", {"objc"}, FALSE, FALSE)
      enable == Name("_glEnable", {"objc"}, FALSE, TRUE)
      startGraph == Name("_AUGraphStart", {"audio"}, FALSE, FALSE)
      divide == Name("___udivdi3", {"libc"}, FALSE, TRUE)
      memcpy == Name("_memcpy", {"override", "runtime"}, FALSE, TRUE)
      device == Name("_Direct3DCreate9", {"companion"}, FALSE, FALSE)
      strange == Name("_strange", {}, FALSE, FALSE) IN
    {ImportTable(usleep, flush), ImportTable(usleep, openFile),
     ImportTable(openFile, startGraph), ImportTable(enable, usleep),
     ImportTable(startGraph, enable), ImportTable(divide, memcpy), ImportTable(device, strange)}

=============================================================================
