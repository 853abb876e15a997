---------------------------- MODULE SteamUnwrap ----------------------------
(***************************************************************************)
(* Recovering the game from Steam's wrapped copy.  build.py runs the       *)
(* loader on it until Steam answers; the loader maps Valve's steamloader   *)
(* and its crypto bundle into low memory, binds them to the host, lets     *)
(* their decryptor write the mapped game's __text, and writes a copy of    *)
(* the file with that text and the retail shape (steam_unwrap.c).          *)
(*                                                                         *)
(* Valve's code is external: it asks for its imports in the order below,   *)
(* and decrypts only once Steam has confirmed.  Its call ends where it     *)
(* returns or at its first unanswered import, which the loader expects     *)
(* after the decryption but does not look for: it may come half way.       *)
(***************************************************************************)
EXTENDS Naturals, FiniteSets

CONSTANTS
  TextPages,     \* the pages of __text
  LoaderCells,   \* the words steamloader's tables name: [cells -> kinds]
  BundleCells,   \* the crypto bundle's
  MaxAttempts    \* how often build.py runs the loader before its deadline

Kinds == {"local", "stub", "lazy", "lazy local", "nonlazy local", "task self", "guard", "port"}

UnwrapAssumption ==
  /\ MaxAttempts \in Nat \ {0}
  /\ \A c \in DOMAIN LoaderCells : LoaderCells[c] \in Kinds
  /\ \A c \in DOMAIN BundleCells : BundleCells[c] \in Kinds

VARIABLES
  unwrap,     \* where the loader is
  text,       \* mapped __text: page -> "cipher", "clear"
  opened,     \* the pages of it the decryptor has made writable
  cell,       \* steamloader's words: how often slid, and what they hold
  bundle,     \* g_bundle: [image, linked, cells]
  confirmed,  \* Steam has answered the bundle's handshake
  shims,      \* the named-import override is installed
  staged,     \* the file the loader writes: "none", "short" or what it holds
  published,  \* the game image build.py leaves: "none" or what it holds
  attempts

unwrapVars == <<unwrap, text, opened, cell, bundle, confirmed, shims, staged, published, attempts>>

Raw == [slides |-> 0, holds |-> "file"]
Unlinked == [image |-> FALSE, linked |-> FALSE, cells |-> [c \in DOMAIN BundleCells |-> Raw]]

\* A fresh process on the wrapped copy.
Fresh ==
  /\ unwrap = "start"
  /\ text = [p \in TextPages |-> "cipher"]
  /\ opened = {}
  /\ cell = [c \in DOMAIN LoaderCells |-> Raw]
  /\ bundle = Unlinked
  /\ confirmed = FALSE /\ shims = FALSE

UnwrapInit == Fresh /\ staged = "none" /\ published = "none" /\ attempts = 1

files == <<staged, published, attempts>>
guest == <<text, opened, bundle, confirmed>>

\* Local relocations slide every word that holds an address of the image's.
Slid(kinds, cells) ==
  [c \in DOMAIN cells |-> IF kinds[c] \in {"local", "stub", "lazy", "lazy local", "nonlazy local"}
                            THEN [cells[c] EXCEPT !.slides = @ + 1] ELSE cells[c]]

\* Then the pointers are bound, in steamloader a local non-lazy one to the
\* symbol lookup its decryptor calls; a stub is already right.
BoundTo(kind, lookup) ==
  CASE kind = "lazy" -> "thunk"
    [] kind = "nonlazy local" /\ lookup -> "lookup"
    [] kind \in {"task self", "guard", "port"} -> "value"
    [] OTHER -> "file"

Linked(kinds, cells, lookup) ==
  [c \in DOMAIN cells |-> IF BoundTo(kinds[c], lookup) = "file" THEN Slid(kinds, cells)[c]
                            ELSE [slides |-> 0, holds |-> BoundTo(kinds[c], lookup)]]

Stops == unwrap' = "failed" /\ UNCHANGED <<guest, cell, shims, files>>

FailsToLoad == unwrap = "start" /\ Stops    \* no steamloader, no i386 slice, no constructor

LoadSteamloader ==
  /\ unwrap = "start"
  /\ unwrap' = "running"
  /\ cell' = Linked(LoaderCells, cell, TRUE)
  /\ shims' = TRUE
  /\ UNCHANGED <<guest, files>>

InGuest == unwrap = "running" /\ UNCHANGED <<unwrap, cell, shims, files>>

\* vm_protect falls back to a protection that lets the decryptor write on.
ShimProtect(p) == InGuest /\ opened' = opened \cup {p} /\ UNCHANGED <<text, bundle, confirmed>>

ShimCreateImage ==
  /\ InGuest /\ ~ bundle.image
  /\ bundle' = [bundle EXCEPT !.image = TRUE]
  /\ UNCHANGED <<text, opened, confirmed>>

\* NSLinkModule: without an image it fails, a second time it does nothing.
ShimLink ==
  /\ InGuest
  /\ bundle' = IF bundle.image /\ ~ bundle.linked
                 THEN [image |-> TRUE, linked |-> TRUE, cells |-> Linked(BundleCells, bundle.cells, FALSE)]
                 ELSE bundle
  /\ UNCHANGED <<text, opened, confirmed>>

\* NSLookupSymbolInModule answers only for a linked bundle; through it the
\* game's owner is confirmed over Mach messages to the running Steam.
ShimHandshake ==
  /\ InGuest /\ bundle.linked
  /\ confirmed' = TRUE
  /\ UNCHANGED <<text, opened, bundle>>

Decrypts(p) ==
  /\ InGuest /\ confirmed /\ p \in opened
  /\ text' = [text EXCEPT ![p] = "clear"]
  /\ UNCHANGED <<opened, bundle, confirmed>>

\* The call returns or traps, wherever the decryptor is; a trap is only warned of.
LeavesGuest ==
  /\ unwrap = "running"
  /\ unwrap' = "left"
  /\ shims' = FALSE
  /\ UNCHANGED <<guest, cell, files>>

\* Valve's code calls exit when Steam does not know the owner; build.py takes
\* that for a refusal.
GuestExits ==
  /\ unwrap = "running"
  /\ unwrap' = "refused"
  /\ shims' = FALSE
  /\ UNCHANGED <<guest, cell, files>>

\* A fault in Valve's code ends the process, and with it the attempt.
GuestFaults ==
  /\ unwrap = "running"
  /\ unwrap' = "failed"
  /\ shims' = FALSE
  /\ UNCHANGED <<guest, cell, files>>

\* The mutant writes whatever the memory holds.
NeverEncrypted == FALSE

LeftEncrypted == \A p \in TextPages : text[p] = "cipher"

TextIs ==
  IF \A p \in TextPages : text[p] = "clear" THEN "retail"
  ELSE IF \A p \in TextPages : text[p] = "cipher" THEN "wrapped" ELSE "mixed"

\* write_clean_image: the write may come up short.
WriteImage ==
  /\ unwrap = "left"
  /\ IF LeftEncrypted THEN unwrap' = "refused" /\ UNCHANGED staged
     ELSE \/ unwrap' = "written" /\ staged' = TextIs
          \/ unwrap' = "failed" /\ staged' \in {staged, "short"}
  /\ UNCHANGED <<guest, cell, shims, published, attempts>>

\* build.py: a refusal is tried again until the deadline, any other failure
\* ends the build, and only what a successful run wrote is published.
Retry ==
  /\ unwrap = "refused" /\ attempts < MaxAttempts
  /\ attempts' = attempts + 1
  /\ unwrap' = "start"
  /\ text' = [p \in TextPages |-> "cipher"] /\ opened' = {} /\ confirmed' = FALSE
  /\ cell' = [c \in DOMAIN LoaderCells |-> Raw] /\ bundle' = Unlinked /\ shims' = FALSE
  /\ UNCHANGED <<staged, published>>

GivesUp == unwrap = "refused" /\ attempts = MaxAttempts /\ Stops

Publish ==
  /\ unwrap = "written"
  /\ unwrap' = "done"
  /\ published' = staged
  /\ staged' = "none"
  /\ UNCHANGED <<guest, cell, shims, attempts>>

UnwrapNext ==
  \/ FailsToLoad \/ LoadSteamloader
  \/ \E p \in TextPages : ShimProtect(p) \/ Decrypts(p)
  \/ ShimCreateImage \/ ShimLink \/ ShimHandshake \/ LeavesGuest \/ GuestExits \/ GuestFaults
  \/ WriteImage \/ Retry \/ GivesUp \/ Publish

UnwrapSpec == UnwrapInit /\ [][UnwrapNext]_unwrapVars

-----------------------------------------------------------------------------

UnwrapTypeOK ==
  /\ text \in [TextPages -> {"cipher", "clear"}] /\ opened \subseteq TextPages
  /\ staged \in {"none", "short", "retail", "mixed", "wrapped"}
  /\ published \in {"none", "short", "retail", "mixed", "wrapped"}
  /\ attempts \in 0..MaxAttempts

\* Each word of Valve's images is slid or bound, as dyld would have, and
\* never both.
IsRight(kinds, cells, lookup) ==
  \A c \in DOMAIN cells :
    cells[c] = CASE kinds[c] \in {"lazy", "task self", "guard", "port"} ->
                      [slides |-> 0, holds |-> IF kinds[c] = "lazy" THEN "thunk" ELSE "value"]
                 [] kinds[c] = "nonlazy local" /\ lookup -> [slides |-> 0, holds |-> "lookup"]
                 [] OTHER -> [slides |-> 1, holds |-> "file"]

\* What is published as the game's image is the text in the memory of the very
\* attempt that succeeded, though every attempt writes the same staging file: Steam
\* had confirmed in it, it is not the wrapped text and no write that came up short,
\* and it is the whole cleartext if the decryptor got to its end, which nothing
\* checks.  Valve's images are bound as dyld would when they run; and outside
\* their call the game's imports are not overridden.
UnwrapSound ==
  /\ published # "none" =>
       /\ unwrap = "done" /\ confirmed /\ ~ LeftEncrypted
       /\ published = TextIs /\ published \in {"retail", "mixed"}
  /\ unwrap = "running" => IsRight(LoaderCells, cell, TRUE)
  /\ bundle.linked => IsRight(BundleCells, bundle.cells, FALSE)
  /\ shims => unwrap = "running"

-----------------------------------------------------------------------------
(* Why it holds.  Before Steam has confirmed nothing is decrypted; what is *)
(* written is what the memory still holds when it is published; and no     *)
(* word of Valve's images is looked at but by the linking.                 *)
WordOf == [slides : Nat, holds : {"file", "thunk", "lookup", "value"}]
UnwrapInv ==
  /\ UnwrapTypeOK
  /\ unwrap \in {"start", "running", "left", "refused", "written", "failed", "done"}
  /\ bundle \in [image : BOOLEAN, linked : BOOLEAN, cells : [DOMAIN BundleCells -> WordOf]]
  /\ unwrap = "start" => Fresh
  /\ ~ confirmed => LeftEncrypted
  /\ ~ bundle.linked => bundle.cells = Unlinked.cells
  /\ unwrap = "written" => ~ LeftEncrypted /\ staged = TextIs
  /\ UnwrapSound

=============================================================================
