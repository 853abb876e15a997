------------------------------- MODULE CgObjects -------------------------------
(***************************************************************************)
(* The guest's view of the Cg library in compat_runtime.c: a handle for    *)
(* every pointer Cg returns, kept for ever, and a guest copy of every      *)
(* string, found again by the host pointer and the program that owns it    *)
(* and refreshed when the host's buffer holds something else.              *)
(*                                                                         *)
(* Cg is external: a program has an address and up to two strings, each in *)
(* a buffer of its own; all are freed with the program and handed to the   *)
(* next.  A string is its length in bytes and a content of that length.    *)
(***************************************************************************)
EXTENDS Integers, Sequences, FiniteSets

CONSTANTS
  CgThreads,
  Programs,    \* addresses Cg puts programs at
  Buffers,     \* addresses Cg puts listings at
  Context,     \* address of the context's last listing, which Cg writes over
  Listings,    \* what a listing may be: [size, text]
  GuestBlocks  \* guest memory for the copies

CgAssumption ==
  /\ Listings \subseteq [size : Nat \ {0}, text : Nat]
  /\ IsFiniteSet(Programs) /\ IsFiniteSet(Buffers) /\ Context \notin Buffers /\ GuestBlocks \subseteq Nat \ {0}

Nothing == [size |-> 0, text |-> 0]

VARIABLES
  cgObjects,  \* cg_objects: program addresses, a handle is a position
  cgStrings,  \* cg_strings: [host, owner, guest, capacity]
  buffers,    \* host: per program address its buffers; no entry when it is not live
  listing,    \* host: per buffer, what it holds
  copies,     \* guest memory: the block of each copy and its content
  cgDropping, \* per thread: the handle whose strings it has yet to release, or 0
  cgGiven     \* history: [owner, host, guest, listing] for strings of live programs

cgVars == <<cgObjects, cgStrings, buffers, listing, copies, cgDropping, cgGiven>>

Live == DOMAIN buffers

CgInit ==
  /\ cgObjects = <<>>
  /\ cgStrings = <<>>
  /\ buffers = <<>>
  /\ listing = [b \in Buffers \cup {Context} |-> Nothing]
  /\ copies = <<>>
  /\ cgDropping = [t \in CgThreads |-> 0]
  /\ cgGiven = {}

Positions(p) == {i \in DOMAIN cgObjects : cgObjects[i] = p}

\* guest_handle_for_cg_object: the position the address has, or a new one.
Registers(p) ==
  cgObjects' = IF Positions(p) # {} THEN cgObjects ELSE Append(cgObjects, p)

CreateProgram(t) ==
  /\ cgDropping[t] = 0
  /\ \E p \in Programs \ Live, B \in SUBSET (Buffers \ UNION {buffers[q] : q \in Live}),
        l \in Listings :
       /\ Cardinality(B) \in {1, 2}
       /\ buffers' = [q \in Live \cup {p} |-> IF q = p THEN B ELSE buffers[q]]
       /\ listing' = [b \in DOMAIN listing |-> IF b \in B \cup {Context} THEN l ELSE listing[b]]
       /\ Registers(p)
  /\ UNCHANGED <<cgStrings, copies, cgDropping, cgGiven>>

Entry(host, owner) ==
  {i \in DOMAIN cgStrings : cgStrings[i].host = host /\ cgStrings[i].owner = owner}

FreshBlock == CHOOSE g \in GuestBlocks \ DOMAIN copies :
                \A k \in GuestBlocks \ DOMAIN copies : g <= k

Without(f, x) == [y \in DOMAIN f \ {x} |-> f[y]]
With(f, x, v) == [y \in DOMAIN f \cup {x} |-> IF y = x THEN v ELSE f[y]]

\* What the guest was given before for the same buffer and owner is replaced.
Gives(host, owner, block) ==
  /\ copies' = With(Without(copies, block.old), block.new, listing[host])
  /\ cgGiven' = {g \in cgGiven : g.owner # owner \/ g.host # host}
       \cup {[owner |-> owner, host |-> host, guest |-> block.new, listing |-> listing[host]]}

\* What guest_cg_string_owned does with an entry at i, new or known: a copy that
\* is large enough is written over, else its block is reallocated, which moves it.
\* A block that cannot be had leaves the entry, and the guest is answered 0.
Refreshes(strings, i) ==
  LET e == strings[i]
      size == listing[e.host].size
  IN \/ /\ e.capacity >= size
        /\ cgStrings' = strings
        /\ Gives(e.host, e.owner, [old |-> e.guest, new |-> e.guest])
     \/ /\ e.capacity < size /\ DOMAIN copies # GuestBlocks
        /\ cgStrings' = [strings EXCEPT ![i] = [e EXCEPT !.guest = FreshBlock, !.capacity = size]]
        /\ Gives(e.host, e.owner, [old |-> e.guest, new |-> FreshBlock])
     \/ /\ e.capacity < size
        /\ cgStrings' = strings
        /\ UNCHANGED <<copies, cgGiven>>

NewEntry(host, owner) == [host |-> host, owner |-> owner, guest |-> 0, capacity |-> 0]

\* guest_cg_string_owned
GivesCopy(host, owner) ==
  LET found == Entry(host, owner)
  IN IF found # {} THEN Refreshes(cgStrings, CHOOSE j \in found : \A k \in found : j <= k)
     ELSE Refreshes(Append(cgStrings, NewEntry(host, owner)), Len(cgStrings) + 1)

\* cgGetProgramString, of a live program, and cgGetLastListing, which nobody owns.
GetProgramString(t) ==
  /\ cgDropping[t] = 0
  /\ \E h \in DOMAIN cgObjects : cgObjects[h] \in Live /\ \E b \in buffers[cgObjects[h]] : GivesCopy(b, h)
  /\ UNCHANGED <<cgObjects, buffers, listing, cgDropping>>

GetLastListing(t) ==
  /\ cgDropping[t] = 0
  /\ listing[Context] # Nothing
  /\ GivesCopy(Context, 0)
  /\ UNCHANGED <<cgObjects, buffers, listing, cgDropping>>

\* cgDestroyProgram: Cg frees the program and its buffer.
DestroyProgram(t) ==
  /\ cgDropping[t] = 0
  /\ \E h \in DOMAIN cgObjects :
       /\ cgObjects[h] \in Live
       /\ buffers' = Without(buffers, cgObjects[h])
       /\ listing' = [b \in DOMAIN listing |->
                        IF b \in buffers[cgObjects[h]] THEN Nothing ELSE listing[b]]
       /\ cgDropping' = [cgDropping EXCEPT ![t] = h]
       /\ cgGiven' = {g \in cgGiven : g.owner # h}
  /\ UNCHANGED <<cgObjects, cgStrings, copies>>

Mine(h) == {i \in DOMAIN cgStrings : cgStrings[i].owner = h}

\* One that steps over the entry it has just moved into a gap.
KeptSkipping(h) ==
  LET first == CHOOSE i \in Mine(h) : \A j \in Mine(h) : i <= j
  IN IF Mine(h) = {} THEN cgStrings
     ELSE SubSeq(cgStrings, 1, first - 1) \o SubSeq(cgStrings, first + 1, Len(cgStrings))

\* release_cg_program_strings: the last entry is moved into a gap and looked at
\* there, which leaves those of the other owners, in another order.
Kept(h) ==
  LET left == DOMAIN cgStrings \ Mine(h)
      order == CHOOSE f \in [1 .. Cardinality(left) -> left] :
                 \A i, j \in DOMAIN f : f[i] = f[j] => i = j
  IN [i \in DOMAIN order |-> cgStrings[order[i]]]

Releases(t) ==
  /\ cgDropping[t] # 0
  /\ cgStrings' = Kept(cgDropping[t])
  /\ copies' = [g \in {cgStrings'[i].guest : i \in DOMAIN cgStrings'} \ {0} |-> copies[g]]
  /\ cgDropping' = [cgDropping EXCEPT ![t] = 0]
  /\ UNCHANGED <<cgObjects, buffers, listing, cgGiven>>

CgNext ==
  \E t \in CgThreads :
    \/ CreateProgram(t) \/ GetProgramString(t) \/ GetLastListing(t)
    \/ DestroyProgram(t) \/ Releases(t)

CgSpec == CgInit /\ [][CgNext]_cgVars

-----------------------------------------------------------------------------
\* A string the guest was given for a program that is still there has its content
\* still, though the program's address, its handle and its buffer have served
\* others before; and the copies are those of programs that exist or are being
\* destroyed: "this keeps the guest heap bounded".
CgSound ==
  /\ \A i, j \in DOMAIN cgObjects : cgObjects[i] = cgObjects[j] => i = j
  /\ \A g \in cgGiven : g.guest \in DOMAIN copies /\ copies[g.guest] = g.listing
  /\ \A i, j \in DOMAIN cgStrings :
       i # j /\ cgStrings[i].guest # 0 => cgStrings[i].guest # cgStrings[j].guest
  /\ \A i \in {j \in DOMAIN cgStrings : cgStrings[j].owner # 0} :
       \/ cgObjects[cgStrings[i].owner] \in Live
       \/ \E t \in CgThreads : cgDropping[t] = cgStrings[i].owner

-----------------------------------------------------------------------------
(* Why it holds, where one thread uses Cg.  The table has one entry for a  *)
(* buffer and an owner; what the guest has of it is that entry's block;    *)
(* and the buffers of live programs are apart and hold listings.           *)
OneCgThread == \A t, u \in CgThreads : t = u

CgTyped ==
  /\ cgObjects \in Seq(Programs)
  /\ cgStrings \in Seq([host : Buffers \cup {Context}, owner : Nat, guest : GuestBlocks \cup {0},
                        capacity : Nat])
  /\ Live \subseteq Programs /\ \A p \in Live : buffers[p] \subseteq Buffers
  /\ listing \in [Buffers \cup {Context} -> Listings \cup {Nothing}]
  /\ DOMAIN copies \subseteq GuestBlocks
  /\ cgDropping \in [CgThreads -> Nat]

BuffersApart ==
  /\ \A p, q \in Live : p # q => buffers[p] \cap buffers[q] = {}
  /\ \A p \in Live : \A b \in buffers[p] : listing[b] \in Listings

EntriesApart ==
  /\ \A i, j \in DOMAIN cgStrings :
       cgStrings[i].host = cgStrings[j].host /\ cgStrings[i].owner = cgStrings[j].owner => i = j
  /\ \A i \in DOMAIN cgStrings :
       IF cgStrings[i].guest = 0 THEN cgStrings[i].capacity = 0
       ELSE cgStrings[i].guest \in DOMAIN copies

GivenKnown ==
  /\ \A g \in cgGiven : \E i \in DOMAIN cgStrings :
       cgStrings[i].host = g.host /\ cgStrings[i].owner = g.owner /\ cgStrings[i].guest = g.guest
  /\ \A t \in CgThreads : cgDropping[t] # 0 => \A g \in cgGiven : g.owner # cgDropping[t]

OwnersKnown == \A i \in DOMAIN cgStrings : cgStrings[i].owner \in 0 .. Len(cgObjects)

CgInv == CgTyped /\ BuffersApart /\ EntriesApart /\ GivenKnown /\ OwnersKnown /\ CgSound

=============================================================================
