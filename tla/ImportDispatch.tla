---------------------------- MODULE ImportDispatch ----------------------------
(***************************************************************************)
(* lp32_dispatch_import: from the number of a bridged import to the host   *)
(* handler that answers it.  The handlers are asked in a fixed order by    *)
(* name; two memos per import number let later calls skip the asking.      *)
(* Handlers call the guest, which calls imports again, on the same thread, *)
(* and other threads dispatch at the same time: the memos are shared and   *)
(* written without a lock, the working state of a dispatch is per thread.  *)
(*                                                                         *)
(* A name is the set of handlers that know it.  What a handler computes is *)
(* left out: the fast handlers of ___udivdi3 and ___divdi3 answer zero for *)
(* a zero divisor, on which the first call's handler faults.               *)
(***************************************************************************)
EXTENDS Integers, Sequences, FiniteSets

CONSTANTS
  DispatchThreads,
  Tables,   \* BOUND: the import tables to check: functions of import numbers to names
  Depth     \* BOUND: dispatches inside one another on a thread

\* A number is of the image's table or of the dynamic symbols'; a name has the
\* handlers that know its base, a $ variant or not, and a direct handler or not.
Handlers == {"override", "companion", "libc", "runtime", "audio", "objc"}
Names == [base : STRING, known : SUBSET Handlers, variant : BOOLEAN, fast : BOOLEAN]

DispatchAssumption ==
  /\ Depth \in Nat \ {0}
  /\ \A table \in Tables : \A id \in DOMAIN table :
       /\ id \in {"image", "dynamic"} \X Nat /\ table[id] \in Names
       /\ {"audio", "objc"} \subseteq table[id].known => FALSE
       \* The direct handlers are of plain C names and of GL.
       /\ table[id].fast => ~ table[id].variant /\ table[id].known \cap {"companion", "audio"} = {}

VARIABLES
  table,    \* the import tables
  stages,   \* import_stage_table: from which stage on to ask
  direct,   \* fast_import_table: the direct handler
  base,     \* each thread's buffer for the name without its variant
  matched,  \* dispatch_name_matched of each thread
  frames    \* each thread's dispatches: [id, at, by, stage]

dispatchVars == <<table, stages, direct, base, matched, frames>>

\* A mutant takes the number of a dynamic symbol for one of the image's imports.
SlotOfIndex(id) == <<"image", id[2]>>
\* import_stage_slot and fast_import_slot.
Slot(id) == id

Slots == UNION {DOMAIN one : one \in Tables}
NoName == [base |-> "", known |-> {}, variant |-> FALSE, fast |-> FALSE]

DispatchInit ==
  /\ table \in Tables
  /\ stages = [s \in Slots |-> "unknown"]
  /\ direct = [s \in Slots |-> "unresolved"]
  /\ base = [t \in DispatchThreads |-> NoName]
  /\ matched = [t \in DispatchThreads |-> FALSE]
  /\ frames = [t \in DispatchThreads |-> <<>>]

Top(t) == frames[t][Len(frames[t])]
SetTop(t, frame) == frames' = [frames EXCEPT ![t][Len(frames[t])] = frame]
Busy(t, at) == frames[t] # <<>> /\ Top(t).at = at

\* A mutant has one buffer for all threads.
SharedBuffer(t) == CHOOSE one \in DispatchThreads : TRUE
\* The buffer is thread-local.
Buffer(t) == t

\* The guest calls an import: the direct handler runs, or its name is worked out,
\* a variant's in the thread's buffer.
Dispatch(t, id) ==
  LET fast == direct[Slot(id)] = "direct" IN
    /\ \/ frames[t] = <<>>
       \/ Busy(t, "handling") /\ Top(t).by \notin {"direct", "trap"} /\ Len(frames[t]) < Depth
    /\ frames' = [frames EXCEPT ![t] = Append(@,
         [id |-> id, at |-> IF fast THEN "handling" ELSE "named",
          by |-> IF fast THEN "direct" ELSE "nobody", stage |-> "unknown"])]
    /\ base' = IF ~ fast /\ table[id].variant THEN [base EXCEPT ![Buffer(t)] = table[id]] ELSE base
    /\ UNCHANGED <<table, stages, direct, matched>>

\* The handlers asked, in their order.
Order == <<"override", "companion", "libc", "runtime", "audio", "objc">>
FirstOf(known) ==
  IF known = {} THEN "trap"
  ELSE Order[CHOOSE i \in DOMAIN Order :
               Order[i] \in known /\ \A j \in 1 .. i - 1 : Order[j] \notin known]

Early == {"override", "companion", "libc"}
Stages == {"unknown", "audio", "objc"}
Before == [unknown |-> {}, audio |-> {"runtime"}, objc |-> {"runtime", "audio"}]

\* dispatch_named_import and dispatch_bridge_stages up to the handler: a stage
\* that is remembered leaves out the runtime's names, and the audio's too.
Chain(t) ==
  LET name == IF table[Top(t).id].variant THEN base[Buffer(t)] ELSE table[Top(t).id]
      early == name.known \cap Early # {}
      stage == stages[Slot(Top(t).id)]
      skipped == IF early THEN {} ELSE Before[stage]
      by == FirstOf(name.known \ skipped) IN
    /\ Busy(t, "named")
    /\ matched' = IF early THEN matched ELSE [matched EXCEPT ![t] = by = "runtime"]
    /\ SetTop(t, [Top(t) EXCEPT !.at = "handling", !.by = by, !.stage = stage])
    /\ UNCHANGED <<table, stages, direct, base>>

\* The handler is done: the stage that answered is remembered, unless a name has
\* matched in the runtime since (on this thread, in a call inside included).
Handled(t) ==
  LET frame == Top(t) IN
    /\ Busy(t, "handling")
    /\ stages' = IF frame.by \in {"audio", "objc"} /\ frame.stage = "unknown" /\ ~ matched[t]
                 THEN [stages EXCEPT ![Slot(frame.id)] = frame.by] ELSE stages
    /\ IF frame.by = "direct" THEN frames' = [frames EXCEPT ![t] = SubSeq(@, 1, Len(@) - 1)]
                              ELSE SetTop(t, [frame EXCEPT !.at = "handled"])
    /\ UNCHANGED <<table, direct, base, matched>>

\* dispatch_import_chained: the direct handler, if there is one, serves from now on.
Resolve(t) ==
  LET slot == Slot(Top(t).id) IN
    /\ Busy(t, "handled")
    /\ direct' = IF direct[slot] # "unresolved" THEN direct
                 ELSE [direct EXCEPT ![slot] = IF table[Top(t).id].fast THEN "direct" ELSE "none"]
    /\ frames' = [frames EXCEPT ![t] = SubSeq(@, 1, Len(@) - 1)]
    /\ UNCHANGED <<table, stages, base, matched>>

DispatchNext ==
  \E t \in DispatchThreads :
    \/ \E id \in DOMAIN table : Dispatch(t, id)
    \/ Chain(t) \/ Handled(t) \/ Resolve(t)

DispatchSpec == DispatchInit /\ [][DispatchNext]_dispatchVars

-----------------------------------------------------------------------------
Frames == [id : Slots, at : {"named", "handling", "handled"},
           by : Handlers \cup {"nobody", "direct", "trap"}, stage : Stages]

DispatchTypeOK ==
  /\ stages \in [Slots -> Stages]
  /\ direct \in [Slots -> {"unresolved", "none", "direct"}]
  /\ frames \in [DispatchThreads -> Seq(Frames)]
  /\ \A t \in DispatchThreads : Len(frames[t]) <= Depth

\* Whatever was dispatched before, inside, or at the same time, an import is
\* answered by the first handler that knows its name, or by its direct handler;
\* and only a name no handler knows ends the guest's call.
DispatchSound ==
  \A t \in DispatchThreads : \A i \in DOMAIN frames[t] :
    LET frame == frames[t][i]
        name == table[frame.id] IN
      frame.at # "named" => \/ frame.by = FirstOf(name.known)
                            \/ frame.by = "direct" /\ name.fast

-----------------------------------------------------------------------------
(* Why it holds.  A memo says what the table does; a name that is being    *)
(* worked out is the thread's last, so that its buffer is still its own.   *)
MemosTell ==
  \A id \in DOMAIN table :
    /\ stages[id] # "unknown" => stages[id] = FirstOf(table[id].known)
    /\ direct[id] = "direct" => table[id].fast
NamesReady ==
  \A t \in DispatchThreads : \A i \in DOMAIN frames[t] :
    LET frame == frames[t][i] IN
      /\ frame.id \in DOMAIN table
      /\ frame.at = "named" =>
           i = Len(frames[t]) /\ (table[frame.id].variant => base[t] = table[frame.id])
DispatchInv ==
  /\ DispatchTypeOK
  /\ table \in Tables
  /\ base \in [DispatchThreads -> Names \cup {NoName}] /\ matched \in [DispatchThreads -> BOOLEAN]
  /\ MemosTell /\ NamesReady /\ DispatchSound

=============================================================================
