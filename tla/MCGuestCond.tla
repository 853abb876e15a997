----------------------------- MODULE MCGuestCond -----------------------------
(* Instances of GuestCond for TLC. *)
EXTENDS GuestCond, TLC

Symmetry == Permutations(Threads)

=============================================================================
