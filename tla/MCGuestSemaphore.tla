--------------------------- MODULE MCGuestSemaphore ---------------------------
(* Instances of GuestSemaphore for TLC. *)
EXTENDS GuestSemaphore, TLC

Symmetry == Permutations(Threads)

=============================================================================
