---------------------------- MODULE MCGuestStrings ----------------------------
(* GuestStrings with objects for TLC: one of the first thread's, two of the second's. *)
EXTENDS GuestStrings

MCOwnerOf == <<1, 2, 2>>

===============================================================================
