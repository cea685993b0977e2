----------------------------- MODULE MCGuestView ----------------------------
(***************************************************************************)
(* Instances of GuestView for TLC.                                         *)
(***************************************************************************)
EXTENDS GuestView

=============================================================================
