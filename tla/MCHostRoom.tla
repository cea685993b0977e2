----------------------------- MODULE MCHostRoom -----------------------------
(***************************************************************************)
(* Instances of HostRoom for TLC.                                          *)
(***************************************************************************)
EXTENDS HostRoom

CONSTANTS g1, g2, g3, h, a, b

=============================================================================
