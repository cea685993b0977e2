---------------------------- MODULE MCLanScanner ----------------------------
(***************************************************************************)
(* Instances of LanScanner for TLC.                                        *)
(***************************************************************************)
EXTENDS LanScanner

CONSTANTS p, q, r

=============================================================================
