---------------------------- MODULE MCController ----------------------------
(***************************************************************************)
(* Instances of Controller for TLC.  Sessions are model values, not        *)
(* exchanged for each other: the properties are temporal.                  *)
(***************************************************************************)
EXTENDS Controller

CONSTANTS s1, s2, none

=============================================================================
