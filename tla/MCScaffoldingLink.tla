-------------------------- MODULE MCScaffoldingLink -------------------------
(***************************************************************************)
(* Instances of ScaffoldingLink for TLC.                                   *)
(***************************************************************************)
EXTENDS ScaffoldingLink

=============================================================================
