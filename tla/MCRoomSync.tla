------------------------------ MODULE MCRoomSync ------------------------------
(***************************************************************************)
(* Instances of RoomSync for TLC.                                          *)
(***************************************************************************)
EXTENDS RoomSync, TLC

CONSTANTS g1, g2

\* Machines of their own, one for both, and one that is the host's.
ThreeCases == {(g1 :> 1) @@ (g2 :> 3), (g1 :> 3) @@ (g2 :> 3), (g1 :> 2) @@ (g2 :> 1)}

TwoNames == (g1 :> "Steve") @@ (g2 :> "Alex")

=============================================================================
