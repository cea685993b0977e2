--------------------------- MODULE MCInstanceLock ---------------------------
(***************************************************************************)
(* Instances of InstanceLock for TLC.                                      *)
(***************************************************************************)
EXTENDS DaemonStart, TLC

CONSTANTS p1, p2, p3, p4

\* An old release, two processes of the next one, and a third release.
Releases == (p1 :> 1) @@ (p2 :> 2) @@ (p3 :> 2) @@ (p4 :> 3)

TwoReleases == (p1 :> 1) @@ (p2 :> 2) @@ (p3 :> 2)

=============================================================================
