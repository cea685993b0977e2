------------------------------- MODULE Profiles -------------------------------
(***************************************************************************)
(* What the host's table and the lists of its guests have in common: the   *)
(* profiles they consist of, and the version counter that tells the user   *)
(* interface that they changed.                                            *)
(*                                                                         *)
(* A profile's vendor never changes and decides nothing; it is left out.   *)
(***************************************************************************)
EXTENDS Integers, SequencesExt

CONSTANTS
  Machines,      \* machine ids
  Names,         \* player names
  Versions       \* bound: version counters are kept modulo this

ASSUME VersionsAssumption == Versions \in Nat \ {0}

Kinds == {"HOST", "GUEST", "LOCAL"}
Profile == [id : Machines, name : Names, kind : Kinds]

Ids(list) == {list[i].id : i \in DOMAIN list}

OfKind(list, k) == {i \in DOMAIN list : list[i].kind = k}

=============================================================================
