---------------------------- MODULE MCAndroidGlue ----------------------------
(***************************************************************************)
(* Instances of AndroidGlue for TLC.                                       *)
(***************************************************************************)
EXTENDS AndroidGlue

CONSTANTS e1, e2

\* Routes come and go with an address or with a new one, so that an address and
\* routes that were read around a change may fit neither side of it.
TwoAddresses ==
  {Unset} \cup {[ip |-> a, routes |-> NoRoutes] : a \in Addresses \ {NoAddress}}
          \cup {[ip |-> "10.126.126.2", routes |-> r] : r \in Routes}

OneAddress == Config

=============================================================================
