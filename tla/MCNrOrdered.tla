--------------------------- MODULE MCNrOrdered ---------------------------
(***************************************************************************)
(* Small instances of NrOrdered for TLC.                                   *)
(***************************************************************************)
EXTENDS NrOrdered, TLC

CONSTANTS a, b \* owners

\* Every owner at an address of its own, or two placed aliases at one address.
DistinctVa == [o \in Owners |-> o]
AliasedVa == [o \in Owners |-> None]
OwnerSymmetry == Permutations(Owners)
============================================================================
