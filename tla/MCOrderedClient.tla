------------------------- MODULE MCOrderedClient -------------------------
(* A small instance of OrderedClient for TLC. *)
EXTENDS OrderedClient, TLC

CONSTANTS a \* an owner

DistinctVa == [o \in Owners |-> o]
Symmetry == Permutations(Clients) \cup Permutations(Queues)
===========================================================================
