------------------------------ MODULE MCCache ------------------------------
(***************************************************************************)
(* Machines that are added and deactivated, and the shifts, with one place *)
(* in the negative cache.  A unit of the clock is 15 seconds.              *)
(***************************************************************************)
EXTENDS MachineCache

MCPeriod == [machines |-> 2, shifts |-> 4]

Symmetric == Permutations(ApiKeys)
=============================================================================
