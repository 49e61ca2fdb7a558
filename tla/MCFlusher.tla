----------------------------- MODULE MCFlusher -----------------------------
(* Small instances of Flusher: two readings of a machine and a late one,   *)
(* which the database refuses.                                             *)
EXTENDS Flusher, TLC

CONSTANTS r1, r2, late, m1

MCStateOf == r1 :> m1 @@ r2 :> m1 @@ late :> NoMachine
MCStateOf2 == r1 :> m1 @@ late :> NoMachine
MCSymmetry == Permutations({r1, r2})
=============================================================================
