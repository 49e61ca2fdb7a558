----------------------------- MODULE MCJournal -----------------------------
(* Small instances of Journal: two readings of a machine and a late one.   *)
EXTENDS Journal, TLC

CONSTANTS r1, r2, late, m1

MCStateOf  == r1 :> m1 @@ r2 :> m1 @@ late :> NoMachine
MCSymmetry == Permutations({r1, r2})
=============================================================================
