------------------------------ MODULE Delivery -----------------------------
(***************************************************************************)
(* What the collector promises about accepted readings: one that is held   *)
(* (survives any crash) stays held until it is written to the database, or *)
(* set aside because the database refuses it; and it is written once.      *)
(***************************************************************************)
EXTENDS Naturals

CONSTANT Readings

VARIABLES
  held,      \* readings the collector is answerable for
  written,   \* how often each reading is in the database
  rejected   \* readings set aside

Settled == {rd \in Readings : written[rd] > 0} \cup rejected

Init ==
  /\ held = {}
  /\ written = [rd \in Readings |-> 0]
  /\ rejected = {}

(* Readings become durable: one at a time, or many with one fsync.         *)
Hold(S) ==
  /\ S \cap Settled = {}
  /\ held' = held \cup S
  /\ UNCHANGED <<written, rejected>>

(* A transaction commits.                                                  *)
Store(S) ==
  /\ S \subseteq held \ Settled
  /\ written' = [rd \in Readings |-> IF rd \in S THEN written[rd] + 1 ELSE written[rd]]
  /\ UNCHANGED <<held, rejected>>

Reject(rd) ==
  /\ rd \in held \ Settled
  /\ rejected' = rejected \cup {rd}
  /\ UNCHANGED <<held, written>>

(* Only what is settled may be forgotten.                                  *)
Release(S) ==
  /\ S \subseteq held \cap Settled
  /\ held' = held \ S
  /\ UNCHANGED <<written, rejected>>

Next ==
  \/ \E S \in SUBSET Readings : Hold(S) \/ Store(S) \/ Release(S)
  \/ \E rd \in Readings : Reject(rd)

Spec == Init /\ [][Next]_<<held, written, rejected>>
=============================================================================
