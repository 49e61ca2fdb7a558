---------------------------- MODULE MCCollector ----------------------------
(***************************************************************************)
(* Feeds for Collector.  A device's clock is its own: a machine may send   *)
(* twice in a second, or out of order.  What the proofs suppose of feeds   *)
(* holds of these.                                                         *)
(***************************************************************************)
EXTENDS Collector

Obs(m, t, c) == [machine |-> m, time |-> t, count |-> c]
Poison == Obs("a", 9, NoCount)

\* A machine's readings with another's between them; some out of order, one
\* without a count, one to ignore; three that add up.
Shuffled == {<<Obs("a", 1, 10), Obs("b", 1, 20), Obs("a", 2, 12)>>,
             <<Poison, Obs("a", 2, NoCount), Obs("a", 1, 10)>>,
             <<Obs("a", 1, 10), Obs("a", 2, 12), Obs("a", 3, 13)>>}

\* Two readings in a second: replayed, the counter goes back and forth.
OneMachine  == {<<Obs("a", 1, 10), Obs("a", 1, 12), Obs("a", 2, 13)>>}

SameSecond  == {<<Obs("a", 1, 10), Obs("a", 1, 12)>>}

MCIgnored == {Poison}

ASSUME FeedsAssumption == NeverReset /\ ("power" \in Faults => Forward /\ OneASecond)
=============================================================================
