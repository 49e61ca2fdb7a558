----------------------------- MODULE EnergyMeter ----------------------------
(***************************************************************************)
(* Energy used between two readings of a machine's meter                   *)
(* (src/lib/energy-step.js).  A reading is a natural number, or NoReading. *)
(***************************************************************************)
EXTENDS Integers

CONSTANTS
  MaxKw,       \* MAX_KW: 2000
  MinWindow,   \* MIN_WINDOW_SEC: 300
  PerHour      \* seconds in the hour of a kWh: 3600

ASSUME EnergyAssumption == MaxKw \in Nat /\ MinWindow \in Nat /\ PerHour \in Nat \ {0}

NoReading == -1

(* The last real reading and when it was taken; none yet.                  *)
NoMeter == [meter |-> 0, at |-> 0]

(* More than a machine could draw in the time.                             *)
Misread(step, seconds) ==
  step * PerHour > MaxKw * (IF seconds > MinWindow THEN seconds ELSE MinWindow)

(* energyStep(): a reading of zero or none keeps the last real one; a lower*)
(* reading or a misread is what the next is compared with.                 *)
EnergyStep(last, reading, now) ==
  LET step    == reading - last.meter
      counted == last # NoMeter /\ step >= 0 /\ ~Misread(step, now - last.at)
  IN IF reading <= 0 THEN [delta |-> 0, last |-> last]
     ELSE [delta |-> IF counted THEN step ELSE 0, last |-> [meter |-> reading, at |-> now]]
=============================================================================
