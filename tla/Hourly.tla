------------------------------- MODULE Hourly -------------------------------
(***************************************************************************)
(* Time between two readings of a machine, split into the rows of          *)
(* production_hourly (src/lib/hourly.js, src/lib/shifts.js).               *)
(*                                                                         *)
(* A shift is [id, start, end], in seconds after midnight; a company's are *)
(* a sequence in the order of their ids.  Instants are whole seconds; the  *)
(* middle of a slice may fall between two, so instants a shift is looked   *)
(* up for are counted in half seconds.                                     *)
(***************************************************************************)
EXTENDS Integers, Sequences, SequencesExt

CONSTANTS
  Hour, Day,   \* 3600 and 86400 seconds
  IstOffset    \* IST_OFFSET_SEC: 19800 seconds, five hours and a half

ASSUME HourlyAssumption ==
  Hour \in Nat \ {0} /\ Day \in Nat \ {0} /\ Day % Hour = 0 /\ IstOffset \in Nat

NoShift == 0

(* istHourStart().                                                         *)
HourStart(t) == ((t + IstOffset) \div Hour) * Hour - IstOffset

SecondOfDay(t) == (t + IstOffset) % Day

(* shiftAt(): both ends belong to a shift, and of two the first.           *)
Covers(shift, half) ==
  IF shift.start <= shift.end
  THEN 2 * shift.start <= half /\ half <= 2 * shift.end
  ELSE 2 * shift.start <= half \/ half <= 2 * shift.end

ShiftAt(shifts, half) ==
  LET ofDay   == (half + 2 * IstOffset) % (2 * Day)
      covering == {i \in DOMAIN shifts : Covers(shifts[i], ofDay)}
  IN IF covering = {} THEN NoShift ELSE shifts[Min(covering)].id

(* shiftBoundariesBetween(): on every day the interval touches.            *)
ShiftBoundaries(shifts, from, to) ==
  LET midnight == from - SecondOfDay(from)
      days     == {midnight + k * Day : k \in 0..((to - midnight - 1) \div Day)}
      seconds  == UNION {{s.start, s.end} : s \in Range(shifts)}
  IN {b \in {day + second : day \in days, second \in seconds} : from < b /\ b < to}

HourBoundaries(from, to) == {t \in (from + 1)..(to - 1) : HourStart(t) = t}

(* What an interval is credited with: the state of the machine, and the    *)
(* quantities counted over it.  The slices of a record are a set; they     *)
(* differ in where they begin and end.                                     *)
Quantities == {"run", "idle", "manual", "produced", "energy"}

Slice(from, to, shift, run, idle, manual, produced, energy) ==
  [from |-> from, to |-> to, shift |-> shift, hour |-> HourStart(from),
   run |-> run, idle |-> idle, manual |-> manual, produced |-> produced, energy |-> energy]

(* hourlySlices(): parts in the last slice, energy by duration.  Energies  *)
(* are given in units that divide without a rest.  Mutated: the shift is   *)
(* that of a slice's start.                                                *)
StartOfSlice(a, b) == 2 * a
MiddleOfSlice(a, b) == a + b

Cuts(shifts, from, to) == {from, to} \cup HourBoundaries(from, to) \cup ShiftBoundaries(shifts, from, to)

SliceFrom(shifts, from, to, a, running, manual, produced, energy) ==
  LET b       == Min({cut \in Cuts(shifts, from, to) : a < cut})
      seconds == b - a
  IN Slice(a, b, ShiftAt(shifts, MiddleOfSlice(a, b)),
           IF running THEN seconds ELSE 0, IF running THEN 0 ELSE seconds, IF manual THEN seconds ELSE 0,
           IF b = to THEN produced ELSE 0, (energy * seconds) \div (to - from))

HourlySlices(shifts, from, to, running, manual, produced, energy) ==
  IF from = 0 \/ to <= from THEN {}
  ELSE {s \in {SliceFrom(shifts, from, to, a, running, manual, produced, energy) :
                 a \in Cuts(shifts, from, to) \ {to}} : s.shift # NoShift}

(* sumSlices(), of slices <<place, slice>> that are in the journal's       *)
(* records, and the upsert that adds its rows to production_hourly.        *)
RowOf(slice) == <<slice.shift, slice.hour>>

InRow(placed, row) == {p \in placed : RowOf(p[2]) = row}

SumSlices(placed) ==
  [row \in {RowOf(p[2]) : p \in placed} |->
     [q \in Quantities |-> SumFunction([p \in InRow(placed, row) |-> p[2][q]])]]

Booked(rows, row, q) == IF row \in DOMAIN rows THEN rows[row][q] ELSE 0

Upserted(rows, sums) ==
  [row \in DOMAIN rows \cup DOMAIN sums |->
     [q \in Quantities |-> Booked(rows, row, q) + Booked(sums, row, q)]]
=============================================================================
