------------------------------ MODULE MCLedger ------------------------------
(***************************************************************************)
(* Scenes for Ledger.  An hour has six seconds, a day 24, the clock is     *)
(* three ahead of UTC, a gap is longer than four.  Shift 1 and 2 change in *)
(* the middle of an hour; one is across midnight; some time is in none.    *)
(***************************************************************************)
EXTENDS Ledger

Shift(id, start, end) == [id |-> id, start |-> start, end |-> end]
AllDay  == <<Shift(1, 4, 16), Shift(2, 16, 4)>>
SomeDay == <<Shift(3, 8, 14), Shift(4, 20, 2)>>

NoAxes   == [axes |-> <<>>, warning |-> "unknown"]
Quiet    == [flag |-> FALSE, emergency |-> FALSE, top |-> NoAlarm, list |-> <<>>]
Nothing  == [f \in {} |-> 0]
Kwh(n)   == [kwh |-> n]
Both(n, v) == [kwh |-> n, volts |-> v]
Volts(v) == [volts |-> v]

Packet(t, reading) == [time |-> t, packet |-> TRUE, reading |-> reading]
Cnc(t, reading, count, running, manual, alarms_, battery_) ==
  [time |-> t, packet |-> FALSE, reading |-> reading, count |-> count, running |-> running,
   manual |-> manual, alarms |-> alarms_, battery |-> battery_]
Run(t, reading, count)  == Cnc(t, reading, count, TRUE, FALSE, Quiet, NoAxes)
Idle(t, reading, count) == Cnc(t, reading, count, FALSE, TRUE, Quiet, NoAxes)
Alarm(t, alarms_)       == Cnc(t, Nothing, NoCount, FALSE, FALSE, alarms_, NoAxes)
Battery(t, battery_)    == Cnc(t, Nothing, NoCount, FALSE, FALSE, Quiet, battery_)

Scene(flags, shifts, most, messages) ==
  [flags |-> flags, owner |-> "A", shifts |-> shifts, most |-> most, wild |-> 5000, messages |-> messages]
Mine(shifts) == [c \in {"A"} |-> shifts]
Two == [c \in {"A", "B"} |-> IF c = "A" THEN AllDay ELSE SomeDay]

\* Over hour and shift boundaries: snapshots with and without a meter value,
\* packets between them, a reading of zero, a silence.
Boundaries == Scene({"steady"}, Mine(AllDay), 5,
  <<Run(10, Kwh(100), 5), Packet(12, Kwh(124)), Idle(13, Kwh(0), 7), Run(13, Nothing, 8),
    Run(16, Both(148, 1), 9), Idle(23, Kwh(196), 12)>>)
Replayed == Scene({"steady", "restarts"}, Mine(AllDay), 5,
  <<Run(10, Kwh(100), 5), Idle(13, Kwh(0), 7), Run(13, Nothing, 8), Run(16, Kwh(148), 9)>>)
Outside == Scene({"restarts"}, Mine(SomeDay), 4,
  <<Run(9, Kwh(100), 5), Run(12, Kwh(0), 7), Packet(12, Kwh(136)), Idle(31, Kwh(148), 40)>>)
\* A long outage, a reset counter, a new meter, a misread.
Misreads == Scene({"loses", "ages"}, Mine(AllDay), 4,
  <<Run(10, Kwh(100), 12), Run(12, Kwh(9999), 3), Packet(14, Kwh(112)), Run(15, Kwh(12), 1),
    Run(330, Kwh(36), 31)>>)
\* Another owner, in one second and later.
Sold == Scene({"moves", "restarts"}, Two, 4,
  <<Run(10, Both(100, 1), 5), Packet(10, Both(112, 2)), Run(12, Kwh(124), 7)>>)

Entry(type, number, severity) == [type |-> type, number |-> number, name |-> None, severity |-> severity]
Of(list)     == [Quiet EXCEPT !.list = list]
Flagged      == [Quiet EXCEPT !.flag = TRUE]
Stopped      == [Quiet EXCEPT !.emergency = TRUE]
Servo        == Entry("SV", "0401", None)
External(s)  == Entry("EX", "1046", s)

\* Alarms that open, close, rise and fall within a second.
SameSecond == Scene({"loses"}, Mine(AllDay), 5,
  <<Alarm(10, Of(<<External(None)>>)), Alarm(10, Of(<<External("FATAL"), External("INFO")>>)),
    Alarm(11, Of(<<External("CRITICAL")>>)),
    Alarm(10, Of(<<Servo, External(None)>>)), Alarm(10, Quiet)>>)
Raised == Scene({"loses"}, Two, 4,
  <<Alarm(10, Of(<<Servo, External(None)>>)), Alarm(11, Stopped), Alarm(12, Flagged),
    Alarm(13, [Of(<<Servo>>) EXCEPT !.top = [key |-> <<"SV", "0401">>, severity |-> None]])>>)

Axis(low, raw, abp) ==
  [low |-> low, raw |-> raw,
   flags |-> [bit \in Bits |-> IF bit = "ABP" THEN abp ELSE "unknown"]]
Axes(x) == [axes |-> [a \in {"X"} |-> x], warning |-> "unknown"]

\* A battery that is low, named, unknown, and well again; and the CNC's.
Batteries == Scene({"loses"}, Mine(AllDay), 4,
  <<Battery(10, Axes(Axis("yes", Unread, "unknown"))), Battery(11, Axes(Axis("no", {"ABP"}, "unknown"))),
    Battery(12, [NoAxes EXCEPT !.warning = "yes"]), Battery(13, Axes(Axis("no", Unread, "unknown"))),
    Battery(14, [Axes(Axis("unknown", {}, "yes")) EXCEPT !.warning = "no"])>>)

MCScenes == {Boundaries, Replayed, Outside, Misreads, Sold, SameSecond, Raised, Batteries}

\* What the proofs take for granted of scenes.
ASSUME NamesNoBattery /\ KeptWhereSold /\ SteadyIsSo
=============================================================================
