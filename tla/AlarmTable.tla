----------------------------- MODULE AlarmTable -----------------------------
(***************************************************************************)
(* machine_alarms and alarm_notification_events, and what                  *)
(* writeAlarmTransition() of src/lib/alarm-transition.js does to them.     *)
(*                                                                         *)
(* Device times have a resolution of a second; the arrival of a reading    *)
(* orders those of the same second, and no two readings arrive at once.    *)
(***************************************************************************)
EXTENDS AlarmRules

Open == 0     \* ended_at of a row that is open

NoAlarmRows == [rows |-> {}, events |-> {}]

(* A new row of machine_alarms: severity_observed_at and _received_at are  *)
(* seenAt and seenBy, notification_priority_changed_at is changed.         *)
OpenedRow(t, key) ==
  [company |-> t.company, key |-> key, started |-> t.at, ended |-> Open, endedBy |-> 0,
   severity |-> t.active[key], seenAt |-> t.at, seenBy |-> t.received, changed |-> t.at,
   continued |-> t.at]

(* appendEvent(): critical only.  A row is known by its key and beginning. *)
EventOf(row, at) == [company |-> row.company, key |-> row.key, started |-> row.started, at |-> at]
EventsOf(row, at) == IF ClassOf(row.severity) = "critical" THEN {EventOf(row, at)} ELSE {}
AppendEvents(events, rows, at) == events \cup UNION {EventsOf(row, at) : row \in rows}

(* What is later than a transition.  Mutated: within a second, nothing is. *)
SeenByDevice(row, t) == row.seenAt < t.at
SeenBefore(row, t) == row.seenAt < t.at \/ (row.seenAt = t.at /\ row.seenBy < t.received)

EndedLater(row, t) == row.ended > t.at \/ (row.ended = t.at /\ row.endedBy >= t.received)

(* The UPDATE that closes.                                                 *)
ToClose(row, t) ==
  IF t.reconcile THEN row.key \notin DOMAIN t.active /\ (IsBattery(row.key) => row.key \in t.cleared)
                 ELSE row.key \in t.closes

OpenFor(row, t) == row.company = t.company /\ row.ended = Open /\ row.started <= t.at

Closed(row, t) ==
  IF OpenFor(row, t) /\ ToClose(row, t) /\ SeenBefore(row, t)
  THEN [row EXCEPT !.ended = t.at, !.endedBy = t.received] ELSE row

(* The UPDATE of notification_continuity_started_at.                       *)
Continued(row, t) ==
  IF OpenFor(row, t) /\ t.reconcile /\ row.key \in DOMAIN t.active /\ row.continued < t.at
  THEN [row EXCEPT !.continued = t.at] ELSE row

(* The INSERT of an open: refused by an open row, or by one not earlier.   *)
MayOpen(rows, t, key) ==
  \A row \in rows : row.company = t.company /\ row.key = key =>
    /\ row.ended # Open /\ ~EndedLater(row, t)
    /\ row.started < t.at \/ (row.started = t.at /\ row.seenBy < t.received)

(* updatePriority(), for an update and for an open that is refused.        *)
(* Mutated: it is news when the severity changes.                          *)
NewSeverity(old, new) == old # new
NewClass(old, new)    == ClassOf(old) # ClassOf(new)

Reprioritised(row, t) ==
  IF OpenFor(row, t) /\ row.key \in t.opens \cup t.updates /\ SeenBefore(row, t)
  THEN [row EXCEPT !.severity = t.active[row.key], !.seenAt = t.at, !.seenBy = t.received,
                   !.changed = IF NewClass(row.severity, t.active[row.key]) THEN t.at ELSE @]
  ELSE row

(* writeAlarmTransition().                                                 *)
WriteAlarmTransition(table, t) ==
  LET kept   == {Continued(Closed(row, t), t) : row \in table.rows}
      opened == {OpenedRow(t, key) : key \in {k \in t.opens : MayOpen(kept, t, k)}}
      raised == {row \in kept : NewClass(row.severity, Reprioritised(row, t).severity)}
  IN [rows   |-> {Reprioritised(row, t) : row \in kept} \cup opened,
      events |-> AppendEvents(table.events, opened \cup {Reprioritised(row, t) : row \in raised}, t.at)]
=============================================================================
