----------------------------- MODULE AlarmRules -----------------------------
(***************************************************************************)
(* Which alarms a payload says are active, and what changes with it:       *)
(* src/lib/condition-signals.js, fanuc-battery.js, alarm-text.js and       *)
(* alarmTransition() of alarm-transition.js.                               *)
(*                                                                         *)
(* A key (alarmKey()) is a tuple: <<prefix, number>>, a name or a code of  *)
(* a battery.  That long keys are shortened is left out, and the limit of  *)
(* 65 batteries.  Alarms are a function from keys to severities.           *)
(***************************************************************************)
EXTENDS Integers, Sequences, SequencesExt

(* alarmSeverityClass().                                                   *)
ClassOf(severity) ==
  CASE severity \in {"CRITICAL", "FATAL", "EMERGENCY"} -> "critical"
    [] severity \in {"INFO", "LOW", "MESSAGE"}         -> "info"
    [] OTHER                                           -> "noncritical"

(* CRITICAL_ALARM_TYPES, and what stands for a field that is not there.    *)
CriticalTypes == {"SV", "SP", "OH"}
None          == "none"
NoAlarm       == [key |-> <<>>, severity |-> None]
Unspecified   == <<"UNSPECIFIED">>
EmergencyStop == <<"EMERGENCY STOP">>

(* parseAlarmEntry(): an entry has a number, a name, both or neither.      *)
ParseAlarmEntry(entry) ==
  LET key == IF entry.number # None THEN <<entry.type, entry.number>>
             ELSE IF entry.name # None THEN <<entry.name>> ELSE <<>>
  IN IF key = <<>> THEN NoAlarm
     ELSE [key |-> key,
           severity |-> IF entry.severity = None /\ entry.type \in CriticalTypes
                        THEN "CRITICAL" ELSE entry.severity]

(* isAlarming(): the flags, the PMC block, the status.                     *)
IsAlarming(p) == p.flag \/ p.emergency \/ p.list # <<>>

(* activeAlarms(): what is found, numbered; the first is an emergency stop.*)
FoundAlarms(p) ==
  LET entry(i) == IF i = 0 THEN p.top ELSE ParseAlarmEntry(p.list[i])
      named == {i \in {0} \cup DOMAIN p.list : entry(i).key # <<>>}
  IN IF named = {} THEN [i \in {0} |-> [p.top EXCEPT !.key = Unspecified]]
     ELSE [i \in named |-> entry(i)]

UrgentAlarms(p) ==
  LET found == FoundAlarms(p)
      first == Min(DOMAIN found)
      key   == IF found[first].key = Unspecified THEN EmergencyStop ELSE found[first].key
  IN IF p.emergency THEN [found EXCEPT ![first] = [key |-> key, severity |-> "CRITICAL"]] ELSE found

(* alarmFields(): the first entry for a key counts.                        *)
ActiveAlarms(p) ==
  LET all == UrgentAlarms(p)
      severity(alarm) == IF alarm.severity = None THEN "NORMAL" ELSE alarm.severity
  IN IF ~IsAlarming(p) THEN <<>>
     ELSE [key \in {all[i].key : i \in DOMAIN all} |->
             severity(all[Min({i \in DOMAIN all : all[i].key = key})])]

-----------------------------------------------------------------------------
(* Battery diagnostics of a FANUC controller: flags that may be unknown.   *)
Bits     == {"ABP", "INP", "EXP"}
Unread   == {"unread"}               \* no raw word: otherwise its bits that are set
BatteryKey(axis, bit) == <<"ACC", axis, bit>>
CncKey   == <<"CNC BATTERY">>
IsBattery(key) == key[1] \in {"ACC", "CNC BATTERY"}

Combine(a, b) ==
  IF "yes" \in {a, b} THEN "yes" ELSE IF "no" \in {a, b} THEN "no" ELSE "unknown"

(* axisStatus().                                                           *)
AxisStatus(value) ==
  LET raw(bit) == IF value.raw = Unread THEN "unknown" ELSE IF bit \in value.raw THEN "yes" ELSE "no"
      bits == [bit \in Bits |-> Combine(value.flags[bit], raw(bit))]
      low  == IF \E bit \in Bits : bits[bit] = "yes" THEN "yes"
              ELSE IF value.low # "unknown" THEN value.low
              ELSE IF \A bit \in Bits : bits[bit] = "no" THEN "no" ELSE "unknown"
  IN [low |-> low,
      bits |-> [bit \in Bits |-> IF low = "no" THEN Combine(bits[bit], "no") ELSE bits[bit]]]

(* fanucBatterySignals(), and the first half of fanucBatteryAlarms(): what *)
(* is known of each battery.  LOW is for an axis that names none.          *)
BatteryObserved(diagnostics) ==
  LET status(axis) == AxisStatus(diagnostics.axes[axis])
      named(axis)  == \E bit \in Bits : status(axis).bits[bit] = "yes"
      keys == {BatteryKey(axis, bit) : axis \in DOMAIN diagnostics.axes, bit \in Bits \cup {"LOW"}}
  IN [key \in keys \cup {CncKey} |->
        IF key = CncKey THEN diagnostics.warning
        ELSE IF key[3] # "LOW" THEN status(key[2]).bits[key[3]]
        ELSE IF named(key[2]) THEN "no" ELSE status(key[2]).low]

(* fanucBatteryAlarms(): a warning stays until its own diagnostic says it  *)
(* is over.  Mutated: until it is not seen any more.                       *)
ClearedUnlessSeen(observed, previous) == {k \in DOMAIN observed : observed[k] # "yes"}
Cleared(observed, previous) == {k \in DOMAIN observed : observed[k] = "no"}

BatteryCodes(observed, previous) ==
  {k \in previous : IsBattery(k) /\ k \notin Cleared(observed, previous)}
    \cup {k \in DOMAIN observed : observed[k] = "yes"}

-----------------------------------------------------------------------------
(* alarmTransition(): the alarms of the state before, if they are known,   *)
(* and those active now.  One that changes nothing is the code's null.     *)
AlarmTransition(known, before, active, cleared, company, at, received) ==
  [company |-> company, at |-> at, received |-> received, active |-> active,
   reconcile |-> ~known,
   cleared   |-> cleared,
   opens     |-> IF known THEN DOMAIN active \ DOMAIN before ELSE DOMAIN active,
   updates   |-> {k \in DOMAIN active \cap DOMAIN before : known /\ before[k] # active[k]},
   closes    |-> IF known THEN {k \in DOMAIN before \ DOMAIN active : IsBattery(k) => k \in cleared}
                 ELSE {}]
=============================================================================
