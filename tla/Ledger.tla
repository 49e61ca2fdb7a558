------------------------------- MODULE Ledger -------------------------------
(***************************************************************************)
(* What is booked for one machine: the decisions of the message processor  *)
(* (src/lib/message-processor.js) and what writeRecords() of               *)
(* src/lib/flusher.js makes of its records in production_hourly,           *)
(* ingest_gaps, machine_alarms and energy_meter_readings.                  *)
(*                                                                         *)
(* The journal is the sequence it is by Journal and Delivery: a record is  *)
(* written once and in order.  A handler runs to its end, one at a time    *)
(* (Collector); the readings of one that fails are delivered again.  A     *)
(* message is what the broker may deliver any number of times, in any      *)
(* order.  Durations are scaled down, with the limits they are compared to.*)
(***************************************************************************)
EXTENDS FiniteSets, FiniteSetsExt, Hourly, PartsCounter, EnergyMeter, AlarmTable, MeterTable

CONSTANTS
  Scenes,      \* what may be sent to the collector, and happen to it
  GapLimit,    \* 60 seconds: a longer silence is a gap
  MaxRows      \* METER_BATCH_MAX_ROWS: 1000

(* A message: CNC snapshot or standalone energy packet.  A packet has only *)
(* the first three fields.                                                 *)
MessageFields == {"time", "packet", "reading", "count", "running", "manual", "alarms", "battery"}

(* restarts: the process may.  loses: the journal may be lost, when all of *)
(* it is in the database.  moves: the machine may change hands.  ages:     *)
(* readings may be more than maxStaleMs old.  steady: the meter and the    *)
(* counter only go up, and every second is in a shift.                     *)
SceneFlags == {"restarts", "loses", "moves", "ages", "steady"}

MessageSound(m) ==
  /\ m.time \in Nat \ {0} /\ m.packet \in BOOLEAN
  /\ \A f \in DOMAIN m.reading : m.reading[f] \in Nat
  /\ DOMAIN m = IF m.packet THEN {"time", "packet", "reading"} ELSE MessageFields
  /\ ~m.packet =>
       /\ m.count \in Nat \cup {NoCount} /\ m.running \in BOOLEAN /\ m.manual \in BOOLEAN
       /\ DOMAIN m.alarms.top = DOMAIN NoAlarm
       /\ IsFiniteSet(DOMAIN m.alarms.list) /\ IsFiniteSet(DOMAIN m.battery.axes)
       /\ {m.battery.warning} \cup {m.battery.axes[axis].low : axis \in DOMAIN m.battery.axes}
            \subseteq {"yes", "no", "unknown"}

NoCompany == "none"

(* A shift is a company's alone, and of it alone is its id.                *)
ShiftsSound(shifts) ==
  /\ NoCompany \notin DOMAIN shifts
  /\ \A c \in DOMAIN shifts : DOMAIN shifts[c] \subseteq Nat
  /\ \A c \in DOMAIN shifts : \A i \in DOMAIN shifts[c] :
       /\ shifts[c][i].id # NoShift
       /\ shifts[c][i].start \in 0..Day /\ shifts[c][i].end \in 0..Day
       /\ \A d \in DOMAIN shifts \ {c} : \A j \in DOMAIN shifts[d] : shifts[d][j].id # shifts[c][i].id

ASSUME LedgerAssumption ==
  /\ \A s \in Scenes :
       /\ s.flags \subseteq SceneFlags /\ s.most \in Nat
       /\ s.owner \in DOMAIN s.shifts /\ ShiftsSound(s.shifts)
       /\ \A i \in DOMAIN s.messages : MessageSound(s.messages[i])
  /\ GapLimit \in Nat \ {0} /\ MaxRows \in Nat \ {0}

VARIABLES
  scene,
  company,     \* whose machine it is: lookupMachine() says
  horizon,     \* device times up to this are more than maxStaleMs ago
  known,       \* states has the machine
  state,       \* what it has
  seen,        \* fingerprints accepted in the last five minutes
  log, done,   \* the journal; how much of it is in the database
  lost,        \* how much of it was there when the journal was lost
  hourly, gaps, alarms, meters

inputVars    == <<scene, company, horizon>>
databaseVars == <<done, hourly, gaps, alarms, meters>>
processVars  == <<known, state, seen>>
vars == <<inputVars, processVars, log, lost, databaseVars>>

Companies == {NoCompany} \cup DOMAIN scene.shifts
Shifts    == scene.shifts[company]

(* A state no reading has been accepted for.  What is known of alarms after*)
(* a restart from the database are the batteries.                          *)
NullState ==
  [company |-> NoCompany, time |-> 0, print |-> 0, running |-> FALSE, manual |-> FALSE,
   base |-> NoCount, codesKnown |-> FALSE, alarms |-> <<>>, battery |-> {},
   meter |-> NoMeter, meterSeen |-> 0, meterPrint |-> 0, aloneAt |-> 0]

NoGap == [from |-> 0, to |-> 0, state |-> 0, parts |-> 0, energy |-> 0]
NoTransition == AlarmTransition(TRUE, <<>>, <<>>, {}, NoCompany, 0, 0)

(* A journal record; its place in the log is also when it was received.    *)
Record(kind, i, st, slices, gap, alarm) ==
  [kind |-> kind, message |-> i, company |-> company, state |-> st, slices |-> slices,
   gap |-> gap, alarm |-> alarm]

Written == SubSeq(log, 1, done)
Message(rec) == scene.messages[rec.message]
Places(records, c) == {i \in DOMAIN records : records[i].kind = "raw" /\ records[i].company = c}

Received == Len(log) + 1

TypeOK ==
  /\ scene \in Scenes /\ company \in Companies \ {NoCompany}
  /\ known \in BOOLEAN /\ state.company \in Companies
  /\ seen \subseteq DOMAIN scene.messages
  /\ Len(log) <= scene.most /\ done \in 0..Len(log) /\ lost \in 0..done
  /\ \A row \in DOMAIN hourly : hourly[row] \in [Quantities -> Nat]
  /\ \A at \in DOMAIN meters : meters[at].alone \subseteq DOMAIN meters[at].reading
  /\ \A row \in alarms.rows : row.ended = Open \/ row.ended >= row.started

Init ==
  /\ scene \in Scenes /\ company = scene.owner /\ horizon = 0
  /\ known = FALSE /\ state = NullState /\ seen = {}
  /\ log = <<>> /\ done = 0 /\ lost = 0
  /\ hourly = <<>> /\ gaps = {} /\ alarms = NoAlarmRows /\ meters = <<>>

-----------------------------------------------------------------------------
(* hydrate(): the last row of telemetry_raw, the last positive meter value,*)
(* the batteries whose alarms are open.                                    *)
KwhOf(message) == IF "kwh" \in DOMAIN message.reading THEN message.reading["kwh"] ELSE NoReading

MeterRows == {at \in DOMAIN meters : meters[at].company = company /\ "kwh" \in DOMAIN meters[at].reading
                                       /\ meters[at].reading["kwh"] > 0}
LastMeter == IF MeterRows = {} THEN NoMeter
             ELSE [meter |-> meters[Max(MeterRows)].reading["kwh"], at |-> Max(MeterRows)]

OpenBatteries == {row.key : row \in {r \in alarms.rows : r.company = company /\ r.ended = Open
                                                            /\ IsBattery(r.key)}}

Hydrated ==
  LET rows == Places(Written, company)
      seenState == [NullState EXCEPT
        !.meter = LastMeter, !.battery = OpenBatteries,
        !.aloneAt = IF LastMeter # NoMeter /\ "kwh" \in meters[LastMeter.at].alone
                    THEN LastMeter.at ELSE 0]
  IN IF rows = {} THEN seenState
     ELSE LET row == Message(log[Max(rows)])
          IN [seenState EXCEPT !.time = row.time, !.running = row.running, !.manual = row.manual,
                               !.base = row.count]

(* baseline(): a state of another company will not do.                     *)
Belongs(st) == st.company \in {NoCompany, company}
Baseline == IF known /\ Belongs(state) THEN state ELSE Hydrated

-----------------------------------------------------------------------------
(* A quantity of one instant: in the shift of it, if there is one.         *)
(* Mutated: no time, no slice.                                             *)
NoSlice(at, produced, energy) == {}
PointSlice(at, produced, energy) ==
  LET shift == ShiftAt(Shifts, 2 * at)
  IN IF shift = NoShift \/ produced + energy = 0 THEN {}
     ELSE {Slice(at, at, shift, 0, 0, 0, produced, energy)}

(* Energy alone, over an interval that no other quantity is credited for.  *)
EnergySlices(from, to, energy) ==
  IF from = to THEN PointSlice(to, 0, energy)
  ELSE {Slice(s.from, s.to, s.shift, 0, 0, 0, 0, s.energy) :
          s \in HourlySlices(Shifts, from, to, FALSE, FALSE, 0, energy)}

Gap(from, to, seconds, parts, energy) ==
  [from |-> from, to |-> to, state |-> seconds, parts |-> parts, energy |-> energy]

(* Since when a step of the meter has been going on.                       *)
MeterFrom(prev, at) == IF prev.meter = NoMeter THEN at ELSE prev.meter.at

(* The meter value a CNC reading is credited with: not one from before the *)
(* last, nor of a second a standalone packet is from.  Mutated: any.       *)
AnyEnergy(prev, message) == KwhOf(message)
OrderedEnergy(prev, message) ==
  IF message.time >= prev.meter.at /\ message.time # prev.aloneAt THEN KwhOf(message) ELSE NoReading

(* handleMessage(), from its baseline on.                                  *)
CreditUpTo(prev, message) ==
  IF message.time - prev.time > GapLimit THEN prev.time + GapLimit ELSE message.time

SnapshotRecord(prev, i) ==
  LET m       == scene.messages[i]
      silence == IF prev.time = 0 THEN 0 ELSE m.time - prev.time
      counter == PartsCounterStep(prev.base, m.count, silence)
      step    == EnergyStep(prev.meter, OrderedEnergy(prev, m), m.time)
      since   == MeterFrom(prev, m.time)
      long    == silence > GapLimit
      longMeter == step.delta > 0 /\ m.time - since > GapLimit
      spread  == IF long \/ longMeter THEN 0 ELSE step.delta
      elapsed == HourlySlices(Shifts, prev.time, CreditUpTo(prev, m), prev.running, prev.manual,
                              IF long THEN 0 ELSE counter.delta,
                              IF since = prev.time THEN spread ELSE 0)
      sameSecond == IF silence = 0 THEN PointSlice(m.time, counter.delta, 0) ELSE {}
      ofMeter == IF spread > 0 /\ (since # prev.time \/ since = m.time)
                 THEN EnergySlices(since, m.time, spread) ELSE {}
      gap     == CASE long -> Gap(IF step.delta > 0 THEN Min({prev.time, since}) ELSE prev.time,
                                  m.time, GapLimit, counter.delta, step.delta)
                   [] longMeter /\ ~long -> Gap(since, m.time, 0, 0, step.delta)
                   [] OTHER -> NoGap
      observed == BatteryObserved(m.battery)
      codes   == BatteryCodes(observed, prev.battery)
      named   == ActiveAlarms(m.alarms)
      active  == [key \in DOMAIN named \cup codes |->
                    IF key \in DOMAIN named THEN named[key] ELSE "NORMAL"]
      next    == [company |-> company, time |-> m.time, print |-> i,
                  running |-> m.running, manual |-> m.manual, base |-> counter.baseline,
                  codesKnown |-> TRUE, alarms |-> active, battery |-> codes,
                  meter |-> step.last,
                  meterSeen |-> IF "kwh" \in DOMAIN m.reading THEN Max({prev.meterSeen, m.time})
                                ELSE prev.meterSeen,
                  meterPrint |-> prev.meterPrint, aloneAt |-> prev.aloneAt]
  IN Record("raw", i, next, elapsed \cup sameSecond \cup ofMeter, gap,
            AlarmTransition(prev.codesKnown, prev.alarms, active, Cleared(observed, prev.battery),
                            company, m.time, Received))

(* handleEnergy(), from its baseline on.                                   *)
PacketRecord(prev, i) ==
  LET m     == scene.messages[i]
      step  == EnergyStep(prev.meter, KwhOf(m), m.time)
      since == MeterFrom(prev, m.time)
      long  == step.delta > 0 /\ m.time - since > GapLimit
      next  == [prev EXCEPT !.company = company, !.meter = step.last, !.meterSeen = m.time,
                            !.meterPrint = i,
                            !.aloneAt = IF "kwh" \in DOMAIN m.reading THEN m.time ELSE @]
  IN Record("energy", i, next,
            IF step.delta = 0 \/ long THEN {} ELSE EnergySlices(since, m.time, step.delta),
            IF long THEN Gap(since, m.time, 0, 0, step.delta) ELSE NoGap,
            NoTransition)

(* keepLate(): the reading is set aside, what the meter showed is not.     *)
LateRecord(i) == Record("late", i, NullState, {}, NoGap, NoTransition)

(* What a message is compared with: a packet is ordered by the meter's     *)
(* times alone.                                                            *)
LastTime(prev, message) ==
  IF message.packet THEN Max({prev.meterSeen, prev.meter.at}) ELSE prev.time

Repeated(prev, i) ==
  LET m == scene.messages[i]
  IN IF m.packet THEN m.time = prev.meterSeen /\ prev.meterPrint = i
     ELSE m.time = prev.time /\ prev.print = i

-----------------------------------------------------------------------------
Admit(rec) == Len(log) < scene.most /\ log' = Append(log, rec)

(* handleMessage() for the i-th message: late, or newer than the baseline; *)
(* a duplicate is let go of.                                               *)
Stale(i) ==
  /\ i \notin seen /\ scene.messages[i].time <= horizon
  /\ Admit(LateRecord(i))
  /\ seen' = seen \cup {i}
  /\ UNCHANGED <<inputVars, known, state, lost, databaseVars>>

Handle(i) ==
  LET m == scene.messages[i]  prev == Baseline IN
  /\ i \notin seen /\ m.time > horizon
  /\ \/ /\ m.time < LastTime(prev, m)
        /\ Admit(LateRecord(i))
        /\ state' = prev /\ seen' = seen \cup {i}
     \/ /\ Repeated(prev, i)
        /\ state' = prev /\ UNCHANGED <<log, seen>>
     \/ /\ m.time >= LastTime(prev, m) /\ ~Repeated(prev, i)
        /\ Admit(IF m.packet THEN PacketRecord(prev, i) ELSE SnapshotRecord(prev, i))
        /\ state' = Last(log').state /\ seen' = seen \cup {i}
  /\ known' = TRUE
  /\ UNCHANGED <<inputVars, lost, databaseVars>>

(* writeRecords(), for the next n records: one transaction.                *)
ReadingOf(rec) ==
  [company |-> rec.company, at |-> Message(rec).time, reading |-> Message(rec).reading,
   alone |-> Message(rec).packet]

WriteAlarms(table, batch) ==
  FoldLeft(LAMBDA result, rec : WriteAlarmTransition(result, rec.alarm), table, batch)

Placed(first, last) == UNION {{i} \X log[i].slices : i \in first..last}

Write(n) ==
  LET batch == SubSeq(log, done + 1, done + n)
  IN /\ n >= 1 /\ done + n <= Len(log)
     /\ done' = done + n
     /\ hourly' = Upserted(hourly, SumSlices(Placed(done + 1, done + n)))
     /\ gaps' = gaps \cup {[seq |-> done + i, company |-> batch[i].company, gap |-> batch[i].gap] :
                             i \in {k \in DOMAIN batch : batch[k].gap # NoGap}}
     /\ alarms' = WriteAlarms(alarms, batch)
     /\ meters' = WriteMeters(meters, [i \in DOMAIN batch |-> ReadingOf(batch[i])], MaxRows)
     /\ UNCHANGED <<inputVars, processVars, log, lost>>

-----------------------------------------------------------------------------
(* A restart: the journal has the state of the last record that has one,   *)
(* and the fingerprints are gone.  They also are after five minutes.       *)
Restart ==
  /\ "restarts" \in scene.flags /\ seen # {}
  /\ LET kept == {i \in (lost + 1)..Len(log) : log[i].kind # "late"}
     IN IF kept = {} THEN known' = FALSE /\ state' = NullState
                     ELSE known' = TRUE /\ state' = log[Max(kept)].state
  /\ seen' = {}
  /\ UNCHANGED <<inputVars, log, lost, databaseVars>>

(* A restart with an empty journal: the database says what the state was.  *)
JournalLost ==
  /\ "loses" \in scene.flags /\ known /\ done = Len(log)
  /\ known' = FALSE /\ state' = NullState /\ seen' = {} /\ lost' = done
  /\ UNCHANGED <<inputVars, log, databaseVars>>

(* The row in machines gets another company_id, once: to a company it comes*)
(* back to, hydrate() would not say what is still in the journal.          *)
Move ==
  /\ "moves" \in scene.flags /\ company = scene.owner
  /\ \E c \in DOMAIN scene.shifts \ {company} : company' = c
  /\ UNCHANGED <<scene, horizon, processVars, log, lost, databaseVars>>

(* An outage, once.                                                        *)
Age ==
  /\ "ages" \in scene.flags /\ horizon = 0
  /\ \E i \in DOMAIN scene.messages : horizon' = scene.messages[i].time
  /\ UNCHANGED <<scene, company, processVars, log, lost, databaseVars>>

Next ==
  \/ \E i \in DOMAIN scene.messages : Stale(i) \/ Handle(i)
  \/ \E n \in 1..scene.most : Write(n)
  \/ Restart \/ JournalLost \/ Move \/ Age

Spec == Init /\ [][Next]_vars

-----------------------------------------------------------------------------
(* Rows of production_hourly that are a company's.                         *)
RowsOf(c) == {row \in DOMAIN hourly : \E i \in DOMAIN scene.shifts[c] : scene.shifts[c][i].id = row[1]}
GapsOf(c) == {g \in gaps : g.company = c}

(* The reading that says what the machine was doing in a second: the last  *)
(* of those accepted before it, if another follows and the second is among *)
(* the first GapLimit after it.  0 if there is none.                       *)
Teller(c, second) ==
  LET time(i) == Message(log[i]).time
      before  == {i \in Places(Written, c) : time(i) <= second}
      after   == {i \in Places(Written, c) : time(i) > second}
  IN IF before # {} /\ after # {} /\ second - time(Max(before)) < GapLimit THEN Max(before) ELSE 0

Seconds(c) ==
  LET spans == {Message(log[i]).time .. (Message(log[i]).time + GapLimit - 1) : i \in Places(Written, c)}
  IN {second \in UNION spans : Teller(c, second) # 0}

RowOfSecond(c, second) == <<ShiftAt(scene.shifts[c], 2 * second + 1), HourStart(second)>>

(* Run, idle and manual time in production_hourly are the seconds that     *)
(* readings account for, each once, in the shift and the hour it is of:    *)
(* hourlySlices() and the upsert over records in any batches.              *)
HourlyIsExact ==
  \A c \in DOMAIN scene.shifts :
    LET told(row) == {second \in Seconds(c) : RowOfSecond(c, second) = row}
        teller(second) == Message(log[Teller(c, second)])
    IN /\ \A row \in RowsOf(c) :
            /\ hourly[row].run    = Cardinality({s \in told(row) : teller(s).running})
            /\ hourly[row].idle   = Cardinality({s \in told(row) : ~teller(s).running})
            /\ hourly[row].manual = Cardinality({s \in told(row) : teller(s).manual})
       /\ \A second \in Seconds(c) :
            LET row == RowOfSecond(c, second) IN row[1] = NoShift \/ row \in DOMAIN hourly

(* What is booked for a company, in rows and in gaps.                      *)
BookedParts(c)  == SumFunction([row \in RowsOf(c) |-> hourly[row].produced])
                     + SumFunction([g \in GapsOf(c) |-> g.gap.parts])
BookedEnergy(c) == SumFunction([row \in RowsOf(c) |-> hourly[row].energy])
                     + SumFunction([g \in GapsOf(c) |-> g.gap.energy])

(* What the machine made and used by the true values that have been sent   *)
(* for a company, in the order they were read: a value that goes down is   *)
(* one that was reset.                                                     *)
Climbs(values, reset(_)) ==
  MapThenSumSet(LAMBDA i : IF values[i + 1] >= values[i] THEN values[i + 1] - values[i]
                           ELSE reset(values[i + 1]), 1..(Len(values) - 1))
Sent(c) == {log[i].message : i \in {j \in DOMAIN log : log[j].company = c}}
Values(c, value(_)) ==
  LET sent == SetToSortSeq(Sent(c), <) IN [i \in DOMAIN sent |-> value(scene.messages[sent[i]])]

TrueCounts(c) == SelectSeq(Values(c, LAMBDA m : IF m.packet THEN NoCount ELSE m.count),
                           LAMBDA count : count # NoCount)
TrueMeter(c)  == SelectSeq(Values(c, KwhOf), LAMBDA kwh : 0 < kwh /\ kwh < scene.wild)

(* No company is charged for parts that were not made, nor for energy that *)
(* was not used: whatever is lost, late, repeated, reset or misread.       *)
BookedWasMade ==
  \A c \in DOMAIN scene.shifts : BookedParts(c) <= Climbs(TrueCounts(c), LAMBDA count : count)
BookedWasUsed ==
  \A c \in DOMAIN scene.shifts : BookedEnergy(c) <= Climbs(TrueMeter(c), LAMBDA kwh : 0)

(* Nothing is forgotten either: with a meter and a counter that only go up *)
(* all they climbed from the first state to the last is in a row or a gap. *)
NothingForgotten ==
  "steady" \in scene.flags /\ done = Len(log) /\ known =>
    LET counted == {i \in DOMAIN log : log[i].kind # "late" /\ log[i].state.base # NoCount}
        metered == {i \in DOMAIN log : log[i].kind # "late" /\ log[i].state.meter # NoMeter}
    IN /\ counted # {} => BookedParts(company) = state.base - log[Min(counted)].state.base
       /\ metered # {} =>
            BookedEnergy(company) = state.meter.meter - log[Min(metered)].state.meter.meter

-----------------------------------------------------------------------------
(* The values of a field at a second, in the order of the journal, and     *)
(* what should be left of them: the last of a packet, or the last.         *)
Supplies(i, c, at, field) ==
  Message(log[i]).time = at /\ log[i].company = c /\ field \in DOMAIN Message(log[i]).reading
FieldOf(c, at, field) ==
  LET all   == {i \in 1..done : Supplies(i, c, at, field)}
      alone == {i \in all : Message(log[i]).packet}
  IN Message(log[Max(IF alone = {} THEN all ELSE alone)]).reading[field]

(* A row of energy_meter_readings has what the meter showed in its second, *)
(* a value of a packet before one of a snapshot, of the company that was   *)
(* first: whatever the batches and the statements were.                    *)
MetersAsObserved ==
  \A i \in 1..done : \A field \in DOMAIN Message(log[i]).reading :
    LET at    == Message(log[i]).time
        first == Min({j \in 1..done : Message(log[j]).time = at /\ DOMAIN Message(log[j]).reading # {}})
        c     == log[first].company
    IN /\ at \in DOMAIN meters /\ meters[at].company = c
       /\ log[i].company = c => /\ field \in DOMAIN meters[at].reading
                                /\ meters[at].reading[field] = FieldOf(c, at, field)

-----------------------------------------------------------------------------
(* What the last accepted reading of a company says is active.             *)
ActiveAt(i) == IF i = 0 THEN <<>> ELSE log[i].state.alarms
LastRaw(c, n) == Max({0} \cup {i \in Places(log, c) : i <= n})

OpenRows(c) == {row \in alarms.rows : row.company = c /\ row.ended = Open}

(* The open rows of machine_alarms are the alarms of the last reading, with*)
(* their severities, and one row each: whatever the order of transitions   *)
(* within a second, and after a restart that did not know what was open.   *)
AlarmsMatch ==
  \A c \in DOMAIN scene.shifts :
    LET active == ActiveAt(LastRaw(c, done)) IN
    /\ {row.key : row \in OpenRows(c)} = DOMAIN active
    /\ Cardinality(OpenRows(c)) = Cardinality(DOMAIN active)
    /\ \A row \in OpenRows(c) : row.severity = active[row.key]

(* The readings an alarm becomes critical with.                            *)
Critical(alarmsOf, key) == key \in DOMAIN alarmsOf /\ ClassOf(alarmsOf[key]) = "critical"
RisesAt(c, i) ==
  {<<key, Message(log[i]).time>> :
     key \in {k \in DOMAIN ActiveAt(i) : Critical(ActiveAt(i), k) /\ ~Critical(ActiveAt(LastRaw(c, i - 1)), k)}}
Rises(c) == UNION {RisesAt(c, i) : i \in Places(Written, c)}

(* There is an event for every time an alarm becomes critical, by opening  *)
(* or by escalating, and no other: a restart makes no news of an old alarm.*)
EventsAreRises ==
  \A c \in DOMAIN scene.shifts :
    /\ {<<e.key, e.at>> : e \in {f \in alarms.events : f.company = c}} = Rises(c)
    /\ \A row \in alarms.rows : EventsOf(row, row.changed) \subseteq alarms.events

(* What a reading says of a battery, and the last that knew.               *)
Says(i, key) ==
  LET observed == BatteryObserved(Message(log[i]).battery)
  IN IF key \in DOMAIN observed THEN observed[key] ELSE "unknown"
SaidOf(c, key) ==
  LET telling == {i \in Places(Written, c) : Says(i, key) # "unknown"}
  IN IF telling = {} THEN "unknown" ELSE Says(Max(telling), key)

(* A battery warning is open until its own diagnostic clears it.           *)
BatteryKept ==
  \A c \in DOMAIN scene.shifts :
    LET keys == UNION {DOMAIN BatteryObserved(Message(log[i]).battery) : i \in Places(Written, c)}
    IN {row.key : row \in {r \in OpenRows(c) : IsBattery(r.key)}} = {k \in keys : SaidOf(c, k) = "yes"}

(* What a payload names.  A named alarm that looks like a battery would be *)
(* closed only by a diagnostic of that battery.                            *)
NamedKeys(p) == {k \in {p.top.key} \cup {ParseAlarmEntry(p.list[i]).key : i \in DOMAIN p.list} : k # <<>>}
NamesNoBattery ==
  \A s \in Scenes : \A i \in DOMAIN s.messages :
    ~s.messages[i].packet => \A k \in NamedKeys(s.messages[i].alarms) : ~IsBattery(k)

(* A machine is not sold where a journal may be lost.                      *)
KeptWhereSold == \A s \in Scenes : ~({"moves", "loses"} \subseteq s.flags)

(* Steady: of two messages, the later one's count is what a step trusts, or*)
(* one that it lets go of; its meter value is no lower, no misread, and can*)
(* be shared out over an interval without a rest.                          *)
CountFollows(m, n) ==
  ~m.packet /\ ~n.packet /\ m.count # NoCount /\ n.count # NoCount =>
    PartsDelta(m.count, n.count, 0) = n.count - m.count \/ (SmallCount < n.count /\ n.count < m.count)
MeterFollows(m, n) ==
  KwhOf(m) > 0 /\ KwhOf(n) > 0 =>
    LET step == KwhOf(n) - KwhOf(m)
    IN step >= 0 /\ ~Misread(step, n.time - m.time) /\ \A d \in 1..GapLimit : step % d = 0

SteadyIsSo ==
  \A s \in Scenes : "steady" \in s.flags =>
    /\ s.flags \cap {"moves", "loses", "ages"} = {}
    /\ \A c \in DOMAIN s.shifts : \A half \in 0..(2 * Day - 1) :
         \E i \in DOMAIN s.shifts[c] : Covers(s.shifts[c][i], half)
    /\ \A i, j \in DOMAIN s.messages : s.messages[i].time <= s.messages[j].time =>
         CountFollows(s.messages[i], s.messages[j]) /\ MeterFollows(s.messages[i], s.messages[j])
=============================================================================
