# Verification of the IOTDatabase collector

The collector takes machine telemetry from an MQTT broker, writes every
accepted reading to a journal on its own disk, acknowledges it, and moves it
from the journal into PostgreSQL. This directory holds TLA+ models of the parts
of that program that carry its promise — *"Accepted" means written and fsynced;
nothing written twice, nothing lost* (`src/src/lib/journal.js:16-18`) — with
TLC configurations that check them on small instances and TLAPS proofs of what
holds for every instance.

    tlc -workers 2 -config MCJournal_power.cfg MCJournal      # a run
    tlapm JournalProofs.tla                                   # the proofs of a module

`PROJECT.json` lists the runs, the theorems, and for every definition of a
model the source lines it stands for.

## 1. Inventory

| Part | Source | State it keeps | Operations | Correct when |
|---|---|---|---|---|
| Journal | `src/src/lib/journal.js` | segment files, `lastSeq`, `durableSeq`, `cursor`, the active descriptor, `fatalError`, latest state per machine, `state.json`, quarantine file | `open`, `append`, timer fsync, `syncThrough`, `read`, `ack`, `quarantine`, `sync`, `close` | what is called durable is on the medium; the reader sees every record once per start; a restart recovers the numbers and the states |
| Writer | `src/src/lib/flusher.js` | `checkpoint`, the batch in hand; `ingest_checkpoint` in the database | `start`, `pass`, `applyTx`, `applyOneByOne`, `run`, `stop`, `drain` | each record's rows are committed once; only refused records are set aside; every record gets there in the end |
| Admission | `src/src/lib/admission.js`, `src/mqtt.js` | `active` | `handleMessage` (MQTT.js hook before PUBACK) | no PUBACK before the reading is durable; a failure makes the broker replay |
| Message processor | `src/src/lib/message-processor.js` | last state per machine, recent fingerprints | `handleMessage`, `handleEnergy`, `keepLate`, `baseline` | production and energy of a reading are counted once, whatever is replayed |
| Machine and shift caches | `src/mqtt.js`, `src/src/lib/shifts.js` | `machineCache`, `negativeCache`; shifts by company | `preloadMachines` (timer and reconnect), `lookupMachine`; `load` (timer) | a removed machine does not come back, a new one is not refused for long |
| Process lifecycle | `src/server.js` | `stopping` | start order, failed start, `shutdown` with its deadlines | the journal is synced last; a late message is not acknowledged |
| Alarms | `alarm-transition.js`, `alarm-text.js`, `condition-signals.js`, `fanuc-battery.js` in `src/src/lib/` | `machine_alarms`, `alarm_notification_events` | what a payload says is active; `alarmTransition`, `writeAlarmTransition` | the open rows are what the last reading said; one event for each time an alarm becomes critical |
| Production and energy arithmetic | `parts-delta.js`, `energy-step.js`, `hourly.js`, `shifts.js` in `src/src/lib/` | `production_hourly`, `ingest_gaps` (the baseline travels with the state) | pure functions and an upsert | never more parts or energy than the machine made or used, and no less; each second once, in its shift and hour |
| Meter batches | `src/src/lib/meter-writer.js` | `energy_meter_readings` | merge sparse updates before the UPSERT | the merge equals writing one after the other |
| Ingress lag | `src/src/lib/ingress-lag.js` | lag per machine | `observe`, `report` | reporting only |
| Identity, signal decoding, health, logging, Redis, configuration, schema check, tools | rest of `src/` | none shared with the above | | not modelled, see section 8 |

How they interact. MQTT.js calls admission for one QoS 1 message at a time;
admission parses and calls the processor; the processor looks the machine up,
reads its baseline, computes the reading's rows, appends them to the journal
and waits in `syncThrough()`; only then is the PUBACK sent. The writer is a
loop of its own: it reads a batch, waits in `syncThrough()` for the same
journal, writes the batch and the checkpoint in one transaction, and `ack()`s
the journal, which may delete files and save `state.json`. A timer in the
journal starts fsyncs beside both. Everything is one Node.js thread, so each
piece of code between two awaits is one step, and everything else may happen
at an await.

What is hard here: four fsyncs that overlap with appends and rotations they
did not see; a rotation that half succeeds on a full disk; a file deleted, or
not, around the snapshot that replaces it; crashes that keep the page cache
and crashes that do not; COMMIT answers that get lost, and transactions that
outlive the client that opened them; batches redone record by record; numbers
that come from a clock; reloads of a cache that overtake each other, and the
lookups between them; readings of one second, of a repeated message, of a
machine that was sold, after a reset or a misread, and what each of them books.
`PROJECT.json` lists each as a hazard at its line.

## 2. Modules

| Module | What it is |
|---|---|
| `Journal` | the journal, its reader's protocol, and what process crashes and power losses leave |
| `Flusher` | extends `Journal` with the writer, the database and the process around them |
| `Delivery` | the promise to the rest of the plant: held until written once or set aside; no journal, fsync, transaction or retry in it |
| `Collector` | broker session, admission and message processor over an abstract journal: what lost connections, refusals and restarts replay |
| `Ledger` | what the processor decides for a machine's readings, and what the writer makes of it in four tables |
| `PartsCounter`, `EnergyMeter`, `Hourly` | a step of the parts counter and of the energy meter; an interval cut into hours and shifts, and the upsert |
| `AlarmRules`, `AlarmTable` | which alarms a payload says are active and what changes; what that does to `machine_alarms` and its events |
| `MeterTable` | `energy_meter_readings`, and the merge of a batch before it |
| `MachineCache` | the machine and shift caches, their reloads, and lookups |
| `MCJournal`, `MCFlusher`, `MCCollector`, `MCLedger`, `MCCache` | instances for TLC |
| `NumberLemmas` | what `Min` and `Max` are of a finite set of numbers, and what the sum of a function over a finite set is, for the proofs |
| `JournalProofs` | theorems about `Journal` and their proofs: types, durability, the order of files and numbers, and the file of an fsync; then the reader and the machines' states |
| `FlusherProofs` | theorems about `Flusher`: nothing twice, nothing lost; the step simulation of `Delivery` |
| `CollectorProofs`, `BookingProofs` | theorems about `Collector`: types, and what was acknowledged is kept; then the order of a machine's readings, and that no part is counted twice |
| `LedgerProofs` | theorems about `Ledger`: the alarm table, its events and the batteries; then the meter table |
| `ProductionProofs` | theorems about `Ledger`: the time in `production_hourly`, the types of everything, and that no climb of meter or counter is forgotten |
| `MachineCacheProofs` | the theorems about `MachineCache` |

How they compose: `Flusher` extends `Journal`, and implements `Delivery`.
`Collector` and `Ledger` each take the other half for granted: `Collector` has
crashes, connections and replays, but a reading is only its time and count;
`Ledger` has the whole reading and the whole row, but the journal is a sequence
whose records are written once and in order, which is what `Flusher` shows of
it. Both use `PartsCounter`.

### Journal and the code

A record is `[seg, s, rd]`: its file, its number, its reading. `records` is
what the page cache shows, `stable` what is on the medium. `lastSeq`,
`durableSeq`, `fatalError`, `cursor`, `dirty` are the code's own variables;
`stateSeq` is `latestState` reduced to the number of the reading the state came
from; `syncWork` is the shared fsync of `syncThrough()`, `timerSync` the
timer's. `stampOf`, `promised` and `consumed` are history.

| Action | Code |
|---|---|
| `Open` | `open()`: recovery of numbers, states and cursor; a fresh file |
| `Append`, `AppendRefused`, `RotateFails` | `append()` with the rotation before and after the write: written (also when the second rotation then throws), refused (full, or the write failed), thrown out of the first rotation |
| `TimerFires`, `TimerSyncEnds` | `scheduleSync()`; EBADF after a rotation is ignored |
| `SyncStarts`, `SyncEnds` | `syncThrough()` |
| `Promise` | the PUBACK: `admit()` returned, or the reading was a duplicate of a recovered state |
| `Read`, `ReaderAcks`, `AckAdvance`, `Abandon` | `read()`, `ack()` with `dropConsumed()` and `saveStates()`, and what the writer does between them |
| `Close`, `ProcessCrash`, `PowerLoss` | `sync()` and `close()` at shutdown; a killed process; a power loss that keeps a prefix of what was not synced |

### Flusher and the code

`pc` is where `run()`/`pass()` is: reading, waiting for the sync, before BEGIN,
before COMMIT, before `quarantine()`, before `ack()`. `mode` tells a whole
batch from record by record (`one`) and from moving the checkpoint over a
quarantined record (`skip`). The database is `dbCheckpoint`, `rows` (how often
each reading's rows were committed) and `tx`, the transaction that holds the
checkpoint row's lock. `Apply` is everything from BEGIN to before COMMIT, one
step because nobody else can see it before the commit; `CommitAnswered`,
`CommitFails` and `OrphanEnds` are the ways COMMIT can go; `DataError`,
`QuarantineFirst` and `TxFails` are the error paths; `PassThrows` is the catch
in `run()`. `Admission` lets every journal operation of the message side happen
between any two of the writer's steps.

### Collector and the code

The message side, from the publication to the record, with what the broker
replays. The journal is cut down to the log of all records, how many of them are
fsynced (`durable`) and how many are in the database and deleted (`done`), and
where each machine's state is in it (`latest`, `saved`). `handler` is the one
`handleMessage()` in progress, `states` and `seen` the processor's two tables,
`owed` what the broker has had no PUBACK for.

| Action | Code |
|---|---|
| `Deliver` | `handleMessage()` of `admission.js`: turned away with the connection closed, rejected as invalid, or taken on |
| `Handle`, `Hydrate` | the processor from its lookup to the record's `append()`, which is one step but for a `hydrate()` between; `Decide` is what follows the baseline, `Admit` the append with every way it fails |
| `Accepted`, `SyncRejected`, `QueryFails` | the ends of the awaits in it |
| `Acknowledge`, `Reject` | callback and PUBACK; `client.stream.destroy()` |
| `Forget` | the bounds of the table of fingerprints |
| `Fsync`, `Release`, `Start`, `Ends` | what journal, writer and process do around it |
| `Connect`, `ConnectionLost`, `AckArrives`, `Age` | MQTT.js, broker and network; time |

Connections resume the session: the broker sends what it is owed again, in
order, also while a message of the old connection is still in hand. A PUBACK
without a connection is lost (`queueQoSZero: false`, `mqtt-config.js:36`). An
observation is machine, time and count, and is its own fingerprint; standalone
energy packets, slices, gaps and alarms are `Ledger`'s. A reading's lateness is
decided by a horizon that moves during outages. Process crashes and power losses
are separate instances, since a power loss after a crash is the journal's
subject (`journal_unsynced`).

### Ledger and the code

One machine. A behaviour plays a *scene*: messages that the broker may deliver
in any order and any number of times, and what may happen meanwhile. `state` is
the processor's state of the machine, `seen` its table of fingerprints, `log`
the journal, `done` how much of it is written; `hourly`, `gaps`, `alarms` and
`meters` are the tables.

| Action | Code |
|---|---|
| `Handle`, `Stale` | `handleMessage()` and `handleEnergy()` of the processor: duplicate, late (`keepLate()`), or accepted; `SnapshotRecord` and `PacketRecord` are the record with its slices, gap and alarm transition |
| `Write` | `writeRecords()` of the writer for the next records, one transaction: `SumSlices` (`hourly.js`) and `Upserted`, `WriteAlarmTransition`, `WriteMeters` |
| `Restart` | the journal's last state is taken up, the fingerprints are gone |
| `JournalLost` | a restart with an empty journal: `hydrate()` reads the tables |
| `Move`, `Age` | another `company_id` in `machines`; an outage after which readings are more than `maxStaleMs` old |

The slices of a record are a set: they differ in where they begin and end, and
nothing depends on the order `hourlySlices()` lists them in. A slice of a batch
has its record's place beside it, since two records may have equal ones.

What is simplified, and what the scenes keep out:

- Durations are scaled with the limits they are compared to, and the energies
  chosen so that proportional slices divide without a rest: rounding is left
  out.
- The place of a message stands for its fingerprint, a record's place in the log
  for its received time, which only grows.
- The machine moves once. Back at its old company `hydrate()` could miss what
  is still in the journal.
- `energy_observations` is taken as all rows of the meter table with a positive
  value.
- Two meter values of one second are not replayed after a restart, moves are
  not combined with a lost journal, and a journal is not lost between two
  counts of a second: section 6 says what the code does then.

### MachineCache and the code

`history` is what the table's rows have said, and since when: the answer of a
query is what the table said at some moment since the query was sent. A
behaviour is about the machines or about the shifts, which have no state in
common.

| Action | Code |
|---|---|
| `TimerFires`, `Connected`, `ReloadInstalls`, `ReloadFails` | `preloadMachines()` of `mqtt.js` from its timer and on a connection; `load()` of `shifts.js` from its timer |
| `LookupMachine`, `LookupAnswered`, `LookupFails` | `lookupMachine()`: from the cache, from the negative cache, from a query, and after it |
| `Change`, `Tick` | the Backend's changes of the table; time, which does not pass a timer or the longest a query may take |

There is one lookup at a time because MQTT.js hands over one message at a time
(`admission.js`), and any number of reloads beside it.

### Variants

An operator that stands right before a definition of the same shape and is used
nowhere (`RotateDespiteSync`, `AlsoAtCheckpoint`, `Unsynced` and so on) is that
definition with a plausible mistake in it. `PROJECT.json` says which property of
which run such a mistake violates; it shows that the property depends on the
code and is not true by the shape of the model.

### What is abstracted

- Readings are model values. What a record carries is reduced to which
  machine's state it holds, since the promises tell no more apart.
- Number stamps are small: the clock is the least number `Date.now() * 1000`
  can still give, and `MaxGap` how far it may run ahead of the last number.
  A normal restart takes longer than the numbers had run ahead.
- Several timer fsyncs may overlap in the code; here at most one is in flight.
  A later one covers everything an earlier one does.
- A successful fsync puts the file's records up to its number on the medium; a
  power loss keeps, of the rest, an arbitrary prefix. Torn last lines and
  corrupt lines are left out (`recoverSegment` drops the one and quarantines
  the other).
- In `Journal` each reading is appended at most once. A message the broker
  replays after a failed append is `Collector`'s subject.
- Many appends may wait for one fsync although admission is one at a time: more
  behaviours than the code has.
- A shutdown whose sync fails, a hard stop and `process.exit(1)` after a failed
  `startMQTT()` leave what a `ProcessCrash` leaves. A start that fails before
  that is `StartFails`.

## 3. Runs

| Run | Instance | Shows |
|---|---|---|
| `journal_power` | power, fsync, write and space faults | `AcceptedIsKept`, `DurableIsOnDisk`, `NothingSkipped`, `SyncKeepsItsFile`, `StampsOnlyGrow` |
| `journal_process` | process crashes, clock set back and running ahead, unlink faults | `NothingSkipped`, `FilesInOrder`, `BaselineKept` |
| `flusher_power` | power losses | `WrittenOnce`, `NothingLost`, `CheckpointCoversSettled`, `NothingWrittenUnsynced`, `OnlyPoisonQuarantined`, and that the composition implements `Delivery` |
| `flusher_process` | process crashes; space, fsync and unlink faults | `WrittenOnce`, `NothingLost`, `CheckpointCoversSettled` when the page cache survives |
| `flusher_live` | power losses, fair scheduling | `EventuallySettled`, `FilesAreFreed` |
| `collector_power` | power losses, space, fsync and query faults, stale readings; two machines | `LetGoIsKept`, `TimesInOrder` |
| `collector_live` | process crashes, full journal, fsync faults, forgotten fingerprints, two readings in a second, fair scheduling | `CountedOnce`, `ReplayAddsNothing`, `EventuallyLetGo` |
| `ledger_books` | eight scenes of a machine, below | what is booked is what was made, used and said: `HourlyIsExact`, `BookedWasMade`, `BookedWasUsed`, `NothingForgotten`, `MetersAsObserved`, `AlarmsMatch`, `EventsAreRises`, `BatteryKept` |
| `cache_reloads` | overlapping reloads, lookups, two changes of the table | `CachedWasSo`, `RefusedWasUnknown` |
| `journal_unsynced`, `flusher_clock`, `collector_space` | | violations, section 6 |

Bounds. Three readings (two of one machine, one `late` that carries no state
and is the record the database refuses; two readings for liveness), numbers up
to 4 in the journal runs and 3 in the writer's, files of 2 records (1 where
files and passes should alternate faster), batches of 2, room for 2 records (3 in `journal_process` and for liveness).
With these a journal has a full file and another behind it, a batch ends
inside a file, at its end and across two, the journal becomes full, a refused
append uses a number up, and a crash falls between any two steps. Numbers
bound appends over all restarts: when they are used up the model can still
restart, read, sync, and fail. A fourth reading repeats the same situations
with one more file between them. `r1` and `r2` are symmetric; liveness runs use
no symmetry. Deadlock is checked but in `ledger_books`, where a scene ends when
all of it is recorded and written, and in `cache_reloads`, whose clock has a
bound.

The collector's runs publish three readings at most and record three or four, so
that every reading can be lost on the way, recorded and replayed, and one of
them recorded twice. `collector_power` checks neither `ReplayAddsNothing`
(`collector_space`) nor `CountedOnce` (section 6), which do not hold with its
faults; of power losses alone section 5 proves both. The proofs suppose something
of the feeds, and `FeedsAssumption` of `MCCollector` has TLC check that these
feeds have it: counters are never reset (`NeverReset`), and where power is lost
they do not go back from one reading to a later one (`Forward`) and no second
has two readings (`OneASecond`). After a reset the same counter values stand for
new parts, and `CountedOnce` would have to tell them apart. Resets are in
`ledger_books`.

In `ledger_books` an hour has six seconds, a day 24, the zone is three ahead,
and a silence longer than four is a gap, so that intervals of a few seconds
cross an hour, a shift that changes inside an hour, midnight, and time in no
shift. A statement of the meter table has two rows, so that a batch can end one
because it is full. Four or five records are accepted in a scene, out of three
to six messages. `MCLedger` has TLC check that the scenes have what the proofs
suppose of them (`NamesNoBattery`, `KeptWhereSold`, `SteadyIsSo`); `Boundaries` and
`Replayed` are the steady ones:

| Scene | Happens |
|---|---|
| `Boundaries` | meter and counter only go up: snapshots with and without a meter value, a packet and a reading of zero between them, two counts in a second, a silence |
| `Replayed` | the same, with restarts that forget the fingerprints |
| `Outside` | time in no shift; a packet in a snapshot's second; restarts |
| `Misreads` | a counter that is reset, a new meter, an impossible reading, a long silence, stale readings, a lost journal |
| `Sold` | another owner, within a second and later, while records of the old one wait; restarts |
| `SameSecond` | an alarm that opens, closes, rises and falls in one second; a lost journal |
| `Raised` | servo alarm, emergency stop, the bare flag and the top alarm; a lost journal |
| `Batteries` | a battery low, named by its bits, unknown and well again; the CNC's warning; a lost journal |

In `cache_reloads` a unit is 15 seconds: the machines are reloaded every two,
the shifts every four, a negative entry counts for two and a query takes two at
most. The clock goes to five, so that there are two timed reloads and one of a
connection that may end in any order; there are two keys, one of which can push
the other out of the negative cache, and two changes of the table.

## 4. Fairness

`FairSpec` (run `flusher_live`) assumes weak fairness of opening the journal,
starting the writer, its fsync steps, its pass, the quarantine and the end of an
orphaned transaction: the event loop runs, the disk answers, PostgreSQL notices
a dead client. It assumes strong fairness of applying a transaction and of its
COMMIT being answered: `run()` retries for ever (`flusher.js:255-271`), so an
outage that ends is met by a retry. It is stated for each `mode`, or a batch
that always succeeds would make up for a record that never does. Nothing is
assumed of appends, of the timer, of errors or of crashes; the properties ask
only for what holds once the process stops crashing (`<>[]up => ...`).

`FairSpec` of `Collector` (run `collector_live`) assumes weak fairness of the
restart (pm2), the reconnect (`reconnectPeriod`), the event loop and a
succeeding fsync. Strong fairness is assumed where something is tried again for
ever: a reading whose admission is refused is replayed by the broker, and the
journal has room again as the writer goes on, so it is admitted in the end; an
acknowledgement is sent again after each replay. `EventuallyLetGo` is about runs
in which the process at last stays up with a working journal and the network
stops breaking connections. The connections the collector breaks itself are no
part of that premise, except that one may be lost while a message of an earlier
connection is in hand. Runs that use up `MaxLog` are left out of it.

## 5. Theorems

For all values of the constants that satisfy `JournalAssumption`,
`PoisonAssumption` (the writer's), `CollectorAssumption`, `LedgerAssumption` or
`CacheAssumption`, and for every set of faults unless one is excluded here:

| Theorem | Statement | Faults excluded | Argument |
|---|---|---|---|
| `JournalProofs!Typing` | `Spec => []TypeOK` | | inductive as it stands; `FiniteInv` supplies that the sets whose `Max` and `Min` are taken are finite and not empty |
| `JournalProofs!Durability` | `Spec => []DurableIsOnDisk` | process | `DurabilityInv` |
| `JournalProofs!Order` | `Spec => []FilesInOrder` | | `OrderInv` |
| `JournalProofs!StampsGrow` | `Spec => StampsOnlyGrow` | clock | `StampsInv` |
| `JournalProofs!SyncFile` | `Spec => []SyncKeepsItsFile` | | `BoundsInv` |
| `JournalProofs!NoneSkipped` | `Spec => []NothingSkipped` | | `ReaderInv` |
| `JournalProofs!Accepted` | `Spec => []AcceptedIsKept` | process and power together | `AcceptedInv` |
| `JournalProofs!StatesSurvive` | `Spec => []BaselineKept` | power | `StateInv` |
| `FlusherProofs!FlusherTyping` | `FlusherSpec => []FlusherTypeOK` | | from the journal's typing, step by step |
| `FlusherProofs!ExactlyOnce` | `FlusherSpec => []WrittenOnce` | | `WriteInv` |
| `FlusherProofs!PassedIsSettled` | `FlusherSpec => []CheckpointCoversSettled` | clock | `SettledInv` |
| `FlusherProofs!NeverLost` | `FlusherSpec => []NothingLost` | clock; process and power together | `SettledInv` with `AcceptedInv` |
| `FlusherProofs!WrittenIsSynced` | `FlusherSpec => []NothingWrittenUnsynced` | process | `SyncedInv` |
| `FlusherProofs!OnlyPoisonAside` | `FlusherSpec => []OnlyPoisonQuarantined` | | `PoisonInv` |
| `FlusherProofs!Implementation` | `FlusherSpec => ImplementsDelivery` | clock; process and power together | `DeliveryInv` and a step simulation |
| `CollectorProofs!CollectorTyping` | `Spec => []TypeOK` of `Collector` | | step by step |
| `CollectorProofs!LetGo` | `Spec => []LetGoIsKept` of `Collector` | process and power together (`CollectorAssumption`) | `KeptInv` |
| `BookingProofs!RecordedInOrder` | `Spec => []TimesInOrder` of `Collector`, given `"space" \in Faults => OneASecond` | | `OrderInv` |
| `BookingProofs!PartsCountedOnce` | `Spec => []CountedOnce`, given `NeverReset`, `Forward` where power is lost or a rotation can fail, `OneASecond` where a rotation can fail | space and late together | `CountInv` |
| `BookingProofs!ReplaysAddNothing` | `Spec => []ReplayAddsNothing`, given `NeverReset`, and `Forward` where power is lost | space | `CountInv` |
| `LedgerProofs!OpenRowsAreActive` | `Spec => []AlarmsMatch` of `Ledger`, given `NamesNoBattery` | | `LedgerInv` |
| `LedgerProofs!EventsAreNews` | `Spec => []EventsAreRises`, given `NamesNoBattery` | | `LedgerInv` |
| `LedgerProofs!WarningsAreKept` | `Spec => []BatteryKept`, given `NamesNoBattery` and `KeptWhereSold` | moves and loses together | `LedgerInv` |
| `LedgerProofs!MetersAreMerged` | `Spec => []MetersAsObserved` | | `MeterInv` |
| `ProductionProofs!HoursAreExact` | `Spec => []HourlyIsExact` of `Ledger`, given `KeptWhereSold` | moves and loses together | `BookInv` |
| `ProductionProofs!NothingIsForgotten` | `Spec => []NothingForgotten`, given `SteadyIsSo` | moves, loses, ages in a steady scene | `BookInv` and `SteadyInv` |
| `ProductionProofs!LedgerTyping` | `Spec => []TypeOK` of `Ledger` | | `BookInv` |
| `MachineCacheProofs!CacheTyping` | `Spec => []TypeOK` of `MachineCache` | | `RefusedInv` |
| `MachineCacheProofs!CacheFreshness` | `Spec => []CachedWasSo` | | `CacheInv` |
| `MachineCacheProofs!Refusals` | `Spec => []RefusedWasUnknown` | | `RefusedInv` |

The exclusions are what the program depends on, not what the proofs need to get
through: `journal_unsynced` violates what is accepted when a process crash and a
power loss come together, `flusher_clock` what passes the checkpoint when the
clock is set back, `collector_space` and section 6 what a rotation that fails
after the write does to the readings' order and their parts, and section 6 what
a power loss does to the states.

**Durability.** `DurableIsOnDisk` is not inductive: an fsync that finishes now
was started with a file and a number before appends and rotations it did not
see. `DurabilityInv` adds what makes it end well: records of files already left
are on the medium; numbers in the active file are at most `lastSeq`; an fsync in
flight covers, together with what is on the medium already, everything up to
its number; the file `syncThrough()` syncs is the active one. After a process crash
the page cache holds unsynced records that `open()` counts as durable (section
6), which is why process crashes are excluded.

**Order.** A file is named by the first number it may hold, and a number is
unique only because `nextSeq()` is above both the last one and what recovery
found. `OrderInv` says that a record's number is no lower than its file's name,
that the active file is the last one, and that a file that is due to be deleted
has a name of at most `lastSeq`. `StampsInv` says that no number given out is
above both `lastSeq` and the clock, so that a recovery that finds nothing still
starts above them all, unless the clock was set back.

**The file of an fsync.** While `syncThrough()` waits, `append()` may rotate and
the timer's fsync may finish. `SyncKeepsItsFile` needs the bounds of
`durableSeq` (`DurableBounds`): it lies between the records of the files that
were left and `lastSeq`, and is `lastSeq` when a rotation has closed its file and
could not open the next. So no fsync is started without a file, and none is
pending for a file that is left, because `append()` does not rotate beside one.
Only bounds on numbers are needed, not that the records are on the medium, and
so it holds with process crashes too.

**The reader.** `ack()` moves the cursor to the last record of a batch that was
read earlier, in another list of files. `ReaderInv` says that the files before
a position hold only records at or below its number, and that a batch is the
first of what was unread, and all of it unless it was full. Then nothing
between the old and the new cursor is passed over. `AcceptedInv` adds
that files named before this process started are on the medium, so that what
was promised is either there, or consumed, or under an fsync that succeeded.

**States.** `dropConsumed()` deletes files on the ground of `state.json`. A
state in memory that is not durable yet has its line in the active file, which
is not deleted; one that is durable goes into `state.json` before its file goes
(`StateInv`, with the bounds above).

**Exactly once.** Nothing in `WrittenOnce` prevents a second
transaction with the same record. `WriteInv` adds that every written reading's
number is at most the checkpoint in the database, that the transaction in the
database writes only records above the checkpoint and moves it to their last,
and that a reading has one number for ever. The lock on the checkpoint row
(`Apply` waits for `tx` to be closed) is what makes it inductive: it holds with
orphaned transactions, lost answers and a clock set back alike.

**Nothing lost.** What a pass took is still to do or done with; a transaction
covers every record up to the checkpoint it moves to; numbers still to come are
above the checkpoint in the database and the one in a transaction
(`SettledInv`). The last is where the clock comes in. `SyncedInv` carries the
number a pass synced through its awaits, and `PoisonInv` that only a group of
one refused record reaches the quarantine.

**Delivery.** The mapping takes the readings whose records any crash leaves as
held, the rows that were committed as written, and the quarantine file as set
aside. `DeliveryInv` adds that the writer has in its hands only what the
collector answers for, that a transaction writes no record the database refuses,
that what is set aside has a number, and that a record that is done with is one
no crash takes away. Each step of `FlusherNext` is then `Hold`, `Store`,
`Reject`, `Release` or a stutter of `Delivery`; deleting a file is a `Release`,
which the abstract specification allows only of what is done with.

**The message side.** A PUBACK may rest on a record, but also on the fingerprint
of an earlier message, or on a state that was taken up at a restart. `KeptInv`
says of each of these — every PUBACK given or under way, the message just
handled, the fingerprints, the observations in the states — that its observation
is ignored by intent or has a record that the next crash leaves; and of a
message that waits for its fsync, that the number it waits for is its own
record's. `SurvivorsStay` is the step that counts: no fault takes a record away
that was in that set. `open()` takes states only from the records left,
which is why a duplicate of a recovered state may be acknowledged at once. That
ceases to hold when a process crash is followed by a power loss
(`journal_unsynced`), and `CollectorAssumption` excludes the two together.

**The order of readings.** `keepLate()` compares a reading with the machine's
state in memory, and a crash or a rejected append can leave that behind the
journal. Without a full disk `AheadInv` says that only the record whose fsync
is waited for, or one of a process whose journal has failed, is ahead of its
state: recovered states are those of the last records left (`RunInv`,
`SnapshotInv`). Where a rotation fails after the write, the record is ahead and
the process goes on. What saves the order then is the broker: it resends what it
is owed in the order it was published, so that the next reading of that machine
that is not settled is the same one again. `SettledInv` says what is settled
(behind the machine's state, ignored or too old) of everything owed, acknowledged,
in hand and remembered, and that a settled reading stays so. That takes one
reading a second: of two, the one resent need not be the one recorded.

**Parts.** A record books the counts between its baseline and the one before.
`BookedInv` says that the state a reading is compared with has booked the parts of every
record but those of `AheadInv`, so that a new record's parts are above all
earlier ones (`Apart`); `BaseInv` that baselines do not go down from record to
record. Process crashes leave a state for every machine with a record
(`FoundInv`), with its high-water mark. A power loss can leave none, and then
`hydrate()` takes the last raw count: the theorems then suppose counters that only
grow with the device's clock, and `BaseInv` says that the baseline is that count.

**The caches.** `CachedWasSo` says nothing of queries that are still under way.
`CacheInv` adds that the table's history is in the order of time, and
that a query remembers a version that was the table's when it was sent, no more
than `QueryTime` ago. Then every row a reload installs was so at that time or
later; and so was the row of a lookup that was asked before a reload ended and
is put back after it. The argument bounds nothing but the time a query takes:
any number of reloads may overlap. `RefusedWasUnknown` needs, of each entry of the
negative cache, that its key was unknown a query's time before it was made
(`NegativeInv`), and that no key has two entries, through entries that expire,
are made again, or are pushed out. The expiry walk keeps an order-preserving part
of the entries (`OnlyIsPart`), which is proved of its recursive function by a
least counterexample instead of induction.

**Alarms.** For any set of scenes — any messages, owners, shifts and times — the
rows of `machine_alarms` are compared with what the last written reading of each
company said. `LedgerInv` has four parts. `LogInv`: each reading in the journal
goes on from the one before it of its company, so that its transition opens,
changes and closes just what differs between the two, or reconciles if the
process did not know what was open (`Turns`). `StateInv`: the process's state
fits the journal, also between a reading and its write, after a restart, after
the machine was sold, and when `hydrate()` has read the state from the tables;
a process that knows nothing has a journal in which nothing waits that would
tell it. `AlarmInv`: no row began, ended or was seen after the last written
reading of its company, so that every guard on time and arrival in the `UPDATE`s
and in the `INSERT` passes for the next one, also within a second; the open rows
have the keys and the severities of that reading, one row each. `EventInv`: the
events are those of the rises so far. A batch is a fold over its records; since
the fold of the library is over a recursive function, `LedgerProofs` shows what
a batch leaves by a least counterexample, without an induction theorem.

A battery's alarm is closed only by that battery's diagnostic, unlike any other.
`NamesNoBattery` says that no alarm a payload names has the key of a battery; one
that did would stay open when the payload ceases to name it, and `AlarmsMatch`
would not hold. `BatteryKept` needs moreover that the process's batteries are
those of the company: `KeptWhereSold` excludes a machine that is sold where its
journal may be lost, and section 6 says what happens to one.

**Meters.** `MeterInv` says that `energy_meter_readings` has, of each second that
was observed by the written records, the row of the company that was first, and
in it of each field the last value of a standalone packet, or else the last
value. A batch is not one merge: its observations are folded in the application
until a statement is full or another company has the second, and the rows of a
statement are merged into the table only then. `MergesAssociate` is the fact
about the code that makes this harmless: a row merged with what two
observations come to is the row merged with the one and then the other, also
where a packet's value outranks a snapshot's. With it, executed statements and
the rows still gathered say together, after each observation
(`GatheredIsObserved`), what a statement for every observation would have said;
and since a statement ends before a second company joins a row, the guard of
`ON CONFLICT` turns away the same observations either way. The theorem holds for
any number of rows a statement may have and any batches, and needs nothing
beyond `LedgerAssumption`.

**Hours.** `HourlyIsExact` compares sums with a count of seconds, and nothing in
it says which record a second came from. `BookInv`, which needs no hypothesis
for what `LedgerTyping` uses of it, has the sums as they are stored:
`HourlyBooked` says that `production_hourly` is what one upsert of all slices
written so far would have left, `JournalBooked` that each record has a finite
set of slices with quantities that are natural numbers, and is credited with the
time since the last accepted reading of its company, up to `GapLimit`
(`Accounted`, `Clocked`); `ProcessBooked` carries the clock and the meter of the
state through restarts, an empty journal and another owner. The argument from
there to the property has three parts.

- *One interval.* The cuts of an interval are finitely many, and from one to the
  next no hour begins and no shift begins or ends. So every second of a slice is
  in the slice's hour, and in the shift that is looked up at its middle
  (`SecondPlaced`): the middle and not the beginning matters, since a shift's end
  still belongs to it. That the hour boundaries fall on hours of the day
  is used (`Day % Hour = 0`), and that shifts begin and end within a day.
- *A second.* The records of a company are in the order of its clock
  (`ReadingsOrdered`), so a second lies between two of them that follow each
  other, and only the later one's slices can have it (`SlicesApart`, `TellsOf`).
  It is credited by what the machine was doing at the earlier, which is the
  reading that `Teller` names, or by none where the silence was too long or the
  second is in no shift.
- *A row.* The sum over the slices of a row is then the number of the seconds
  in them, which are the seconds that are told of in that row (`RowCounts`).
  That a sum over two sets apart is the sum of the two sums, and that it counts
  where all terms are lengths, is proved of the recursive function behind the
  library's folds by a least counterexample (`NumberLemmas`).

A batch's upsert adds to the rows what one upsert of everything would have had
for them (`PlacedNext`, `CreditsAdd`), so the batches do not matter.
`KeptWhereSold` is needed here for the state that `hydrate()` reads, which
carries no company (section 6): a machine that is sold after its journal was
lost has the old owner's clock, and its first record for the new one would be
credited with time before it. Where the state is known to belong, nothing is
assumed.

**Conservation.** `NothingForgotten` compares what all rows and gaps of a company
come to with two values of the process's state, and no step keeps it by itself:
between an accepted reading and its batch it does not even apply. `SteadyInv`
says of the journal what the tables will have: what its slices and its gaps come
to is what the counter and the meter climbed from the first record that has a
value to the state (`Conserved`, `Climbed`), the last record that has a state has
that of the process, so that a restart finds it (`LastKept`), and `ingest_gaps`
has the gaps of what is written. A step of the journal is then one fact about
one record: it has, in its slices and its gap together, what the counter and the
meter step by (`RecordHas`). That is where the cases of the code meet
(`SnapshotHas`, `PacketHas`): a silence of which the first minute goes into
rows and the quantities into the gap; a meter whose last value is older than the
last reading, so that its step is shared out over another interval than the
parts; a second reading of one second; a value that is too old to be credited.
`SharedOut` and `LastHasAll` add up the slices of one interval, which
`SlicesSplit` (above) says are apart and leave no second out. From the journal
to the tables it is sums: rows come to what slices do (`RowsCredited`), whatever
the rows are.

`SteadyIsSo` says what a steady scene is. No second of it is without a shift,
since `hourlySlices()` credits none there, and it keeps owner and journal. Of two
messages, the later has a count that a step trusts, or one that `regressed` lets
go of, and a meter value that is no lower and no misread; in one second the meter
shows one value. And an energy leaves no rest when it is divided by a number
of seconds up to `GapLimit`: quantities are integers in the model and decimals in
the code, so a rest that the model's `\div` would drop is not lost in the code,
except for rounding. Restarts, repetitions, late readings, batches, silences and
packets between snapshots are not restricted.

**What is only model-checked.** Liveness, which is beyond the prover. Of
`Ledger`:

- `BookedWasMade` and `BookedWasUsed` compare what is booked with what was sent,
  in the order of the scene. They do not hold of every scene: section 6 has
  replays of two meter values of one second and misreads that are too low, and a
  counter that was reset shows values again that it had before. The scenes leave
  these out one by one; a theorem would have to say as hypotheses what they have
  in common, and those have not been worked out. For parts `PartsCountedOnce` has
  them, and is proved of `Collector`.

## 6. Where code and comments disagree

- `collector_space`: `append()` rotates after the write too. When the new file
  cannot be opened it throws although the record is in the journal; the replay,
  compared with the state before it, is recorded with its parts once more.
- `journal_unsynced`: after a process crash `open()` takes what the page cache
  holds as durable. A replay of the last reading is acknowledged as a duplicate
  without a sync, and a power loss soon after takes it.
- `flusher_clock`: with every file consumed, `state.json` holding no later number
  and the clock set back, numbers start again below the database's checkpoint;
  the writer skips accepted readings as already written.

Met while modelling, and in no run:

- `saveStates()` leaves a machine out altogether when its newest state is not
  durable yet (`journal.js:200`), also when an older durable state of it is in
  a file `dropConsumed()` is about to delete. A power loss before the next fsync
  then loses the machine's counters and clock. `hydrate()` takes the last raw
  count instead of the high-water mark; when that was a replayed lower reading
  of the same second, the parts above it are booked again.
- Energy has no high-water mark as parts have. Two meter values of one second,
  replayed after a restart has forgotten the fingerprints, are a fall and a rise
  of the meter, and the rise is booked twice (`message-processor.js:90`), where
  `docs/PARTIAL_ENERGY_MESSAGES.md:21` says that a timestamped replay is
  deduplicated. For the same reason a misread that is too low, followed by the
  true value, books the difference.
- A rotation that fails after the write has more consequences than
  `collector_space` shows. The record is ahead of its machine's state, and when an
  outage makes its replay too old, the replay is kept aside and the next reading is
  compared with the old state: it books the rejected one's parts again
  (`CountedOnce`). And of two different readings of one second, resent
  after a restart or after their fingerprints were forgotten, the earlier can be
  recorded after a later reading (`TimesInOrder`).
- The state `hydrate()` reads from the database carries no company
  (`message-processor.js:40`), so that `baseline()` would take it for any: a
  machine whose state was read that way and is then sold keeps its counters as
  the baseline for its new company until a reading is accepted. Its battery
  warnings too: with scenes in which a machine is sold after its journal was lost
  TLC finds the old owner's low battery opened as an alarm of the new one
  (`BatteryKept`).
- `controller-identity.js:5` says "once an hour per machine"; that holds while
  the identity does not change.

## 7. Plan

In this order; each with its runs, and with proofs where the property is an
invariant of a state machine.

1. `Journal`, `Flusher`, `Delivery` and their proofs — done.
2. `Collector` and `PartsCounter` — done, with the proof of `LetGoIsKept`.
3. `MachineCache` and its proof — done.
4. `Ledger` with `Hourly`, `EnergyMeter`, `AlarmRules`, `AlarmTable` and
   `MeterTable` — done.
5. Proofs: of every invariant of `Journal`, `Flusher`, `Collector` and
   `MachineCache` and of the refinement of `Delivery` — done.
6. Proofs about `Ledger`: the alarm table, its events, the batteries, the meter
   table, the time in `production_hourly`, and its types — done. What is left is
   `BookedWasMade` for scenes without resets, along the argument of
   `PartsCountedOnce`.
7. `Ledger` over `Flusher` instead of over a sequence, for a machine that comes
   back to a company while its records wait.

## 8. Not modelled

- Signals that are only stored (`power-signals.js`, what `condition-signals.js`
  decodes beside alarms, `buffer.js`, alarm texts, controller identity): each
  converts one payload and keeps nothing that ingestion reads. Of the
  conversions those that decide what is booked and which alarms are open are
  modelled.
- The live state published to Redis, which changes nothing else.
- Ingress lag affects log lines and metrics only; health and logging report.
- Configuration and the schema check run once before anything else.
- `alarm-log.js` and `createMeterWriter()` are used by nothing, `tools/` by
  hand.
- Of the process, the order of start and shutdown is in `Flusher` and
  `Collector` as what each may find done; deadlines and exit codes are not.
