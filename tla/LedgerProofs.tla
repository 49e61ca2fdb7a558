---------------------------- MODULE LedgerProofs ---------------------------
(***************************************************************************)
(* Proofs that machine_alarms says what the last accepted reading of a     *)
(* company said, for any messages, batches, restarts and owners: which     *)
(* alarms are open, which events there are, and which batteries; and that  *)
(* energy_meter_readings has what was observed, however it was batched.    *)
(***************************************************************************)
EXTENDS Ledger, NumberLemmas, SequenceTheorems, FiniteSetTheorems

-----------------------------------------------------------------------------
(* A journal lg: which reading of a company is the last of the first n     *)
(* records, and what a reading says; none says nothing.                    *)
LastIn(lg, c, n) == Max({0} \cup {i \in Places(lg, c) : i <= n})
ActiveIn(lg, i)  == IF i = 0 THEN <<>> ELSE lg[i].state.alarms
TimeIn(lg, i)    == IF i = 0 THEN 0 ELSE lg[i].alarm.at
Batteries(active) == {k \in DOMAIN active : IsBattery(k)}

(* What a state says of a company's alarms, of which the first n records   *)
(* say which are open.                                                     *)
Fits(lg, st, c, n) ==
  LET p == LastIn(lg, c, n) IN
  /\ DOMAIN st = DOMAIN NullState
  /\ st.time \in Nat /\ TimeIn(lg, p) <= st.time
  /\ st.codesKnown \in BOOLEAN
  /\ st.codesKnown => st.alarms = ActiveIn(lg, p)
  /\ IsFiniteSet(st.battery) /\ Batteries(ActiveIn(lg, p)) \subseteq st.battery
  /\ KeptWhereSold => st.battery = Batteries(ActiveIn(lg, p))

(* What has to change in the table, whose open alarms were those of before.*)
Turns(t, before) ==
  \/ /\ ~t.reconcile
     /\ t.opens   = DOMAIN t.active \ DOMAIN before
     /\ t.updates = {k \in DOMAIN t.active \cap DOMAIN before : before[k] # t.active[k]}
     /\ t.closes  = DOMAIN before \ DOMAIN t.active
  \/ /\ t.reconcile
     /\ t.opens = DOMAIN t.active /\ t.updates = {}
     /\ \A k \in DOMAIN before \ DOMAIN t.active : IsBattery(k) => k \in t.cleared

(* A record of the journal: a reading moves on from the one before it of   *)
(* its company; whatever else there is changes no alarm.                   *)
RawSound(lg, i) ==
  LET rec == lg[i]  p == LastIn(lg, rec.company, i - 1) IN
  /\ ~Message(rec).packet
  /\ rec.alarm.at = Message(rec).time /\ TimeIn(lg, p) <= rec.alarm.at
  /\ rec.alarm.company = rec.company /\ rec.alarm.received = i
  /\ rec.alarm.active = rec.state.alarms /\ Turns(rec.alarm, ActiveIn(lg, p))
  /\ IsFiniteSet(DOMAIN rec.state.alarms)
  /\ KeptWhereSold => rec.state.battery =
       BatteryCodes(BatteryObserved(Message(rec).battery), Batteries(ActiveIn(lg, p)))

RecordSound(lg, i) ==
  LET rec == lg[i] IN
  /\ rec.kind \in {"raw", "energy", "late"} /\ rec.message \in DOMAIN scene.messages
  /\ \A j \in 1..i : lg[j].company # scene.owner => rec.company = lg[j].company
  /\ rec.kind # "late" => rec.state.company = rec.company /\ Fits(lg, rec.state, rec.company, i)
  /\ IF rec.kind = "raw" THEN RawSound(lg, i) ELSE rec.alarm = NoTransition

LogInv ==
  /\ scene \in Scenes /\ company \in DOMAIN scene.shifts
  /\ log \in Seq(Range(log)) /\ done \in 0..Len(log) /\ lost \in 0..done
  /\ \A i \in 1..Len(log) : RecordSound(log, i) /\ log[i].company \in {scene.owner, company}

(* The process: what it knows fits the journal, and if it knows nothing the*)
(* journal says nothing that is not in the tables.                         *)
StateInv ==
  /\ known \in BOOLEAN
  /\ ~known => \A i \in (lost + 1)..Len(log) : log[i].kind = "late"
  /\ "loses" \notin scene.flags => lost = 0
  /\ known => state.company \in {NoCompany, scene.owner, company}
  /\ known /\ Belongs(state) => Fits(log, state, company, Len(log))
  /\ known /\ ~Belongs(state) => Places(log, company) = {}
  /\ known /\ state.company = NoCompany =>
       /\ ~state.codesKnown
       /\ "loses" \notin scene.flags /\ KeptWhereSold => state.battery = {}

-----------------------------------------------------------------------------
(* The tables.                                                             *)
RowFields == {"company", "key", "started", "ended", "endedBy", "severity", "seenAt", "seenBy",
              "changed", "continued"}

(* A row that was written no later than the reading p, at a time.          *)
RowSound(row, time, p) ==
  /\ row.started \in Nat /\ row.ended \in Nat /\ row.seenAt \in Nat /\ row.seenBy \in Nat /\ row.endedBy \in Nat
  /\ row.started <= time /\ row.ended <= time /\ row.seenAt <= time
  /\ row.seenBy <= p /\ row.endedBy <= p

OpenOf(rows, c) == {row \in rows : row.company = c /\ row.ended = Open}

TableFits(rows, c, time, p, active) ==
  /\ \A row \in rows : row.company = c => RowSound(row, time, p)
  /\ {row.key : row \in OpenOf(rows, c)} = DOMAIN active
  /\ \A row \in OpenOf(rows, c) : row.severity = active[row.key]
  /\ \A r1, r2 \in OpenOf(rows, c) : r1.key = r2.key => r1 = r2

FitsAt(lg, rows, c, n) ==
  LET p == LastIn(lg, c, n) IN TableFits(rows, c, TimeIn(lg, p), p, ActiveIn(lg, p))

TableAt(table, n) ==
  /\ \A row \in table.rows : DOMAIN row = RowFields
  /\ \A c \in DOMAIN scene.shifts : FitsAt(log, table.rows, c, n)

AlarmInv == TableAt(alarms, done)

AllInv == LogInv /\ StateInv /\ AlarmInv
-----------------------------------------------------------------------------
(* Max of some places is one of them, and bounds them;                     *)
LEMMA LastPlace ==
  ASSUME NEW n \in Nat, NEW S \in SUBSET (0..n), S # {}
  PROVE  Max(S) \in S /\ Max(S) \in Nat /\ \A x \in S : x <= Max(S)
<1>1. Max(S) \in S /\ \A x \in S : x <= Max(S)
  BY MaxIsGreatest
<1>2. \A x \in S : x \in Nat
  OBVIOUS
<1> QED  BY <1>1, <1>2

(* and there is one such place.                                            *)
LEMMA LastPlaceIs ==
  ASSUME NEW n \in Nat, NEW S \in SUBSET (0..n), NEW k \in S, \A x \in S : x <= k
  PROVE  Max(S) = k
<1>1. Max(S) \in S /\ Max(S) \in Nat /\ k <= Max(S)
  BY LastPlace
<1> QED  BY <1>1

-----------------------------------------------------------------------------
(* Write takes a batch with FoldLeft: over the places of the batch, from   *)
(* the greatest down.                                                      *)
Folds(iter, table, batch, n) ==
  iter = [s \in SUBSET (1..n) |->
            IF s = {} THEN table
            ELSE WriteAlarmTransition(iter[s \ {Max(s)}], batch[Max(s)].alarm)]

(* There is such a function, or there would be a least number without one. *)
LEMMA FoldExists ==
  ASSUME NEW table, NEW batch, NEW n \in Nat
  PROVE  \E iter : Folds(iter, table, batch, n)
<1> DEFINE Without == {k \in Nat : ~\E iter : Folds(iter, table, batch, k)}
<1> SUFFICES ASSUME Without # {}  PROVE FALSE
  OBVIOUS
<1>1. PICK k \in Without : \A x \in Without : k <= x
  <2>1. Without \in SUBSET Nat
    OBVIOUS
  <2> HIDE DEF Without
  <2> QED  BY <2>1, LeastExists
<1>2. k \in Nat /\ ~\E iter : Folds(iter, table, batch, k)
  BY <1>1
<1>3. CASE k = 0
  <2> DEFINE f == [s \in SUBSET (1..0) |-> table]
  <2>1. \A s \in SUBSET (1..0) : s = {}
    OBVIOUS
  <2>2. Folds(f, table, batch, 0)
    BY <2>1 DEF Folds
  <2> QED  BY <1>2, <1>3, <2>2
<1>4. CASE k # 0
  <2>1. k - 1 \in Nat /\ k - 1 \notin Without
    BY <1>1, <1>2, <1>4
  <2>2. PICK f : Folds(f, table, batch, k - 1)
    BY <2>1
  <2> DEFINE g == [s \in SUBSET (1..k) |->
                     IF k \in s THEN WriteAlarmTransition(f[s \ {k}], batch[k].alarm) ELSE f[s]]
             h == [s \in SUBSET (1..k) |->
                     IF s = {} THEN table
                     ELSE WriteAlarmTransition(g[s \ {Max(s)}], batch[Max(s)].alarm)]
  <2>3. ASSUME NEW s \in SUBSET (1..k)  PROVE g[s] = h[s]
    <3>1. CASE k \in s
      <4>1. Max(s) = k
        <5>1. s \in SUBSET (0..k) /\ \A x \in s : x <= k
          BY <1>2
        <5> QED  BY <1>2, <3>1, <5>1, LastPlaceIs
      <4>2. g[s \ {k}] = f[s \ {k}]
        OBVIOUS
      <4> QED  BY <3>1, <4>1, <4>2
    <3>2. CASE k \notin s
      <4>1. s \in SUBSET (1..(k - 1)) /\ g[s] = f[s]
        BY <1>2, <3>2
      <4>2. CASE s = {}
        BY <2>2, <4>1, <4>2 DEF Folds
      <4>3. CASE s # {}
        <5>1. g[s \ {Max(s)}] = f[s \ {Max(s)}]
          BY <3>2
        <5>2. f[s] = WriteAlarmTransition(f[s \ {Max(s)}], batch[Max(s)].alarm)
          BY <2>2, <4>1, <4>3 DEF Folds
        <5> QED  BY <4>1, <4>3, <5>1, <5>2
      <4> QED  BY <4>2, <4>3
    <3> QED  BY <3>1, <3>2
  <2>4. g = h
    <3>1. g = [s \in SUBSET (1..k) |-> g[s]] /\ h = [s \in SUBSET (1..k) |-> h[s]]
      OBVIOUS
    <3> HIDE DEF g, h
    <3> QED  BY <2>3, <3>1
  <2>5. Folds(g, table, batch, k)
    <3> HIDE DEF g
    <3> QED  BY <2>4 DEF Folds
  <2> QED  BY <1>2, <2>5
<1> QED  BY <1>3, <1>4

(* The tables after each transition of a batch, and after the batch.       *)
WrittenInOrder(after, table, batch, n) ==
  /\ after[0] = table
  /\ \A i \in 1..n : after[i] = WriteAlarmTransition(after[i - 1], batch[i].alarm)
  /\ WriteAlarms(table, batch) = after[n]

(* So a batch is written transition after transition.                      *)
LEMMA BatchInOrder ==
  ASSUME NEW table, NEW batch, NEW n \in Nat, DOMAIN batch = 1..n
  PROVE  \E after : WrittenInOrder(after, table, batch, n)
<1> DEFINE iter  == CHOOSE iter : Folds(iter, table, batch, n)
           after == [i \in 0..n |-> iter[1..i]]
<1>1. Folds(iter, table, batch, n)
  BY FoldExists
<1>2. WriteAlarms(table, batch) = iter[1..n]
  BY DEF WriteAlarms, FoldLeft, MapThenFoldSet, Folds
<1> HIDE DEF iter
<1>3. after[0] = table
  <2>1. 1..0 = {} /\ {} \in SUBSET (1..n)
    OBVIOUS
  <2>2. iter[{}] = table
    BY <1>1, <2>1 DEF Folds
  <2> QED  BY <2>1, <2>2
<1>4. ASSUME NEW i \in 1..n
      PROVE  after[i] = WriteAlarmTransition(after[i - 1], batch[i].alarm)
  <2>1. 1..i \in SUBSET (1..n) /\ 1..i # {}
    OBVIOUS
  <2>2. Max(1..i) = i
    <3>1. i \in Nat /\ 1..i \in SUBSET (0..i) /\ i \in 1..i /\ \A x \in 1..i : x <= i
      OBVIOUS
    <3> QED  BY <3>1, LastPlaceIs
  <2>3. (1..i) \ {i} = 1..(i - 1)
    OBVIOUS
  <2>4. iter[1..i] = WriteAlarmTransition(iter[(1..i) \ {Max(1..i)}], batch[Max(1..i)].alarm)
    BY <1>1, <2>1 DEF Folds
  <2>5. after[i] = iter[1..i] /\ after[i - 1] = iter[1..(i - 1)]
    OBVIOUS
  <2> HIDE DEF after
  <2> QED  BY <2>2, <2>3, <2>4, <2>5
<1>5. after[n] = iter[1..n]
  OBVIOUS
<1> HIDE DEF after
<1>6. WrittenInOrder(after, table, batch, n)
  BY <1>2, <1>3, <1>4, <1>5 DEF WrittenInOrder
<1> QED  BY <1>6

-----------------------------------------------------------------------------
(* The rows of machine_alarms over a transition: as the UPDATEs leave them *)
(* that close and continue,                                                *)
Kept(row, t) == Continued(Closed(row, t), t)

(* what is not closed or continued being as it was,                        *)
LEMMA KeptSame ==
  ASSUME NEW t, NEW row, DOMAIN row = RowFields
  PROVE  /\ DOMAIN Kept(row, t) = RowFields
         /\ Kept(row, t).company = row.company /\ Kept(row, t).key = row.key
         /\ Kept(row, t).started = row.started /\ Kept(row, t).severity = row.severity
         /\ Kept(row, t).seenAt = row.seenAt /\ Kept(row, t).seenBy = row.seenBy
         /\ Kept(row, t).changed = row.changed
         /\ Kept(row, t).ended = Closed(row, t).ended /\ Kept(row, t).endedBy = Closed(row, t).endedBy
         /\ row.company # t.company => Kept(row, t) = row
<1> DEFINE mid == Closed(row, t)
<1>1. /\ DOMAIN mid = RowFields /\ mid.company = row.company /\ mid.key = row.key
      /\ mid.started = row.started /\ mid.severity = row.severity /\ mid.seenAt = row.seenAt
      /\ mid.seenBy = row.seenBy /\ mid.changed = row.changed /\ (row.company # t.company => mid = row)
  BY DEF Closed, OpenFor, RowFields
<1> HIDE DEF mid
<1>2. /\ DOMAIN Continued(mid, t) = RowFields /\ Continued(mid, t).company = mid.company
      /\ Continued(mid, t).key = mid.key /\ Continued(mid, t).started = mid.started
      /\ Continued(mid, t).severity = mid.severity /\ Continued(mid, t).seenAt = mid.seenAt
      /\ Continued(mid, t).seenBy = mid.seenBy /\ Continued(mid, t).changed = mid.changed
      /\ Continued(mid, t).ended = mid.ended /\ Continued(mid, t).endedBy = mid.endedBy
      /\ (mid.company # t.company => Continued(mid, t) = mid)
  BY <1>1 DEF Continued, OpenFor, RowFields
<1>3. Kept(row, t) = Continued(mid, t)
  BY DEF Kept, mid
<1> QED  BY <1>1, <1>2, <1>3 DEF mid

(* and as the one leaves them that changes severities.                     *)
LEMMA ReprioritisedSame ==
  ASSUME NEW t, NEW row, DOMAIN row = RowFields
  PROVE  /\ DOMAIN Reprioritised(row, t) = RowFields
         /\ Reprioritised(row, t).company = row.company /\ Reprioritised(row, t).key = row.key
         /\ Reprioritised(row, t).started = row.started
         /\ Reprioritised(row, t).ended = row.ended /\ Reprioritised(row, t).endedBy = row.endedBy
         /\ row.company # t.company => Reprioritised(row, t) = row
BY DEF Reprioritised, OpenFor, RowFields

(* A transition is later than the rows it finds of its company, and so     *)
(* closes and changes what it says.                                        *)
LEMMA KeptSound ==
  ASSUME NEW t, NEW row, DOMAIN row = RowFields, row.company = t.company,
         NEW from \in Nat, t.at \in Nat, from <= t.at,
         NEW p \in Nat, t.received \in Nat, p < t.received, RowSound(row, from, p)
  PROVE  /\ RowSound(Kept(row, t), t.at, t.received)
         /\ row.ended # Open => Kept(row, t).ended = row.ended /\ Kept(row, t).endedBy = row.endedBy
         /\ row.ended = Open => Kept(row, t).ended = IF ToClose(row, t) THEN t.at ELSE Open
         /\ ~EndedLater(row, t) /\ SeenBefore(Kept(row, t), t)
<1>1. SeenBefore(row, t) /\ (row.ended = Open => OpenFor(row, t)) /\ (row.ended # Open => ~OpenFor(row, t))
  BY DEF SeenBefore, OpenFor, RowSound
<1>2. /\ Closed(row, t).ended = IF row.ended = Open /\ ToClose(row, t) THEN t.at ELSE row.ended
      /\ Closed(row, t).endedBy = IF row.ended = Open /\ ToClose(row, t) THEN t.received ELSE row.endedBy
  BY <1>1 DEF Closed, RowFields
<1>3. ~EndedLater(row, t)
  BY DEF EndedLater, RowSound
<1>4. SeenBefore(Kept(row, t), t)
  BY <1>1, KeptSame DEF SeenBefore
<1>5. RowSound(Kept(row, t), t.at, t.received)
  BY <1>2, KeptSame DEF RowSound
<1> QED  BY <1>2, <1>3, <1>4, <1>5, KeptSame

(* The severity of an open row is the one it is given.                     *)
LEMMA ReprioritisedSound ==
  ASSUME NEW t, NEW row, DOMAIN row = RowFields, row.company = t.company,
         t.at \in Nat, t.received \in Nat, RowSound(row, t.at, t.received), SeenBefore(row, t)
  PROVE  /\ RowSound(Reprioritised(row, t), t.at, t.received)
         /\ row.ended = Open => Reprioritised(row, t).severity =
              IF row.key \in t.opens \cup t.updates THEN t.active[row.key] ELSE row.severity
         /\ row.ended # Open => Reprioritised(row, t) = row
<1>1. row.ended = Open => OpenFor(row, t)
  BY DEF OpenFor, RowSound
<1> QED  BY <1>1 DEF Reprioritised, OpenFor, RowFields, RowSound

-----------------------------------------------------------------------------
(* The rows after a transition: those there were, and those it opens.      *)
NewRow(row, t) == Reprioritised(Kept(row, t), t)
KeptRows(rows, t) == {Kept(row, t) : row \in rows}
OpenedFor(keys, t) == {OpenedRow(t, key) : key \in keys}
NewlyOpen(rows, t) == OpenedFor({k \in t.opens : MayOpen(KeptRows(rows, t), t, k)}, t)

(* writeAlarmTransition() leaves these.                                    *)
LEMMA RowsWritten ==
  ASSUME NEW table, NEW t
  PROVE  WriteAlarmTransition(table, t).rows
           = {NewRow(row, t) : row \in table.rows} \cup NewlyOpen(table.rows, t)
BY DEF WriteAlarmTransition, NewRow, KeptRows, NewlyOpen, OpenedFor, Kept

(* They are rows, and one a transition opens is open, as it says.          *)
LEMMA RowsTyped ==
  ASSUME NEW table, NEW t, \A row \in table.rows : DOMAIN row = RowFields
  PROVE  /\ \A row \in WriteAlarmTransition(table, t).rows : DOMAIN row = RowFields
         /\ \A row \in table.rows :
              NewRow(row, t).company = row.company /\ NewRow(row, t).key = row.key
<1>1. ASSUME NEW row \in table.rows
      PROVE  /\ DOMAIN NewRow(row, t) = RowFields
             /\ NewRow(row, t).company = row.company /\ NewRow(row, t).key = row.key
  BY KeptSame, ReprioritisedSame DEF NewRow
<1>2. \A key : DOMAIN OpenedRow(t, key) = RowFields
  BY DEF OpenedRow, RowFields
<1> QED  BY <1>1, <1>2, RowsWritten DEF NewlyOpen, OpenedFor

(* A row of another company is left alone.                                 *)
LEMMA OthersKept ==
  ASSUME NEW table, NEW t, \A row \in table.rows : DOMAIN row = RowFields,
         NEW c, c # t.company
  PROVE  \A row : row.company = c => (row \in WriteAlarmTransition(table, t).rows <=> row \in table.rows)
<1>1. \A row \in table.rows : row.company = c => NewRow(row, t) = row
  BY KeptSame, ReprioritisedSame DEF NewRow
<1>2. \A row \in NewlyOpen(table.rows, t) : row.company # c
  BY DEF NewlyOpen, OpenedFor, OpenedRow
<1> QED  BY <1>1, <1>2, RowsWritten, RowsTyped

(* So what is open of another company fits as it did,                      *)
LEMMA OthersFit ==
  ASSUME NEW table, NEW t, \A row \in table.rows : DOMAIN row = RowFields,
         NEW c, c # t.company, NEW time, NEW p, NEW active, TableFits(table.rows, c, time, p, active)
  PROVE  TableFits(WriteAlarmTransition(table, t).rows, c, time, p, active)
<1>1. OpenOf(WriteAlarmTransition(table, t).rows, c) = OpenOf(table.rows, c)
  BY OthersKept DEF OpenOf
<1> QED  BY <1>1, OthersKept DEF TableFits

(* Of its own, those stay open that it has among its active ones,          *)
StayOpen(rows, t) == {row \in OpenOf(rows, t.company) : row.key \in DOMAIN t.active}

(* with the severity it says, and it opens those that were not active.     *)
RowsMove(rows, t, before) ==
  /\ NewlyOpen(rows, t) = OpenedFor(DOMAIN t.active \ DOMAIN before, t)
  /\ \A row \in rows : row.company = t.company =>
       /\ RowSound(NewRow(row, t), t.at, t.received)
       /\ NewRow(row, t).company = t.company /\ NewRow(row, t).key = row.key
       /\ NewRow(row, t).ended = Open <=> row \in StayOpen(rows, t)
       /\ row \in StayOpen(rows, t) =>
            /\ row.key \in DOMAIN before /\ row.severity = before[row.key]
            /\ NewRow(row, t).severity = t.active[row.key]
       /\ row \notin StayOpen(rows, t) => NewRow(row, t) = Kept(row, t)

(* So it is, of a transition that goes on from what is open.               *)
LEMMA TransitionRows ==
  ASSUME NEW table, NEW t, \A row \in table.rows : DOMAIN row = RowFields,
         t.at \in Nat \ {0}, t.received \in Nat,
         NEW from \in Nat, from <= t.at, NEW p \in Nat, p < t.received,
         NEW before, TableFits(table.rows, t.company, from, p, before), Turns(t, before)
  PROVE  RowsMove(table.rows, t, before)
<1> DEFINE rows == table.rows
           opened == NewlyOpen(rows, t)
           stays == StayOpen(rows, t)
<1>1. ASSUME NEW row \in rows, row.company = t.company
      PROVE  /\ RowSound(row, from, p)
             /\ row.ended = Open => row.key \in DOMAIN before /\ row.severity = before[row.key]
  BY <1>1 DEF TableFits, OpenOf
<1>2. ASSUME NEW row \in rows, row.company = t.company, row.ended = Open
      PROVE  ToClose(row, t) <=> row.key \notin DOMAIN t.active
  BY <1>1, <1>2 DEF ToClose, Turns
<1>3. ASSUME NEW row \in rows, row.company = t.company
      PROVE  /\ RowSound(Kept(row, t), t.at, t.received) /\ SeenBefore(Kept(row, t), t)
             /\ DOMAIN Kept(row, t) = RowFields /\ Kept(row, t).company = t.company
             /\ Kept(row, t).key = row.key /\ Kept(row, t).severity = row.severity
             /\ Kept(row, t).ended = Open <=> row \in stays
             /\ Kept(row, t).ended # Open /\ row.key \in DOMAIN t.active => ~EndedLater(Kept(row, t), t)
  <2>1. /\ RowSound(Kept(row, t), t.at, t.received) /\ SeenBefore(Kept(row, t), t)
        /\ row.ended # Open => Kept(row, t).ended = row.ended /\ Kept(row, t).endedBy = row.endedBy
        /\ row.ended = Open => Kept(row, t).ended = IF ToClose(row, t) THEN t.at ELSE Open
        /\ ~EndedLater(row, t)
    BY <1>1, <1>3, KeptSound
  <2>2. /\ DOMAIN Kept(row, t) = RowFields /\ Kept(row, t).company = t.company
        /\ Kept(row, t).key = row.key /\ Kept(row, t).severity = row.severity
    BY <1>3, KeptSame
  <2>3. Kept(row, t).ended = Open <=> row \in stays
    BY <1>2, <1>3, <2>1 DEF StayOpen, OpenOf, Open
  <2>4. Kept(row, t).ended # Open /\ row.key \in DOMAIN t.active => ~EndedLater(Kept(row, t), t)
    BY <1>2, <1>3, <2>1 DEF EndedLater
  <2> QED  BY <2>1, <2>2, <2>3, <2>4
<1>4. t.opens \subseteq DOMAIN t.active
  BY DEF Turns
<1>5. ASSUME NEW k \in t.opens
      PROVE  MayOpen(KeptRows(rows, t), t, k) <=> k \notin DOMAIN before
  <2>1. CASE k \in DOMAIN before
    <3>1. PICK row \in OpenOf(rows, t.company) : row.key = k
      BY <2>1 DEF TableFits
    <3>2. row \in rows /\ row.company = t.company /\ row \in stays
      BY <1>4, <3>1 DEF StayOpen, OpenOf
    <3>3. Kept(row, t) \in KeptRows(rows, t) /\ Kept(row, t).ended = Open
          /\ Kept(row, t).company = t.company /\ Kept(row, t).key = k
      BY <1>3, <3>1, <3>2 DEF KeptRows
    <3> QED  BY <2>1, <3>3 DEF MayOpen
  <2>2. CASE k \notin DOMAIN before
    <3> SUFFICES ASSUME NEW row \in rows, Kept(row, t).company = t.company, Kept(row, t).key = k
                 PROVE  /\ Kept(row, t).ended # Open /\ ~EndedLater(Kept(row, t), t)
                        /\ \/ Kept(row, t).started < t.at
                           \/ Kept(row, t).started = t.at /\ Kept(row, t).seenBy < t.received
      BY <2>2 DEF MayOpen, KeptRows
    <3>1. row.company = t.company /\ row.key = k
      BY KeptSame
    <3>2. row \notin stays /\ k \in DOMAIN t.active
      BY <1>1, <1>4, <2>2, <3>1 DEF StayOpen, OpenOf
    <3>3. Kept(row, t).ended # Open /\ ~EndedLater(Kept(row, t), t)
      BY <1>3, <3>1, <3>2
    <3>4. Kept(row, t).started = row.started /\ Kept(row, t).seenBy = row.seenBy
      BY KeptSame
    <3> QED  BY <1>1, <3>1, <3>3, <3>4 DEF RowSound
  <2> QED  BY <2>1, <2>2
<1>6. opened = OpenedFor(DOMAIN t.active \ DOMAIN before, t)
  <2>1. {k \in t.opens : MayOpen(KeptRows(rows, t), t, k)} = DOMAIN t.active \ DOMAIN before
    BY <1>5 DEF Turns
  <2> QED  BY <2>1 DEF NewlyOpen
<1>7. ASSUME NEW row \in rows, row.company = t.company
      PROVE  /\ RowSound(NewRow(row, t), t.at, t.received)
             /\ NewRow(row, t).company = t.company /\ NewRow(row, t).key = row.key
             /\ NewRow(row, t).ended = Open <=> row \in stays
             /\ row \in stays => /\ row.key \in DOMAIN before /\ row.severity = before[row.key]
                                /\ NewRow(row, t).severity = t.active[row.key]
             /\ row \notin stays => NewRow(row, t) = Kept(row, t)
  <2>1. /\ NewRow(row, t).company = t.company /\ NewRow(row, t).key = row.key
        /\ NewRow(row, t).ended = Kept(row, t).ended
    BY <1>3, <1>7, ReprioritisedSame DEF NewRow
  <2>2. /\ RowSound(NewRow(row, t), t.at, t.received)
        /\ Kept(row, t).ended = Open => NewRow(row, t).severity =
             IF row.key \in t.opens \cup t.updates THEN t.active[row.key] ELSE row.severity
        /\ Kept(row, t).ended # Open => NewRow(row, t) = Kept(row, t)
    <3>1. row.key = Kept(row, t).key /\ row.severity = Kept(row, t).severity
      BY <1>3, <1>7
    <3> QED  BY <1>3, <1>7, <3>1, ReprioritisedSound DEF NewRow
  <2>3. row \in stays => row.key \in DOMAIN before /\ row.severity = before[row.key] /\ row.key \in DOMAIN t.active
    BY <1>1, <1>7 DEF StayOpen, OpenOf
  <2>4. row \in stays => NewRow(row, t).severity = t.active[row.key]
    BY <1>3, <1>7, <2>2, <2>3 DEF Turns
  <2> QED  BY <1>3, <1>7, <2>1, <2>2, <2>3, <2>4
<1> QED  BY <1>6, <1>7 DEF RowsMove

(* So what is open of its company is what it says is active.               *)
LEMMA TransitionFits ==
  ASSUME NEW table, NEW t, \A row \in table.rows : DOMAIN row = RowFields,
         t.at \in Nat \ {0}, t.received \in Nat,
         NEW from \in Nat, from <= t.at, NEW p \in Nat, p < t.received,
         NEW before, TableFits(table.rows, t.company, from, p, before), Turns(t, before)
  PROVE  TableFits(WriteAlarmTransition(table, t).rows, t.company, t.at, t.received, t.active)
<1> DEFINE rows == table.rows
           opened == NewlyOpen(rows, t)
           stays == StayOpen(rows, t)
<1>0. RowsMove(rows, t, before)
  BY TransitionRows
<1>1. opened = OpenedFor(DOMAIN t.active \ DOMAIN before, t)
  BY <1>0 DEF RowsMove
<1>2. \A row \in rows : row.company = t.company =>
        /\ RowSound(NewRow(row, t), t.at, t.received)
        /\ NewRow(row, t).company = t.company /\ NewRow(row, t).key = row.key
        /\ NewRow(row, t).ended = Open <=> row \in stays
        /\ row \in stays => NewRow(row, t).severity = t.active[row.key]
  BY <1>0 DEF RowsMove
<1>3. ASSUME NEW key \in DOMAIN t.active
      PROVE  /\ OpenedRow(t, key).company = t.company /\ OpenedRow(t, key).key = key
             /\ OpenedRow(t, key).ended = Open /\ OpenedRow(t, key).severity = t.active[key]
             /\ RowSound(OpenedRow(t, key), t.at, t.received)
  BY DEF OpenedRow, RowSound, Open
<1> DEFINE after == WriteAlarmTransition(table, t).rows
<1>4. after = {NewRow(row, t) : row \in rows} \cup opened
  BY RowsWritten
<1>5. \A row \in rows : NewRow(row, t).company = row.company /\ NewRow(row, t).key = row.key
  BY RowsTyped
<1> HIDE DEF opened, after, rows
<1>6. OpenOf(after, t.company)
         = {NewRow(row, t) : row \in stays} \cup OpenedFor(DOMAIN t.active \ DOMAIN before, t)
  <2>1. \A row \in stays : row \in rows /\ row.company = t.company
    BY DEF StayOpen, OpenOf
  <2> QED  BY <1>1, <1>2, <1>3, <1>4, <1>5, <2>1 DEF StayOpen, OpenOf, OpenedFor
<1>7. {row.key : row \in stays} = DOMAIN t.active \cap DOMAIN before
  BY DEF StayOpen, TableFits, rows
<1>8. {row.key : row \in OpenOf(after, t.company)} = DOMAIN t.active
  <2>1. \A row \in stays : NewRow(row, t).key = row.key
    BY <1>5 DEF StayOpen, OpenOf
  <2> HIDE DEF stays
  <2>2. \A key \in DOMAIN t.active \ DOMAIN before : OpenedRow(t, key).key = key
    BY <1>3
  <2> QED  BY <1>6, <1>7, <2>1, <2>2 DEF OpenedFor
<1>9. \A row \in OpenOf(after, t.company) : row.severity = t.active[row.key]
  BY <1>2, <1>3, <1>6 DEF StayOpen, OpenOf, OpenedFor
<1>10. ASSUME NEW r1 \in OpenOf(after, t.company), NEW r2 \in OpenOf(after, t.company), r1.key = r2.key
       PROVE  r1 = r2
  <2>1. \A row \in stays : NewRow(row, t).key = row.key /\ row.key \in DOMAIN before
    BY <1>5, <1>7 DEF StayOpen, OpenOf
  <2>2. \A key \in DOMAIN t.active \ DOMAIN before : OpenedRow(t, key).key = key
    BY <1>3
  <2>3. \A row1, row2 \in stays : row1.key = row2.key => row1 = row2
    BY DEF StayOpen, TableFits, rows
  <2> HIDE DEF stays
  <2> QED  BY <1>6, <1>10, <2>1, <2>2, <2>3 DEF OpenedFor
<1>11. \A row \in after : row.company = t.company => RowSound(row, t.at, t.received)
  BY <1>1, <1>2, <1>3, <1>4, <1>5 DEF OpenedFor
<1> QED  BY <1>8, <1>9, <1>10, <1>11 DEF TableFits, after

-----------------------------------------------------------------------------
(* What is said of a company's alarms in machine_alarms' events, and what  *)
(* becomes critical with a reading.                                        *)
Told(events, c) == {<<e.key, e.at>> : e \in {f \in events : f.company = c}}
RiseOf(before, active) == {k \in DOMAIN active : Critical(active, k) /\ ~Critical(before, k)}

(* Every severity a row has had has its event.                             *)
Covered(table) == \A row \in table.rows : EventsOf(row, row.changed) \subseteq table.events

(* The events of a transition: of what it opens, and of what it raises.    *)
RaisedRows(rows, t) == {row \in rows : NewClass(Kept(row, t).severity, NewRow(row, t).severity)}
IsNews(e, rows, t) ==
  \/ \E row \in NewlyOpen(rows, t) : e \in EventsOf(row, t.at)
  \/ \E row \in RaisedRows(rows, t) : e \in EventsOf(NewRow(row, t), t.at)

(* It has no others.                                                       *)
LEMMA EventsWritten ==
  ASSUME NEW table, NEW t
  PROVE  \A e : e \in WriteAlarmTransition(table, t).events <=>
                 e \in table.events \/ IsNews(e, table.rows, t)
<1> DEFINE kept   == KeptRows(table.rows, t)
           raised == {row \in kept : NewClass(row.severity, Reprioritised(row, t).severity)}
           news   == NewlyOpen(table.rows, t) \cup {Reprioritised(row, t) : row \in raised}
<1>1. WriteAlarmTransition(table, t).events = AppendEvents(table.events, news, t.at)
  BY DEF WriteAlarmTransition, KeptRows, NewlyOpen, OpenedFor, Kept
<1>2. \A row : row \in news <=>
        \/ row \in NewlyOpen(table.rows, t)
        \/ \E old \in RaisedRows(table.rows, t) : row = NewRow(old, t)
  BY DEF NewRow, KeptRows, RaisedRows
<1> HIDE DEF news
<1>3. \A e : e \in AppendEvents(table.events, news, t.at)
              <=> e \in table.events \/ \E row \in news : e \in EventsOf(row, t.at)
  BY DEF AppendEvents
<1> QED  BY <1>1, <1>2, <1>3 DEF IsNews

(* A record that is no reading changes nothing.                            *)
LEMMA NothingWritten ==
  ASSUME NEW table, \A row \in table.rows : DOMAIN row = RowFields
  PROVE  /\ WriteAlarmTransition(table, NoTransition).rows = table.rows
         /\ WriteAlarmTransition(table, NoTransition).events = table.events
<1> DEFINE t == NoTransition
<1>1. t.opens = {} /\ t.updates = {} /\ t.closes = {} /\ ~t.reconcile
  BY DEF NoTransition, AlarmTransition
<1>2. \A row : Closed(row, t) = row /\ Continued(row, t) = row /\ Reprioritised(row, t) = row
  BY <1>1 DEF Closed, Continued, Reprioritised, ToClose
<1> HIDE DEF t
<1>3. \A row : Kept(row, t) = row /\ NewRow(row, t) = row
  BY <1>2 DEF Kept, NewRow
<1>4. NewlyOpen(table.rows, t) = {} /\ RaisedRows(table.rows, t) = {}
  BY <1>1, <1>3 DEF NewlyOpen, OpenedFor, RaisedRows, NewClass
<1>5. {NewRow(row, t) : row \in table.rows} = table.rows
  BY <1>3
<1>6. \A e : ~IsNews(e, table.rows, t)
  BY <1>4 DEF IsNews
<1> QED  BY <1>4, <1>5, <1>6, RowsWritten, EventsWritten DEF t

(* A row that is given another class has an event for it;                  *)
LEMMA EventsCover ==
  ASSUME NEW table, NEW t, \A row \in table.rows : DOMAIN row = RowFields, Covered(table)
  PROVE  Covered(WriteAlarmTransition(table, t))
<1> DEFINE new == WriteAlarmTransition(table, t)
<1>1. ASSUME NEW row \in NewlyOpen(table.rows, t)
      PROVE  EventsOf(row, row.changed) \subseteq new.events
  <2>1. row.changed = t.at
    BY <1>1 DEF NewlyOpen, OpenedFor, OpenedRow
  <2> QED  BY <1>1, <2>1, EventsWritten DEF IsNews
<1>2. ASSUME NEW row \in table.rows
      PROVE  EventsOf(NewRow(row, t), NewRow(row, t).changed) \subseteq new.events
  <2> DEFINE kept == Kept(row, t)
  <2>1. /\ DOMAIN kept = RowFields /\ kept.company = row.company /\ kept.key = row.key
        /\ kept.started = row.started /\ kept.severity = row.severity /\ kept.changed = row.changed
    BY KeptSame
  <2>2. EventsOf(kept, kept.changed) = EventsOf(row, row.changed)
    BY <2>1 DEF EventsOf, EventOf
  <2> HIDE DEF kept
  <2>3. /\ NewRow(row, t).company = kept.company /\ NewRow(row, t).key = kept.key
        /\ NewRow(row, t).started = kept.started
    BY <2>1, ReprioritisedSame DEF NewRow, kept
  <2>4. NewRow(row, t).changed = IF NewClass(kept.severity, NewRow(row, t).severity) THEN t.at ELSE kept.changed
    BY <2>1 DEF NewRow, kept, Reprioritised, NewClass, RowFields
  <2>5. CASE NewClass(kept.severity, NewRow(row, t).severity)
    BY <2>4, <2>5, EventsWritten DEF kept, IsNews, RaisedRows
  <2>6. CASE ~NewClass(kept.severity, NewRow(row, t).severity)
    <3>1. EventsOf(NewRow(row, t), NewRow(row, t).changed) = EventsOf(kept, kept.changed)
      BY <2>3, <2>4, <2>6 DEF EventsOf, EventOf, NewClass
    <3>2. table.events \subseteq new.events
      BY EventsWritten
    <3> QED  BY <2>2, <3>1, <3>2 DEF Covered
  <2> QED  BY <2>5, <2>6
<1> QED  BY <1>1, <1>2, RowsWritten DEF Covered

(* another company has none,                                               *)
LEMMA OthersTold ==
  ASSUME NEW table, NEW t, \A row \in table.rows : DOMAIN row = RowFields, NEW c, c # t.company
  PROVE  Told(WriteAlarmTransition(table, t).events, c) = Told(table.events, c)
<1>1. ASSUME NEW row \in NewlyOpen(table.rows, t), NEW e \in EventsOf(row, t.at)  PROVE e.company # c
  BY <1>1 DEF NewlyOpen, OpenedFor, OpenedRow, EventsOf, EventOf
<1>2. ASSUME NEW row \in table.rows, NewClass(Kept(row, t).severity, NewRow(row, t).severity),
             NEW e \in EventsOf(NewRow(row, t), t.at)
      PROVE  e.company # c
  <2>1. row.company = t.company
    <3>1. CASE row.company # t.company
      <4>1. Kept(row, t) = row
        BY <3>1, KeptSame
      <4>2. NewRow(row, t) = row
        BY <3>1, <4>1, ReprioritisedSame DEF NewRow
      <4> QED  BY <1>2, <4>1, <4>2 DEF NewClass
    <3> QED  BY <3>1
  <2> QED  BY <1>2, <2>1, RowsTyped DEF EventsOf, EventOf
<1>3. {f \in WriteAlarmTransition(table, t).events : f.company = c} = {f \in table.events : f.company = c}
  BY <1>1, <1>2, EventsWritten DEF IsNews, RaisedRows
<1> QED  BY <1>3 DEF Told

(* and its own has one for each alarm that becomes critical.               *)
LEMMA RisesTold ==
  ASSUME NEW table, NEW t, \A row \in table.rows : DOMAIN row = RowFields,
         t.at \in Nat \ {0}, t.received \in Nat,
         NEW from \in Nat, from <= t.at, NEW p \in Nat, p < t.received,
         NEW before, TableFits(table.rows, t.company, from, p, before), Turns(t, before)
  PROVE  Told(WriteAlarmTransition(table, t).events, t.company)
           = Told(table.events, t.company) \cup {<<k, t.at>> : k \in RiseOf(before, t.active)}
<1> DEFINE c      == t.company
           opened == NewlyOpen(table.rows, t)
           stays  == StayOpen(table.rows, t)
           raised == RaisedRows(table.rows, t)
           events == WriteAlarmTransition(table, t).events
<1>1. RowsMove(table.rows, t, before)
  BY TransitionRows
<1>2. ASSUME NEW row \in raised
      PROVE  row \in stays /\ ClassOf(before[row.key]) # ClassOf(t.active[row.key])
  <2>0. row \in table.rows /\ NewClass(Kept(row, t).severity, NewRow(row, t).severity)
    BY <1>2 DEF RaisedRows
  <2>1. row.company = c
    <3>1. CASE row.company # c
      <4>1. Kept(row, t) = row
        BY <2>0, <3>1, KeptSame
      <4>2. NewRow(row, t) = row
        BY <2>0, <3>1, <4>1, ReprioritisedSame DEF NewRow
      <4> QED  BY <2>0, <4>1, <4>2 DEF NewClass
    <3> QED  BY <3>1
  <2>2. row \in stays
    BY <1>1, <2>0, <2>1 DEF RowsMove, NewClass
  <2>3. Kept(row, t).severity = row.severity
    BY <2>0, KeptSame
  <2> QED  BY <1>1, <2>0, <2>1, <2>2, <2>3 DEF RowsMove, NewClass
<1>3. ASSUME NEW k, NEW at, <<k, at>> \in Told(events, c)
      PROVE  <<k, at>> \in Told(table.events, c) \cup {<<key, t.at>> : key \in RiseOf(before, t.active)}
  <2>1. PICK e \in events : e.company = c /\ e.key = k /\ e.at = at
    BY <1>3 DEF Told
  <2>2. CASE e \in table.events
    BY <2>1, <2>2 DEF Told
  <2>3. ASSUME NEW row \in opened, e \in EventsOf(row, t.at)
        PROVE  k \in RiseOf(before, t.active) /\ at = t.at
    <3>1. PICK key \in DOMAIN t.active \ DOMAIN before : row = OpenedRow(t, key)
      BY <1>1, <2>3 DEF RowsMove, OpenedFor
    <3>2. row.key = key /\ row.severity = t.active[key]
      BY <3>1 DEF OpenedRow
    <3> QED  BY <2>1, <2>3, <3>1, <3>2 DEF EventsOf, EventOf, RiseOf, Critical
  <2>4. ASSUME NEW row \in raised, e \in EventsOf(NewRow(row, t), t.at)
        PROVE  k \in RiseOf(before, t.active) /\ at = t.at
    <3>1. row \in stays /\ ClassOf(before[row.key]) # ClassOf(t.active[row.key])
      BY <1>2
    <3>2. row \in table.rows /\ row.company = c /\ row.key \in DOMAIN t.active
      BY <3>1 DEF StayOpen, OpenOf
    <3>3. NewRow(row, t).key = row.key /\ NewRow(row, t).severity = t.active[row.key]
      BY <1>1, <3>1, <3>2 DEF RowsMove
    <3>4. e = EventOf(NewRow(row, t), t.at) /\ ClassOf(NewRow(row, t).severity) = "critical"
      BY <2>4 DEF EventsOf
    <3>5. e.key = NewRow(row, t).key /\ e.at = t.at
      BY <3>4 DEF EventOf
    <3> QED  BY <2>1, <3>1, <3>2, <3>3, <3>4, <3>5 DEF RiseOf, Critical
  <2> QED  BY <2>1, <2>2, <2>3, <2>4, EventsWritten DEF IsNews
<1>4. ASSUME NEW k \in RiseOf(before, t.active)
      PROVE  <<k, t.at>> \in Told(events, c)
  <2>1. k \in DOMAIN t.active /\ ClassOf(t.active[k]) = "critical"
    BY DEF RiseOf, Critical
  <2>2. CASE k \notin DOMAIN before
    <3>1. OpenedRow(t, k) \in opened
      BY <1>1, <2>1, <2>2 DEF RowsMove, OpenedFor
    <3>2. EventOf(OpenedRow(t, k), t.at) \in EventsOf(OpenedRow(t, k), t.at)
      BY <2>1 DEF EventsOf, OpenedRow
    <3>3. EventOf(OpenedRow(t, k), t.at) \in events
      BY <3>1, <3>2, EventsWritten DEF IsNews
    <3>4. /\ EventOf(OpenedRow(t, k), t.at).company = c /\ EventOf(OpenedRow(t, k), t.at).key = k
          /\ EventOf(OpenedRow(t, k), t.at).at = t.at
      BY DEF EventOf, OpenedRow
    <3> QED  BY <3>3, <3>4 DEF Told
  <2>3. CASE k \in DOMAIN before
    <3>1. PICK row \in OpenOf(table.rows, c) : row.key = k
      BY <2>3 DEF TableFits
    <3>2. row \in stays /\ row \in table.rows /\ row.company = c
      BY <2>1, <3>1 DEF StayOpen, OpenOf
    <3>3. /\ NewRow(row, t).company = c /\ NewRow(row, t).key = k
          /\ NewRow(row, t).severity = t.active[k] /\ row.severity = before[k]
      BY <1>1, <3>1, <3>2 DEF RowsMove
    <3>4. ClassOf(before[k]) # "critical"
      BY <2>3 DEF RiseOf, Critical
    <3>5. row \in raised
      <4>1. Kept(row, t).severity = row.severity
        BY <3>2, KeptSame
      <4> QED  BY <2>1, <3>2, <3>3, <3>4, <4>1 DEF NewClass, RaisedRows
    <3>6. EventOf(NewRow(row, t), t.at) \in EventsOf(NewRow(row, t), t.at)
      BY <2>1, <3>3 DEF EventsOf
    <3>7. EventOf(NewRow(row, t), t.at) \in events
      BY <3>5, <3>6, EventsWritten DEF IsNews
    <3>8. /\ EventOf(NewRow(row, t), t.at).company = c /\ EventOf(NewRow(row, t), t.at).key = k
          /\ EventOf(NewRow(row, t), t.at).at = t.at
      BY <3>3 DEF EventOf
    <3> QED  BY <3>7, <3>8 DEF Told
  <2> QED  BY <2>2, <2>3
<1>5. Told(table.events, c) \subseteq Told(events, c)
  BY EventsWritten DEF Told
<1>6. \A x \in Told(events, c) : \E k, at : x = <<k, at>>
  BY DEF Told
<1> HIDE DEF events, c
<1>7. Told(events, c) = Told(table.events, c) \cup {<<k, t.at>> : k \in RiseOf(before, t.active)}
  BY <1>3, <1>4, <1>5, <1>6
<1> QED  BY <1>7 DEF events, c

-----------------------------------------------------------------------------
(* The last reading of a company is one of them, or there is none;         *)
LEMMA LastInBounds ==
  ASSUME NEW lg, NEW m \in Nat, DOMAIN lg = 1..m, NEW c, NEW n \in 0..m
  PROVE  /\ LastIn(lg, c, n) \in 0..n
         /\ LastIn(lg, c, n) # 0 =>
              LastIn(lg, c, n) \in 1..n /\ lg[LastIn(lg, c, n)].kind = "raw" /\ lg[LastIn(lg, c, n)].company = c
         /\ \A i \in 1..n : lg[i].kind = "raw" /\ lg[i].company = c => i <= LastIn(lg, c, n)
<1> DEFINE S == {0} \cup {i \in Places(lg, c) : i <= n}
<1>1. n \in Nat /\ S \in SUBSET (0..n) /\ S # {}
  BY DEF Places
<1>2. \A i \in S : i = 0 \/ (i \in 1..n /\ lg[i].kind = "raw" /\ lg[i].company = c)
  BY DEF Places
<1>3. \A i \in 1..n : lg[i].kind = "raw" /\ lg[i].company = c => i \in S
  BY DEF Places
<1>4. LastIn(lg, c, n) = Max(S)
  BY DEF LastIn
<1> HIDE DEF S
<1>5. Max(S) \in S /\ \A x \in S : x <= Max(S)
  BY <1>1, LastPlace
<1> QED  BY <1>1, <1>2, <1>3, <1>4, <1>5

(* the only one that is not before another.                                *)
LEMMA LastInIs ==
  ASSUME NEW lg, NEW m \in Nat, DOMAIN lg = 1..m, NEW c, NEW n \in 0..m, NEW p \in 0..n,
         p # 0 => lg[p].kind = "raw" /\ lg[p].company = c,
         \A i \in 1..n : lg[i].kind = "raw" /\ lg[i].company = c => i <= p
  PROVE  LastIn(lg, c, n) = p
<1> DEFINE S == {0} \cup {i \in Places(lg, c) : i <= n}
<1>1. n \in Nat /\ S \in SUBSET (0..n) /\ S # {}
  BY DEF Places
<1>2. p \in S /\ \A x \in S : x <= p
  BY DEF Places
<1>3. LastIn(lg, c, n) = Max(S)
  BY DEF LastIn
<1> HIDE DEF S
<1> QED  BY <1>1, <1>2, <1>3, LastPlaceIs

(* It is a reading's own, and no other record makes one.                   *)
LEMMA LastInSteps ==
  ASSUME NEW lg, NEW m \in Nat, DOMAIN lg = 1..m, NEW c, NEW n \in 1..m
  PROVE  LastIn(lg, c, n) = IF lg[n].kind = "raw" /\ lg[n].company = c THEN n ELSE LastIn(lg, c, n - 1)
<1>1. CASE lg[n].kind = "raw" /\ lg[n].company = c
  <2>1. n \in 0..m /\ n \in 0..n
    OBVIOUS
  <2> QED  BY <1>1, <2>1, LastInIs
<1>2. CASE ~(lg[n].kind = "raw" /\ lg[n].company = c)
  <2> DEFINE p == LastIn(lg, c, n - 1)
  <2>1. n - 1 \in 0..m /\ n \in 0..m
    OBVIOUS
  <2>2. /\ p \in 0..(n - 1)
        /\ p # 0 => p \in 1..(n - 1) /\ lg[p].kind = "raw" /\ lg[p].company = c
        /\ \A i \in 1..(n - 1) : lg[i].kind = "raw" /\ lg[i].company = c => i <= p
    BY <2>1, LastInBounds
  <2> HIDE DEF p
  <2>3. p \in 0..n /\ \A i \in 1..n : lg[i].kind = "raw" /\ lg[i].company = c => i <= p
    BY <1>2, <2>2
  <2>4. LastIn(lg, c, n) = p
    BY <2>1, <2>2, <2>3, LastInIs
  <2> QED  BY <1>2, <2>4 DEF p
<1> QED  BY <1>1, <1>2

(* Records that are no readings of a company leave its last one.           *)
LEMMA LastInStays ==
  ASSUME NEW lg, NEW m \in Nat, DOMAIN lg = 1..m, NEW c, NEW n \in 0..m, NEW k \in 0..n,
         \A i \in (k + 1)..n : ~(lg[i].kind = "raw" /\ lg[i].company = c)
  PROVE  LastIn(lg, c, n) = LastIn(lg, c, k)
<1> DEFINE p == LastIn(lg, c, k)
<1>1. k \in 0..m
  OBVIOUS
<1>2. /\ p \in 0..k
      /\ p # 0 => p \in 1..k /\ lg[p].kind = "raw" /\ lg[p].company = c
      /\ \A i \in 1..k : lg[i].kind = "raw" /\ lg[i].company = c => i <= p
  BY <1>1, LastInBounds
<1> HIDE DEF p
<1>3. p \in 0..n /\ \A i \in 1..n : lg[i].kind = "raw" /\ lg[i].company = c => i <= p
  BY <1>2
<1>4. LastIn(lg, c, n) = p
  BY <1>2, <1>3, LastInIs
<1> QED  BY <1>4 DEF p

(* A journal says of its readings what it said when it was shorter.        *)
LEMMA LastInPrefix ==
  ASSUME NEW lg, NEW m \in Nat, DOMAIN lg = 1..m, NEW new, NEW l \in Nat, DOMAIN new = 1..l, m <= l,
         \A i \in 1..m : new[i] = lg[i]
  PROVE  /\ \A i \in 0..m : ActiveIn(new, i) = ActiveIn(lg, i) /\ TimeIn(new, i) = TimeIn(lg, i)
         /\ \A c : \A n \in 0..m : LastIn(new, c, n) = LastIn(lg, c, n) /\ LastIn(lg, c, n) \in 0..m
<1>1. \A i \in 0..m : ActiveIn(new, i) = ActiveIn(lg, i) /\ TimeIn(new, i) = TimeIn(lg, i)
  BY DEF ActiveIn, TimeIn
<1>2. ASSUME NEW c, NEW n \in 0..m
      PROVE  LastIn(new, c, n) = LastIn(lg, c, n) /\ LastIn(lg, c, n) \in 0..m
  <2> DEFINE p == LastIn(lg, c, n)
  <2>1. /\ p \in 0..n
        /\ p # 0 => p \in 1..n /\ lg[p].kind = "raw" /\ lg[p].company = c
        /\ \A i \in 1..n : lg[i].kind = "raw" /\ lg[i].company = c => i <= p
    BY LastInBounds
  <2> HIDE DEF p
  <2>2. n \in 0..l /\ (p # 0 => new[p].kind = "raw" /\ new[p].company = c)
    BY <2>1
  <2>3. \A i \in 1..n : new[i].kind = "raw" /\ new[i].company = c => i <= p
    BY <2>1
  <2>4. LastIn(new, c, n) = p
    BY <2>1, <2>2, <2>3, LastInIs
  <2> QED  BY <2>1, <2>4 DEF p
<1> QED  BY <1>1, <1>2

(* So what fitted it fits,                                                 *)
LEMMA FitsPrefix ==
  ASSUME NEW lg, NEW m \in Nat, DOMAIN lg = 1..m, NEW new, NEW l \in Nat, DOMAIN new = 1..l, m <= l,
         \A i \in 1..m : new[i] = lg[i], NEW c, NEW n \in 0..m
  PROVE  /\ \A st : Fits(new, st, c, n) <=> Fits(lg, st, c, n)
         /\ \A rows : FitsAt(new, rows, c, n) <=> FitsAt(lg, rows, c, n)
<1>1. LastIn(new, c, n) = LastIn(lg, c, n) /\ LastIn(lg, c, n) \in 0..m
  BY LastInPrefix
<1>2. ActiveIn(new, LastIn(new, c, n)) = ActiveIn(lg, LastIn(lg, c, n))
      /\ TimeIn(new, LastIn(new, c, n)) = TimeIn(lg, LastIn(lg, c, n))
  BY <1>1, LastInPrefix
<1> QED  BY <1>1, <1>2 DEF Fits, FitsAt

(* and a record that was sound is.                                         *)
LEMMA SoundPrefix ==
  ASSUME NEW lg, NEW m \in Nat, DOMAIN lg = 1..m, NEW new, NEW l \in Nat, DOMAIN new = 1..l, m <= l,
         \A i \in 1..m : new[i] = lg[i], NEW n \in 1..m, RecordSound(lg, n)
  PROVE  RecordSound(new, n)
<1> DEFINE c == lg[n].company
           p == LastIn(lg, c, n - 1)
<1>1. n \in 0..m /\ n - 1 \in 0..m /\ new[n] = lg[n] /\ \A j \in 1..n : new[j] = lg[j]
  OBVIOUS
<1>2. \A st : Fits(new, st, c, n) <=> Fits(lg, st, c, n)
  BY <1>1, FitsPrefix
<1>3. LastIn(new, c, n - 1) = p /\ p \in 0..m
  BY <1>1, LastInPrefix
<1>4. ActiveIn(new, LastIn(new, c, n - 1)) = ActiveIn(lg, p) /\ TimeIn(new, LastIn(new, c, n - 1)) = TimeIn(lg, p)
  BY <1>3, LastInPrefix
<1>5. RawSound(new, n) <=> RawSound(lg, n)
  BY <1>1, <1>4 DEF RawSound
<1> QED  BY <1>1, <1>2, <1>5 DEF RecordSound
(* A record of another company, or of no reading, changes nothing of what  *)
(* fits a company.                                                         *)
LEMMA FitsStays ==
  ASSUME NEW lg, NEW m \in Nat, DOMAIN lg = 1..m, NEW c, NEW n \in 0..m, NEW k \in 0..n,
         \A i \in (k + 1)..n : ~(lg[i].kind = "raw" /\ lg[i].company = c)
  PROVE  /\ \A st : Fits(lg, st, c, n) <=> Fits(lg, st, c, k)
         /\ \A rows : FitsAt(lg, rows, c, n) <=> FitsAt(lg, rows, c, k)
<1>1. LastIn(lg, c, n) = LastIn(lg, c, k)
  BY LastInStays
<1> QED  BY <1>1 DEF Fits, FitsAt

-----------------------------------------------------------------------------
(* What a payload names is finite, and is no battery unless one is named.  *)
LEMMA NamedSound ==
  ASSUME NEW p, DOMAIN p.top = DOMAIN NoAlarm, IsFiniteSet(DOMAIN p.list)
  PROVE  /\ IsFiniteSet(DOMAIN ActiveAlarms(p))
         /\ \A k \in DOMAIN ActiveAlarms(p) : k \in NamedKeys(p) \cup {Unspecified, EmergencyStop}
<1>1. /\ IsFiniteSet(DOMAIN FoundAlarms(p))
      /\ \A i \in DOMAIN FoundAlarms(p) : FoundAlarms(p)[i].key \in NamedKeys(p) \cup {Unspecified}
  <2> DEFINE entry(i) == IF i = 0 THEN p.top ELSE ParseAlarmEntry(p.list[i])
             named == {i \in {0} \cup DOMAIN p.list : entry(i).key # <<>>}
  <2>1. IsFiniteSet({0} \cup DOMAIN p.list) /\ IsFiniteSet({0})
    <3>1. IsFiniteSet({0})
      BY FS_Singleton
    <3> QED  BY <3>1, FS_Union
  <2>2. \A i \in named : entry(i).key \in NamedKeys(p)
    BY DEF NamedKeys
  <2>3. IsFiniteSet(named)
    <3>1. named \subseteq {0} \cup DOMAIN p.list
      OBVIOUS
    <3> HIDE DEF named
    <3> QED  BY <2>1, <3>1, FS_Subset
  <2>4. CASE named = {}
    <3>1. FoundAlarms(p) = [i \in {0} |-> [p.top EXCEPT !.key = Unspecified]]
      BY <2>4 DEF FoundAlarms
    <3>2. FoundAlarms(p)[0].key = Unspecified
      BY <3>1 DEF NoAlarm
    <3> QED  BY <2>1, <3>1, <3>2
  <2>5. CASE named # {}
    <3>1. FoundAlarms(p) = [i \in named |-> entry(i)]
      BY <2>5 DEF FoundAlarms
    <3> HIDE DEF named, entry
    <3> QED  BY <2>2, <2>3, <3>1
  <2> QED  BY <2>4, <2>5
<1>2. /\ DOMAIN UrgentAlarms(p) = DOMAIN FoundAlarms(p)
      /\ \A i \in DOMAIN UrgentAlarms(p) :
           UrgentAlarms(p)[i].key \in NamedKeys(p) \cup {Unspecified, EmergencyStop}
  BY <1>1 DEF UrgentAlarms
<1> DEFINE all  == UrgentAlarms(p)
           key  == [i \in DOMAIN all |-> all[i].key]
           keys == {key[i] : i \in DOMAIN all}
<1>3. DOMAIN ActiveAlarms(p) = IF IsAlarming(p) THEN keys ELSE {}
  <2> DEFINE said == {all[i].key : i \in DOMAIN all}
  <2>1. CASE IsAlarming(p)
    <3>1. DOMAIN ActiveAlarms(p) = said
      BY <2>1 DEF ActiveAlarms
    <3>2. said = keys
      OBVIOUS
    <3> QED  BY <2>1, <3>1, <3>2
  <2>2. CASE ~IsAlarming(p)
    BY <2>2 DEF ActiveAlarms
  <2> QED  BY <2>1, <2>2
<1>4. DOMAIN key = DOMAIN all /\ key = [i \in DOMAIN all |-> key[i]]
  OBVIOUS
<1>5. \A k \in keys : k \in NamedKeys(p) \cup {Unspecified, EmergencyStop}
  BY <1>2
<1> HIDE DEF key
<1>6. IsFiniteSet(keys)
  BY <1>1, <1>2, <1>4, ImageFinite
<1>7. IsFiniteSet({})
  BY FS_EmptySet
<1> HIDE DEF keys
<1> QED  BY <1>3, <1>5, <1>6, <1>7

(* What is known of batteries is finite too, and of batteries only;        *)
LEMMA ObservedSound ==
  ASSUME NEW d, IsFiniteSet(DOMAIN d.axes)
  PROVE  /\ IsFiniteSet(DOMAIN BatteryObserved(d))
         /\ \A k \in DOMAIN BatteryObserved(d) : IsBattery(k)
<1> DEFINE names == Bits \cup {"LOW"}
           key   == [x \in (DOMAIN d.axes) \X names |-> BatteryKey(x[1], x[2])]
           keys  == {key[x] : x \in (DOMAIN d.axes) \X names}
<1>1. DOMAIN BatteryObserved(d) = keys \cup {CncKey}
  <2> DEFINE said == {BatteryKey(axis, bit) : axis \in DOMAIN d.axes, bit \in Bits \cup {"LOW"}}
  <2>1. DOMAIN BatteryObserved(d) = said \cup {CncKey}
    BY DEF BatteryObserved
  <2>2. said = keys
    <3>1. ASSUME NEW k \in said  PROVE k \in keys
      <4>1. PICK axis \in DOMAIN d.axes, bit \in names : k = BatteryKey(axis, bit)
        OBVIOUS
      <4>2. key[<<axis, bit>>] = k
        BY <4>1
      <4> HIDE DEF key
      <4> QED  BY <4>1, <4>2
    <3>2. ASSUME NEW k \in keys  PROVE k \in said
      <4>1. PICK x \in (DOMAIN d.axes) \X names : k = BatteryKey(x[1], x[2])
        OBVIOUS
      <4>2. x[1] \in DOMAIN d.axes /\ x[2] \in names
        OBVIOUS
      <4> QED  BY <4>1, <4>2
    <3> HIDE DEF said, keys
    <3> QED  BY <3>1, <3>2
  <2> HIDE DEF said, keys
  <2> QED  BY <2>1, <2>2
<1>2. \A k \in keys \cup {CncKey} : IsBattery(k)
  <2>1. \A axis, bit : IsBattery(BatteryKey(axis, bit))
    BY DEF BatteryKey, IsBattery
  <2>2. IsBattery(CncKey)
    BY DEF CncKey, IsBattery
  <2> QED  BY <2>1, <2>2
<1>3. IsFiniteSet(names)
  <2>1. IsFiniteSet({"ABP"}) /\ IsFiniteSet({"INP"}) /\ IsFiniteSet({"EXP"}) /\ IsFiniteSet({"LOW"})
    BY FS_Singleton
  <2>2. IsFiniteSet({"ABP"} \cup {"INP"})
    BY <2>1, FS_Union
  <2>3. IsFiniteSet(({"ABP"} \cup {"INP"}) \cup {"EXP"})
    BY <2>1, <2>2, FS_Union
  <2>4. IsFiniteSet((({"ABP"} \cup {"INP"}) \cup {"EXP"}) \cup {"LOW"})
    BY <2>1, <2>3, FS_Union
  <2>5. names = (({"ABP"} \cup {"INP"}) \cup {"EXP"}) \cup {"LOW"}
    BY DEF Bits
  <2> QED  BY <2>4, <2>5
<1> HIDE DEF names
<1>4. IsFiniteSet((DOMAIN d.axes) \X names)
  BY <1>3, FS_Product
<1>5. DOMAIN key = (DOMAIN d.axes) \X names /\ key = [x \in (DOMAIN d.axes) \X names |-> key[x]]
  OBVIOUS
<1> HIDE DEF key
<1>6. IsFiniteSet(keys)
  BY <1>4, <1>5, ImageFinite
<1> HIDE DEF keys
<1>7. IsFiniteSet({CncKey})
  BY FS_Singleton
<1>8. IsFiniteSet(keys \cup {CncKey})
  BY <1>6, <1>7, FS_Union
<1> QED  BY <1>1, <1>2, <1>8

(* and so are the codes: those that are observed, and those that were, and *)
(* have not been cleared.                                                  *)
LEMMA CodesSound ==
  ASSUME NEW observed, IsFiniteSet(DOMAIN observed), \A k \in DOMAIN observed : IsBattery(k),
         NEW previous, IsFiniteSet(previous)
  PROVE  /\ IsFiniteSet(BatteryCodes(observed, previous))
         /\ \A k \in BatteryCodes(observed, previous) : IsBattery(k)
         /\ \A k \in previous : IsBattery(k) /\ k \notin BatteryCodes(observed, previous)
                                  => k \in Cleared(observed, previous)
<1> DEFINE stay == {k \in previous : IsBattery(k) /\ k \notin Cleared(observed, previous)}
           seenNow == {k \in DOMAIN observed : observed[k] = "yes"}
<1>1. BatteryCodes(observed, previous) = stay \cup seenNow
  BY DEF BatteryCodes
<1>2. stay \subseteq previous /\ seenNow \subseteq DOMAIN observed
  OBVIOUS
<1>3. IsFiniteSet(stay) /\ IsFiniteSet(seenNow)
  <2> HIDE DEF stay, seenNow
  <2> QED  BY <1>2, FS_Subset
<1>4. IsFiniteSet(stay \cup seenNow)
  <2> HIDE DEF stay, seenNow
  <2> QED  BY <1>3, FS_Union
<1> QED  BY <1>1, <1>2, <1>4
-----------------------------------------------------------------------------
(* What a company's open rows say of batteries is what its last reading    *)
(* does, when all that is not in the tables are late records.              *)
LEMMA OpenBatteriesFit ==
  ASSUME AlarmInv, company \in DOMAIN scene.shifts
  PROVE  OpenBatteries = Batteries(ActiveIn(log, LastIn(log, company, done)))
<1> DEFINE active == ActiveIn(log, LastIn(log, company, done))
           keys   == {row.key : row \in OpenOf(alarms.rows, company)}
<1>1. keys = DOMAIN active
  BY DEF AlarmInv, TableAt, FitsAt, TableFits
<1>2. \A k : k \in OpenBatteries <=> k \in keys /\ IsBattery(k)
  BY DEF OpenBatteries, OpenOf
<1>3. \A k : k \in Batteries(active) <=> k \in DOMAIN active /\ IsBattery(k)
  BY DEF Batteries
<1> HIDE DEF active, keys
<1>4. OpenBatteries = Batteries(active)
  BY <1>1, <1>2, <1>3
<1> QED  BY <1>4 DEF active

(* hydrate() says of a company what its last reading in the tables did.    *)
LEMMA HydratedFits ==
  ASSUME LogInv, AlarmInv, LedgerAssumption
  PROVE  /\ Fits(log, Hydrated, company, done)
         /\ Hydrated.company = NoCompany /\ Hydrated.codesKnown = FALSE
         /\ Hydrated.battery = Batteries(ActiveIn(log, LastIn(log, company, done)))
<1> DEFINE p    == LastIn(log, company, done)
           rows == Places(Written, company)
<1>1. DOMAIN log = 1..Len(log) /\ Len(log) \in Nat /\ done \in 0..Len(log)
  BY DEF LogInv
<1>2. /\ p \in 0..done
      /\ p # 0 => p \in 1..done /\ log[p].kind = "raw" /\ log[p].company = company
      /\ \A i \in 1..done : log[i].kind = "raw" /\ log[i].company = company => i <= p
  BY <1>1, LastInBounds
<1>3. DOMAIN Written = 1..done /\ \A i \in 1..done : Written[i] = log[i]
  BY <1>1 DEF LogInv, Written
<1>4. rows \in SUBSET (0..done) /\ \A i : i \in rows <=> i \in 1..done /\ log[i].kind = "raw" /\ log[i].company = company
  BY <1>1, <1>3 DEF Places
<1> DEFINE seenState == [NullState EXCEPT
             !.meter = LastMeter, !.battery = OpenBatteries,
             !.aloneAt = IF LastMeter # NoMeter /\ "kwh" \in meters[LastMeter.at].alone
                         THEN LastMeter.at ELSE 0]
<1>5. /\ DOMAIN seenState = DOMAIN NullState /\ seenState.time = 0 /\ seenState.company = NoCompany
      /\ seenState.codesKnown = FALSE /\ seenState.battery = OpenBatteries
  BY DEF NullState
<1>6. /\ DOMAIN Hydrated = DOMAIN NullState /\ Hydrated.company = NoCompany
      /\ Hydrated.codesKnown = FALSE /\ Hydrated.battery = OpenBatteries
      /\ Hydrated.time = IF rows = {} THEN 0 ELSE Message(log[Max(rows)]).time
  <2>1. Hydrated = IF rows = {} THEN seenState
                   ELSE LET row == Message(log[Max(rows)])
                        IN [seenState EXCEPT !.time = row.time, !.running = row.running,
                                             !.manual = row.manual, !.base = row.count]
    BY DEF Hydrated
  <2>2. {"time", "company", "codesKnown", "battery"} \subseteq DOMAIN seenState
    BY <1>5 DEF NullState
  <2> HIDE DEF seenState, rows
  <2> QED  BY <1>5, <2>1, <2>2
<1>7. Hydrated.time \in Nat /\ TimeIn(log, p) = Hydrated.time
  <2>1. CASE p = 0
    <3>1. rows = {}
      BY <1>2, <1>4, <2>1
    <3> QED  BY <1>6, <2>1, <3>1 DEF TimeIn
  <2>2. CASE p # 0
    <3>1. p \in rows /\ \A x \in rows : x <= p
      BY <1>2, <1>4, <2>2
    <3>2. Max(rows) = p
      <4>1. done \in Nat
        BY <1>1
      <4> HIDE DEF p, rows
      <4> QED  BY <1>4, <3>1, <4>1, LastPlaceIs
    <3>3. p \in 1..Len(log) /\ RecordSound(log, p) /\ log[p].kind = "raw"
      BY <1>1, <1>2, <2>2 DEF LogInv
    <3>4. log[p].alarm.at = Message(log[p]).time /\ log[p].message \in DOMAIN scene.messages
      BY <3>3 DEF RecordSound, RawSound
    <3>5. Message(log[p]).time \in Nat
      BY <3>4 DEF LedgerAssumption, MessageSound, LogInv, Message
    <3> HIDE DEF p, rows
    <3> QED  BY <1>6, <2>2, <3>1, <3>2, <3>4, <3>5 DEF TimeIn
  <2> QED  BY <2>1, <2>2
<1>8. OpenBatteries = Batteries(ActiveIn(log, p)) /\ IsFiniteSet(OpenBatteries)
  <2>1. OpenBatteries = Batteries(ActiveIn(log, p))
    BY OpenBatteriesFit DEF LogInv
  <2>2. IsFiniteSet(DOMAIN ActiveIn(log, p))
    <3>1. CASE p = 0
      <4>1. DOMAIN ActiveIn(log, p) = {}
        BY <3>1 DEF ActiveIn
      <4> QED  BY <4>1, FS_EmptySet
    <3>2. CASE p # 0
      <4>1. RecordSound(log, p) /\ log[p].kind = "raw"
        BY <1>1, <1>2, <3>2 DEF LogInv
      <4> QED  BY <3>2, <4>1 DEF RecordSound, RawSound, ActiveIn
    <3> QED  BY <3>1, <3>2
  <2>3. Batteries(ActiveIn(log, p)) \subseteq DOMAIN ActiveIn(log, p)
    BY DEF Batteries
  <2> QED  BY <2>1, <2>2, <2>3, FS_Subset
<1> HIDE DEF p, rows
<1>9. TimeIn(log, p) <= Hydrated.time
  BY <1>7
<1> QED  BY <1>6, <1>7, <1>8, <1>9 DEF Fits, p

(* So what a message is compared with is what the last reading of its      *)
(* company said, or less.                                                  *)
LEMMA BaselineFits ==
  ASSUME AllInv, LedgerAssumption
  PROVE  /\ Fits(log, Baseline, company, Len(log))
         /\ Baseline.company \in {NoCompany, company}
         /\ Baseline.company = NoCompany =>
              /\ Baseline.codesKnown = FALSE
              /\ "loses" \notin scene.flags /\ KeptWhereSold => Baseline.battery = {}
<1>1. DOMAIN log = 1..Len(log) /\ Len(log) \in Nat /\ done \in 0..Len(log) /\ lost \in 0..done
  BY DEF AllInv, LogInv
<1>2. CASE known /\ Belongs(state)
  <2>1. Fits(log, state, company, Len(log)) /\ Baseline = state
    BY <1>2 DEF AllInv, StateInv, Baseline
  <2>2. state.codesKnown \in BOOLEAN
    BY <2>1 DEF Fits
  <2> QED  BY <1>2, <2>1, <2>2 DEF AllInv, StateInv, Belongs
<1>3. CASE ~(known /\ Belongs(state))
  <2>1. /\ Fits(log, Hydrated, company, done) /\ Hydrated.company = NoCompany
        /\ Hydrated.codesKnown = FALSE
        /\ Hydrated.battery = Batteries(ActiveIn(log, LastIn(log, company, done)))
    BY HydratedFits DEF AllInv
  <2>2. \A i \in (lost + 1)..Len(log) : ~(log[i].kind = "raw" /\ log[i].company = company)
    <3>1. CASE ~known
      BY <3>1 DEF AllInv, StateInv
    <3>2. CASE known
      <4>1. Places(log, company) = {}
        BY <1>3, <3>2 DEF AllInv, StateInv
      <4> QED  BY <1>1, <4>1 DEF Places
    <3> QED  BY <3>1, <3>2
  <2>3. \A i \in (done + 1)..Len(log) : ~(log[i].kind = "raw" /\ log[i].company = company)
    BY <1>1, <2>2
  <2>4. Fits(log, Hydrated, company, Len(log))
    <3>1. Len(log) \in 0..Len(log)
      BY <1>1
    <3> QED  BY <1>1, <2>1, <2>3, <3>1, FitsStays
  <2>5. ASSUME "loses" \notin scene.flags  PROVE Hydrated.battery = {}
    <3>1. lost = 0
      BY <2>5 DEF AllInv, StateInv
    <3>2. LastIn(log, company, done) \in 0..done
          /\ (LastIn(log, company, done) # 0 =>
                /\ LastIn(log, company, done) \in 1..done
                /\ log[LastIn(log, company, done)].kind = "raw"
                /\ log[LastIn(log, company, done)].company = company)
      BY <1>1, LastInBounds
    <3>3. LastIn(log, company, done) = 0
      BY <1>1, <2>2, <3>1, <3>2
    <3> QED  BY <2>1, <3>3 DEF ActiveIn, Batteries
  <2>6. Baseline = Hydrated
    BY <1>3 DEF Baseline
  <2> QED  BY <2>1, <2>4, <2>5, <2>6
<1> QED  BY <1>2, <1>3
-----------------------------------------------------------------------------
(* The i-th message: what it says of alarms and batteries.                 *)
ActiveOf(prev, m) ==
  LET named == ActiveAlarms(m.alarms)
      codes == BatteryCodes(BatteryObserved(m.battery), prev.battery)
  IN [key \in DOMAIN named \cup codes |-> IF key \in DOMAIN named THEN named[key] ELSE "NORMAL"]
TransitionOf(prev, m) ==
  AlarmTransition(prev.codesKnown, prev.alarms, ActiveOf(prev, m),
                  Cleared(BatteryObserved(m.battery), prev.battery), company, m.time, Received)

(* The record of a snapshot, as far as alarms are concerned,               *)
SnapshotSaid(rec, prev, i) ==
  LET m == scene.messages[i] IN
  /\ rec.kind = "raw" /\ rec.message = i /\ rec.company = company
  /\ DOMAIN rec.state = DOMAIN NullState
  /\ rec.state.company = company /\ rec.state.time = m.time /\ rec.state.codesKnown = TRUE
  /\ rec.state.alarms = ActiveOf(prev, m)
  /\ rec.state.battery = BatteryCodes(BatteryObserved(m.battery), prev.battery)
  /\ rec.alarm = TransitionOf(prev, m)

(* says what its message does.                                             *)
LEMMA SnapshotSays ==
  ASSUME NEW prev, NEW i
  PROVE  SnapshotSaid(SnapshotRecord(prev, i), prev, i)
BY DEF SnapshotSaid, SnapshotRecord, Record, NullState, ActiveOf, TransitionOf

(* That of a packet has the state before, but for the meter.               *)
LEMMA PacketSays ==
  ASSUME NEW prev, NEW i, DOMAIN prev = DOMAIN NullState
  PROVE  LET rec == PacketRecord(prev, i) IN
         /\ rec.kind = "energy" /\ rec.message = i /\ rec.company = company
         /\ DOMAIN rec.state = DOMAIN NullState
         /\ rec.state.company = company /\ rec.state.time = prev.time
         /\ rec.state.codesKnown = prev.codesKnown /\ rec.state.alarms = prev.alarms
         /\ rec.state.battery = prev.battery
         /\ rec.alarm = NoTransition
BY DEF PacketRecord, Record, NullState

(* What a snapshot says is active goes on from what was, if that was known.*)
LEMMA SnapshotTurns ==
  ASSUME NamesNoBattery, LedgerAssumption, scene \in Scenes,
         NEW i \in DOMAIN scene.messages, ~scene.messages[i].packet,
         NEW prev, NEW before, IsFiniteSet(prev.battery), Batteries(before) \subseteq prev.battery,
         prev.codesKnown \in BOOLEAN, prev.codesKnown => prev.alarms = before
  PROVE  LET m == scene.messages[i]  active == ActiveOf(prev, m) IN
         /\ Turns(TransitionOf(prev, m), before)
         /\ IsFiniteSet(DOMAIN active)
         /\ Batteries(active) = BatteryCodes(BatteryObserved(m.battery), prev.battery)
         /\ IsFiniteSet(Batteries(active))
<1> DEFINE m        == scene.messages[i]
           observed == BatteryObserved(m.battery)
           codes    == BatteryCodes(observed, prev.battery)
           named    == ActiveAlarms(m.alarms)
           active   == ActiveOf(prev, m)
           t        == TransitionOf(prev, m)
<1>1. /\ DOMAIN m.alarms.top = DOMAIN NoAlarm
      /\ IsFiniteSet(DOMAIN m.alarms.list) /\ IsFiniteSet(DOMAIN m.battery.axes)
  BY DEF LedgerAssumption, MessageSound
<1>2. /\ IsFiniteSet(DOMAIN named)
      /\ \A k \in DOMAIN named : k \in NamedKeys(m.alarms) \cup {Unspecified, EmergencyStop}
  BY <1>1, NamedSound
<1>3. \A k \in DOMAIN named : ~IsBattery(k)
  <2>1. ~IsBattery(Unspecified) /\ ~IsBattery(EmergencyStop)
    BY DEF IsBattery, Unspecified, EmergencyStop
  <2>2. \A k \in NamedKeys(m.alarms) : ~IsBattery(k)
    BY DEF NamesNoBattery
  <2> HIDE DEF named, m
  <2> QED  BY <1>2, <2>1, <2>2
<1>4. IsFiniteSet(DOMAIN observed) /\ \A k \in DOMAIN observed : IsBattery(k)
  BY <1>1, ObservedSound
<1>5. /\ IsFiniteSet(codes) /\ \A k \in codes : IsBattery(k)
      /\ \A k \in prev.battery : IsBattery(k) /\ k \notin codes => k \in Cleared(observed, prev.battery)
  <2> HIDE DEF observed
  <2> QED  BY <1>4, CodesSound
<1>6. DOMAIN active = (DOMAIN named) \cup codes
  BY DEF ActiveOf
<1>7. /\ t.active = active /\ t.reconcile = ~prev.codesKnown /\ t.cleared = Cleared(observed, prev.battery)
      /\ t.opens = IF prev.codesKnown THEN DOMAIN active \ DOMAIN prev.alarms ELSE DOMAIN active
      /\ t.updates = {k \in DOMAIN active \cap DOMAIN prev.alarms :
                        prev.codesKnown /\ prev.alarms[k] # active[k]}
      /\ t.closes = IF prev.codesKnown
                    THEN {k \in DOMAIN prev.alarms \ DOMAIN active :
                            IsBattery(k) => k \in Cleared(observed, prev.battery)}
                    ELSE {}
  BY DEF TransitionOf, AlarmTransition
<1> HIDE DEF named, codes, observed, active, t, m
<1>8. \A k \in DOMAIN before \ DOMAIN active : IsBattery(k) => k \in Cleared(observed, prev.battery)
  BY <1>5, <1>6 DEF Batteries
<1>9. Turns(t, before)
  <2>1. CASE prev.codesKnown
    BY <1>7, <1>8, <2>1 DEF Turns
  <2>2. CASE ~prev.codesKnown
    <3>1. t.updates = {}
      BY <1>7, <2>2
    <3> QED  BY <1>7, <1>8, <2>2, <3>1 DEF Turns
  <2> QED  BY <2>1, <2>2
<1>10. IsFiniteSet(DOMAIN active)
  <2>1. IsFiniteSet((DOMAIN named) \cup codes)
    BY <1>2, <1>5, FS_Union
  <2> QED  BY <1>6, <2>1
<1>11. Batteries(active) = codes
  BY <1>3, <1>5, <1>6 DEF Batteries
<1> QED  BY <1>5, <1>9, <1>10, <1>11 DEF active, t, m, codes, observed
-----------------------------------------------------------------------------
(* A journal with one more record.                                         *)
LEMMA GrowsByOne ==
  ASSUME log \in Seq(Range(log)), NEW rec
  PROVE  /\ Len(log) \in Nat /\ DOMAIN log = 1..Len(log)
         /\ Len(Append(log, rec)) = Len(log) + 1 /\ DOMAIN Append(log, rec) = 1..(Len(log) + 1)
         /\ Append(log, rec)[Len(log) + 1] = rec
         /\ \A i \in 1..Len(log) : Append(log, rec)[i] = log[i]
         /\ Append(log, rec) \in Seq(Range(Append(log, rec)))
<1>1. log \in Seq(Range(log) \cup {rec}) /\ rec \in Range(log) \cup {rec}
  <2>1. log \in Seq(Range(log)) /\ Len(log) \in Nat /\ \A i \in 1..Len(log) : log[i] \in Range(log)
    BY DEF Range
  <2> QED  BY <2>1
<1>2. /\ Len(log) \in Nat /\ DOMAIN log = 1..Len(log)
      /\ Len(Append(log, rec)) = Len(log) + 1 /\ DOMAIN Append(log, rec) = 1..(Len(log) + 1)
      /\ Append(log, rec)[Len(log) + 1] = rec
      /\ \A i \in 1..Len(log) : Append(log, rec)[i] = log[i]
  BY <1>1
<1>3. Append(log, rec) \in Seq(Range(Append(log, rec)))
  <2> DEFINE new == Append(log, rec)
  <2>1. new \in Seq(Range(log) \cup {rec})
    BY <1>1
  <2>2. \A i \in 1..Len(new) : new[i] \in Range(new)
    BY <1>2 DEF Range
  <2> HIDE DEF new
  <2>3. new = [i \in 1..Len(new) |-> new[i]] /\ Len(new) \in Nat
    BY <2>1
  <2>4. new \in [1..Len(new) -> Range(new)]
    BY <2>2, <2>3
  <2>5. new \in Seq(Range(new))
    BY <2>3, <2>4
  <2> QED  BY <2>5 DEF new
<1> QED  BY <1>2, <1>3

(* of which the invariant says that it is a sequence.                      *)
LEMMA LogGrows ==
  ASSUME LogInv, NEW rec
  PROVE  /\ Len(log) \in Nat /\ DOMAIN log = 1..Len(log)
         /\ Len(Append(log, rec)) = Len(log) + 1 /\ DOMAIN Append(log, rec) = 1..(Len(log) + 1)
         /\ Append(log, rec)[Len(log) + 1] = rec
         /\ \A i \in 1..Len(log) : Append(log, rec)[i] = log[i]
         /\ Append(log, rec) \in Seq(Range(Append(log, rec)))
BY GrowsByOne DEF LogInv

(* What fits the journal fits it with one more record that is no reading.  *)
LEMMA FitsGrows ==
  ASSUME LogInv, NEW rec, rec.kind # "raw", NEW st, NEW c, Fits(log, st, c, Len(log))
  PROVE  Fits(Append(log, rec), st, c, Len(log) + 1)
<1> DEFINE new == Append(log, rec)
           n == Len(log)
<1>1. /\ n \in Nat /\ DOMAIN log = 1..n /\ DOMAIN new = 1..(n + 1) /\ new[n + 1] = rec
      /\ \A i \in 1..n : new[i] = log[i]
  BY LogGrows
<1> HIDE DEF new, n
<1>2. Fits(new, st, c, n)
  <2>1. n \in 0..n /\ n + 1 \in Nat /\ n <= n + 1
    BY <1>1
  <2>2. Fits(log, st, c, n)
    BY DEF n
  <2> QED  BY <1>1, <2>1, <2>2, FitsPrefix
<1>3. \A i \in (n + 1)..(n + 1) : ~(new[i].kind = "raw" /\ new[i].company = c)
  BY <1>1
<1>4. n + 1 \in 0..(n + 1) /\ n \in 0..(n + 1) /\ n + 1 \in Nat
  BY <1>1
<1>5. Fits(new, st, c, n + 1)
  BY <1>1, <1>2, <1>3, <1>4, FitsStays
<1> QED  BY <1>5 DEF new, n

(* The record of a message, of whichever kind, is sound where it is put.   *)
Admissible(rec, i, prev) ==
  \/ rec = LateRecord(i)
  \/ scene.messages[i].packet /\ rec = PacketRecord(prev, i)
  \/ /\ ~scene.messages[i].packet /\ prev.time <= scene.messages[i].time
     /\ rec = SnapshotRecord(prev, i)

(* So a journal stays sound.                                               *)
LEMMA RecordAdmitted ==
  ASSUME AllInv, LedgerAssumption, NamesNoBattery, NEW i \in DOMAIN scene.messages,
         NEW rec, NEW prev, Fits(log, prev, company, Len(log)), Admissible(rec, i, prev)
  PROVE  LET new == Append(log, rec) IN
         /\ rec.company = company /\ RecordSound(new, Len(log) + 1)
         /\ rec.kind # "late" => Fits(new, rec.state, company, Len(log) + 1) /\ rec.state.company = company
<1> DEFINE new == Append(log, rec)
           n   == Len(log)
           m   == scene.messages[i]
           p   == LastIn(log, company, n)
           before == ActiveIn(log, p)
<1>1. /\ n \in Nat /\ DOMAIN log = 1..n /\ DOMAIN new = 1..(n + 1) /\ new[n + 1] = rec
      /\ \A j \in 1..n : new[j] = log[j]
  BY LogGrows DEF AllInv
<1>2. ASSUME NEW j \in 1..(n + 1), new[j].company # scene.owner, rec.company = company
      PROVE  rec.company = new[j].company
  BY <1>1, <1>2 DEF AllInv, LogInv
<1>3. scene \in Scenes /\ MessageSound(m)
  BY DEF AllInv, LogInv, LedgerAssumption
<1>4. CASE rec = LateRecord(i)
  <2>1. rec.company = company /\ rec.kind = "late" /\ rec.alarm = NoTransition /\ rec.message = i
    BY <1>4 DEF LateRecord, Record
  <2> HIDE DEF new, n
  <2>2. RecordSound(new, n + 1)
    BY <1>1, <1>2, <2>1 DEF RecordSound
  <2> QED  BY <2>1, <2>2 DEF new, n
<1>5. CASE m.packet /\ rec = PacketRecord(prev, i)
  <2>1. DOMAIN prev = DOMAIN NullState
    BY DEF Fits
  <2>2. /\ rec.kind = "energy" /\ rec.message = i /\ rec.company = company
        /\ DOMAIN rec.state = DOMAIN NullState
        /\ rec.state.company = company /\ rec.state.time = prev.time
        /\ rec.state.codesKnown = prev.codesKnown /\ rec.state.alarms = prev.alarms
        /\ rec.state.battery = prev.battery
        /\ rec.alarm = NoTransition
    BY <1>5, <2>1, PacketSays
  <2>3. Fits(log, rec.state, company, Len(log))
    BY <2>2 DEF Fits
  <2>4. Fits(new, rec.state, company, n + 1)
    BY <2>2, <2>3, FitsGrows DEF AllInv
  <2> HIDE DEF new, n
  <2>5. RecordSound(new, n + 1)
    BY <1>1, <1>2, <2>2, <2>4 DEF RecordSound
  <2> QED  BY <2>2, <2>4, <2>5 DEF new, n
<1>6. CASE ~m.packet /\ prev.time <= m.time /\ rec = SnapshotRecord(prev, i)
  <2> DEFINE active == ActiveOf(prev, m)
             codes  == BatteryCodes(BatteryObserved(m.battery), prev.battery)
  <2>1. /\ rec.kind = "raw" /\ rec.message = i /\ rec.company = company
        /\ DOMAIN rec.state = DOMAIN NullState
        /\ rec.state.company = company /\ rec.state.time = m.time /\ rec.state.codesKnown = TRUE
        /\ rec.state.alarms = active /\ rec.state.battery = codes
        /\ rec.alarm = TransitionOf(prev, m)
    <3>1. SnapshotSaid(rec, prev, i)
      BY <1>6, SnapshotSays
    <3> QED  BY <3>1 DEF SnapshotSaid
  <2>2. /\ prev.time \in Nat /\ TimeIn(log, p) <= prev.time
        /\ prev.codesKnown \in BOOLEAN /\ (prev.codesKnown => prev.alarms = before)
        /\ IsFiniteSet(prev.battery) /\ Batteries(before) \subseteq prev.battery
        /\ (KeptWhereSold => prev.battery = Batteries(before))
    BY DEF Fits
  <2>3. /\ Turns(TransitionOf(prev, m), before) /\ IsFiniteSet(DOMAIN active)
        /\ Batteries(active) = codes /\ IsFiniteSet(Batteries(active))
    <3> HIDE DEF before
    <3> QED  BY <1>3, <1>6, <2>2, SnapshotTurns
  <2>4. /\ rec.alarm.company = company /\ rec.alarm.at = m.time /\ rec.alarm.received = n + 1
        /\ rec.alarm.active = active
    BY <2>1 DEF TransitionOf, AlarmTransition, Received
  <2>5. m.time \in Nat
    BY <1>3 DEF MessageSound
  <2>6. /\ p \in 0..n /\ LastIn(new, company, n) = p
        /\ ActiveIn(new, p) = before /\ TimeIn(new, p) = TimeIn(log, p)
    <3>1. n \in 0..n /\ n + 1 \in Nat /\ n <= n + 1
      BY <1>1
    <3> HIDE DEF new, n
    <3> QED  BY <1>1, <3>1, LastInPrefix
  <2>7. LastIn(new, company, n + 1) = n + 1
    <3>1. n + 1 \in 1..(n + 1) /\ n + 1 \in Nat
      BY <1>1
    <3> HIDE DEF new, n
    <3> QED  BY <1>1, <2>1, <3>1, LastInSteps
  <2> HIDE DEF new, n, active, codes, before, p
  <2>8. ActiveIn(new, n + 1) = active /\ TimeIn(new, n + 1) = m.time
    BY <1>1, <2>1, <2>4 DEF ActiveIn, TimeIn
  <2>9. Fits(new, rec.state, company, n + 1)
    <3>1. rec.state.time \in Nat /\ TimeIn(new, LastIn(new, company, n + 1)) <= rec.state.time
      BY <2>1, <2>5, <2>7, <2>8
    <3>2. rec.state.codesKnown \in BOOLEAN /\ rec.state.alarms = ActiveIn(new, LastIn(new, company, n + 1))
      BY <2>1, <2>7, <2>8
    <3>3. /\ IsFiniteSet(rec.state.battery)
          /\ rec.state.battery = Batteries(ActiveIn(new, LastIn(new, company, n + 1)))
      BY <2>1, <2>3, <2>7, <2>8
    <3> QED  BY <2>1, <3>1, <3>2, <3>3 DEF Fits
  <2>10. TimeIn(new, p) \in Int
    <3>1. TimeIn(log, p) \in Int
      <4>1. CASE p = 0
        BY <4>1 DEF TimeIn
      <4>2. CASE p # 0
        <5>1. p \in 1..n /\ log[p].kind = "raw"
          <6>1. n \in 0..n
            BY <1>1
          <6> QED  BY <1>1, <4>2, <6>1, LastInBounds DEF p
        <5>2. log[p].message \in DOMAIN scene.messages /\ log[p].alarm.at = Message(log[p]).time
          BY <5>1 DEF AllInv, LogInv, RecordSound, RawSound, n
        <5> QED  BY <1>3, <4>2, <5>2 DEF LedgerAssumption, MessageSound, TimeIn, Message
      <4> QED  BY <4>1, <4>2
    <3> QED  BY <2>6, <3>1
  <2>11. RawSound(new, n + 1)
    <3>1. (n + 1) - 1 = n /\ new[n + 1] = rec /\ Message(rec) = m
      BY <1>1, <2>1 DEF Message
    <3>2. KeptWhereSold => codes = BatteryCodes(BatteryObserved(m.battery), Batteries(before))
      BY <2>2 DEF codes
    <3>3. TimeIn(new, p) <= m.time
      BY <1>6, <2>2, <2>5, <2>6, <2>10
    <3> QED  BY <1>6, <2>1, <2>3, <2>4, <2>6, <3>1, <3>2, <3>3 DEF RawSound
  <2>12. RecordSound(new, n + 1)
    BY <1>1, <1>2, <2>1, <2>9, <2>11 DEF RecordSound
  <2> QED  BY <2>1, <2>9, <2>12 DEF new, n
<1> QED  BY <1>4, <1>5, <1>6 DEF Admissible
-----------------------------------------------------------------------------
(* The events as the first n records leave them: one for every time an     *)
(* alarm of a company became critical.                                     *)
IsRise(lg, x, c, n) ==
  \E i \in 1..n :
    /\ lg[i].kind = "raw" /\ lg[i].company = c
    /\ \E k \in RiseOf(ActiveIn(lg, LastIn(lg, c, i - 1)), ActiveIn(lg, i)) : x = <<k, TimeIn(lg, i)>>

EventsAt(table, n) ==
  /\ Covered(table)
  /\ \A c \in DOMAIN scene.shifts : \A x : x \in Told(table.events, c) <=> IsRise(log, x, c, n)

(* One record more is a rise more, if it is a reading that makes one.      *)
LEMMA RisesStep ==
  ASSUME NEW lg, NEW c, NEW n \in Nat \ {0}, NEW x
  PROVE  IsRise(lg, x, c, n) <=>
           \/ IsRise(lg, x, c, n - 1)
           \/ /\ lg[n].kind = "raw" /\ lg[n].company = c
              /\ \E k \in RiseOf(ActiveIn(lg, LastIn(lg, c, n - 1)), ActiveIn(lg, n)) : x = <<k, TimeIn(lg, n)>>
<1>1. 1..n = (1..(n - 1)) \cup {n}
  OBVIOUS
<1> QED  BY <1>1 DEF IsRise

(* A reading that is written leaves the tables of all companies as it says.*)
LEMMA ReadingWritten ==
  ASSUME LogInv, LedgerAssumption, NEW n \in 1..Len(log), log[n].kind = "raw",
         NEW table, TableAt(table, n - 1), EventsAt(table, n - 1)
  PROVE  LET new == WriteAlarmTransition(table, log[n].alarm) IN TableAt(new, n) /\ EventsAt(new, n)
<1> DEFINE t   == log[n].alarm
           o   == log[n].company
           p   == LastIn(log, o, n - 1)
           before == ActiveIn(log, p)
           new == WriteAlarmTransition(table, t)
<1>1. DOMAIN log = 1..Len(log) /\ Len(log) \in Nat /\ n - 1 \in 0..Len(log) /\ n \in Nat \ {0}
  BY DEF LogInv
<1>2. RecordSound(log, n) /\ o \in DOMAIN scene.shifts /\ log[n].message \in DOMAIN scene.messages
  BY DEF LogInv, LedgerAssumption, RecordSound
<1>3. /\ t.at = Message(log[n]).time /\ TimeIn(log, p) <= t.at /\ t.company = o /\ t.received = n
      /\ t.active = log[n].state.alarms /\ Turns(t, before)
  BY <1>2 DEF RecordSound, RawSound
<1>4. t.at \in Nat \ {0}
  BY <1>2, <1>3 DEF LedgerAssumption, MessageSound, LogInv, Message
<1>5. /\ p \in 0..(n - 1)
      /\ p # 0 => p \in 1..(n - 1) /\ log[p].kind = "raw" /\ log[p].company = o
  BY <1>1, LastInBounds
<1>6. TimeIn(log, p) \in Nat
  <2>1. CASE p = 0
    BY <2>1 DEF TimeIn
  <2>2. CASE p # 0
    <3>1. RecordSound(log, p) /\ log[p].kind = "raw"
      BY <1>1, <1>5, <2>2 DEF LogInv
    <3>2. log[p].alarm.at = Message(log[p]).time /\ log[p].message \in DOMAIN scene.messages
      BY <3>1 DEF RecordSound, RawSound
    <3> QED  BY <2>2, <3>2 DEF LedgerAssumption, MessageSound, LogInv, Message, TimeIn
  <2> QED  BY <2>1, <2>2
<1>7. \A row \in table.rows : DOMAIN row = RowFields
  BY DEF TableAt
<1>8. TableFits(table.rows, t.company, TimeIn(log, p), p, before)
  BY <1>2, <1>3 DEF TableAt, FitsAt
<1>9. ActiveIn(log, n) = t.active /\ TimeIn(log, n) = t.at
  BY <1>1, <1>3 DEF ActiveIn, TimeIn
<1>10. /\ LastIn(log, o, n) = n
       /\ \A c : c # o => LastIn(log, c, n) = LastIn(log, c, n - 1)
  <2>1. ASSUME NEW c
        PROVE  LastIn(log, c, n) = IF log[n].kind = "raw" /\ log[n].company = c THEN n
                                   ELSE LastIn(log, c, n - 1)
    <3> HIDE DEF t, p, before, new, o
    <3> QED  BY <1>1, LastInSteps
  <2> QED  BY <2>1
<1> HIDE DEF t, p, before, new, o
<1>11. p \in Nat /\ p < t.received /\ t.received \in Nat
  BY <1>1, <1>3, <1>5
<1>12. TableFits(new.rows, o, t.at, n, t.active)
  <2>1. TableFits(new.rows, t.company, t.at, t.received, t.active)
    BY <1>3, <1>4, <1>6, <1>7, <1>8, <1>11, TransitionFits DEF new
  <2> QED  BY <1>3, <2>1
<1>13. ASSUME NEW c \in DOMAIN scene.shifts  PROVE FitsAt(log, new.rows, c, n)
  <2>1. CASE c = o
    BY <1>9, <1>10, <1>12, <2>1 DEF FitsAt
  <2>2. CASE c # o
    <3>1. FitsAt(log, table.rows, c, n - 1)
      BY DEF TableAt
    <3>2. FitsAt(log, new.rows, c, n - 1)
      BY <1>3, <1>7, <2>2, <3>1, OthersFit DEF FitsAt, new
    <3> QED  BY <1>10, <2>2, <3>2 DEF FitsAt
  <2> QED  BY <2>1, <2>2
<1>14. TableAt(new, n)
  BY <1>7, <1>13, RowsTyped DEF TableAt, new
<1>15. Covered(new)
  BY <1>7, EventsCover DEF EventsAt, new
<1>16. ASSUME NEW c \in DOMAIN scene.shifts, NEW x
       PROVE  x \in Told(new.events, c) <=> IsRise(log, x, c, n)
  <2>1. x \in Told(table.events, c) <=> IsRise(log, x, c, n - 1)
    BY DEF EventsAt
  <2>2. CASE c = o
    <3>1. Told(new.events, t.company)
            = Told(table.events, t.company) \cup {<<k, t.at>> : k \in RiseOf(before, t.active)}
      BY <1>3, <1>4, <1>6, <1>7, <1>8, <1>11, RisesTold DEF new
    <3>2. x \in Told(new.events, c) <=>
            x \in Told(table.events, c) \/ \E k \in RiseOf(before, t.active) : x = <<k, t.at>>
      BY <1>3, <2>2, <3>1
    <3>3. log[n].company = c /\ before = ActiveIn(log, LastIn(log, c, n - 1))
      BY <2>2 DEF before, p, o
    <3> QED  BY <1>1, <1>9, <2>1, <3>2, <3>3, RisesStep
  <2>3. CASE c # o
    <3>1. Told(new.events, c) = Told(table.events, c)
      BY <1>3, <1>7, <2>3, OthersTold DEF new
    <3>2. log[n].company # c
      BY <2>3 DEF o
    <3> QED  BY <1>1, <2>1, <3>1, <3>2, RisesStep
  <2> QED  BY <2>2, <2>3
<1> QED  BY <1>14, <1>15, <1>16 DEF EventsAt, new, t

(* So does any record.                                                     *)
LEMMA RecordWritten ==
  ASSUME LogInv, LedgerAssumption, NEW n \in 1..Len(log),
         NEW table, TableAt(table, n - 1), EventsAt(table, n - 1)
  PROVE  LET new == WriteAlarmTransition(table, log[n].alarm) IN TableAt(new, n) /\ EventsAt(new, n)
<1> DEFINE new == WriteAlarmTransition(table, log[n].alarm)
<1>1. CASE log[n].kind = "raw"
  BY <1>1, ReadingWritten
<1>2. CASE log[n].kind # "raw"
  <2>1. DOMAIN log = 1..Len(log) /\ Len(log) \in Nat /\ n - 1 \in 0..n /\ n \in 0..Len(log) /\ n \in Nat \ {0}
    BY DEF LogInv
  <2>2. log[n].alarm = NoTransition
    BY <1>2 DEF LogInv, RecordSound
  <2>3. new.rows = table.rows /\ new.events = table.events
    BY <2>2, NothingWritten DEF TableAt
  <2>4. ASSUME NEW c  PROVE FitsAt(log, table.rows, c, n) <=> FitsAt(log, table.rows, c, n - 1)
    <3>1. \A i \in ((n - 1) + 1)..n : ~(log[i].kind = "raw" /\ log[i].company = c)
      BY <1>2, <2>1
    <3> QED  BY <2>1, <3>1, FitsStays
  <2>5. \A c, x : IsRise(log, x, c, n) <=> IsRise(log, x, c, n - 1)
    BY <1>2, <2>1, RisesStep
  <2> HIDE DEF new
  <2>6. TableAt(new, n) /\ EventsAt(new, n)
    BY <2>3, <2>4, <2>5 DEF TableAt, EventsAt, Covered
  <2> QED  BY <2>6 DEF new
<1> QED  BY <1>1, <1>2

(* So does a batch, after which there would otherwise be a first record    *)
(* that does not.                                                          *)
LEMMA BatchWritten ==
  ASSUME LogInv, LedgerAssumption, NEW n \in Nat, done + n <= Len(log),
         TableAt(alarms, done), EventsAt(alarms, done)
  PROVE  LET batch == SubSeq(log, done + 1, done + n)
             new   == WriteAlarms(alarms, batch)
         IN  TableAt(new, done + n) /\ EventsAt(new, done + n)
<1> DEFINE batch == SubSeq(log, done + 1, done + n)
<1>1. Len(log) \in Nat /\ done \in Nat /\ log \in Seq(Range(log))
  BY DEF LogInv
<1>2. DOMAIN batch = 1..n /\ \A i \in 1..n : batch[i] = log[done + i]
  BY <1>1
<1> HIDE DEF batch
<1>3. PICK after : WrittenInOrder(after, alarms, batch, n)
  BY <1>2, BatchInOrder
<1> DEFINE Wrong == {i \in 0..n : ~(TableAt(after[i], done + i) /\ EventsAt(after[i], done + i))}
<1>4. Wrong = {}
  <2> SUFFICES ASSUME Wrong # {}  PROVE FALSE
    OBVIOUS
  <2>1. PICK i \in Wrong : \A x \in Wrong : i <= x
    <3>1. Wrong \in SUBSET Nat
      OBVIOUS
    <3> HIDE DEF Wrong
    <3> QED  BY <3>1, LeastExists
  <2>2. i \in 0..n /\ ~(TableAt(after[i], done + i) /\ EventsAt(after[i], done + i))
    BY <2>1
  <2>3. i # 0
    <3>1. CASE i = 0
      <4>1. done + i = done /\ after[i] = alarms
        BY <1>1, <1>3, <3>1 DEF WrittenInOrder
      <4> QED  BY <2>2, <4>1
    <3> QED  BY <3>1
  <2>4. i \in 1..n /\ i - 1 \in 0..n /\ i - 1 \notin Wrong
    BY <2>1, <2>2, <2>3
  <2>5. TableAt(after[i - 1], done + (i - 1)) /\ EventsAt(after[i - 1], done + (i - 1))
    BY <2>4
  <2>6. done + i \in 1..Len(log) /\ done + (i - 1) = (done + i) - 1
    BY <1>1, <2>4
  <2>7. after[i] = WriteAlarmTransition(after[i - 1], log[done + i].alarm)
    BY <1>2, <1>3, <2>4 DEF WrittenInOrder
  <2>8. TableAt(after[i - 1], (done + i) - 1) /\ EventsAt(after[i - 1], (done + i) - 1)
    BY <2>5, <2>6
  <2> HIDE DEF Wrong
  <2> QED  BY <2>2, <2>6, <2>7, <2>8, RecordWritten
<1>5. n \in 0..n
  OBVIOUS
<1>6. TableAt(after[n], done + n) /\ EventsAt(after[n], done + n)
  BY <1>4, <1>5
<1> HIDE DEF Wrong
<1> QED  BY <1>3, <1>6 DEF batch, WrittenInOrder
-----------------------------------------------------------------------------
(* The invariant: the journal, the process, and the tables.                *)
EventInv  == EventsAt(alarms, done)
LedgerInv == AllInv /\ EventInv

(* A journal is as sound in the next state as one that has its records.    *)
LEMMA SoundNext ==
  ASSUME scene' = scene, NEW i, RecordSound(log', i)
  PROVE  RecordSound(log, i)'
BY DEF RecordSound, RawSound, Message

(* One record more: the journal,                                           *)
LEMMA LogAdmits ==
  ASSUME LogInv, scene' = scene, company' = company, done' = done, lost' = lost,
         NEW rec, log' = Append(log, rec), rec.company = company, RecordSound(Append(log, rec), Len(log) + 1)
  PROVE  LogInv'
<1> DEFINE new == Append(log, rec)
           n   == Len(log)
<1>1. /\ n \in Nat /\ DOMAIN log = 1..n /\ Len(new) = n + 1 /\ DOMAIN new = 1..(n + 1) /\ new[n + 1] = rec
      /\ \A i \in 1..n : new[i] = log[i]
      /\ new \in Seq(Range(new))
  BY LogGrows
<1>2. RecordSound(new, n + 1) /\ log' = new
  OBVIOUS
<1>3. /\ done \in 0..n /\ lost \in 0..done
      /\ \A i \in 1..n : RecordSound(log, i) /\ log[i].company \in {scene.owner, company}
  BY DEF LogInv
<1> HIDE DEF new, n
<1>4. ASSUME NEW i \in 1..(n + 1)
      PROVE  RecordSound(new, i) /\ new[i].company \in {scene.owner, company}
  <2>1. CASE i = n + 1
    BY <1>1, <1>2, <2>1
  <2>2. CASE i # n + 1
    <3>1. i \in 1..n /\ RecordSound(log, i) /\ n + 1 \in Nat /\ n <= n + 1
      BY <1>1, <1>3, <2>2
    <3>2. RecordSound(new, i)
      BY <1>1, <3>1, SoundPrefix
    <3> QED  BY <1>1, <1>3, <3>1, <3>2
  <2> QED  BY <2>1, <2>2
<1>5. \A i \in 1..Len(log') : RecordSound(log, i)' /\ log'[i].company \in {scene'.owner, company'}
  BY <1>1, <1>2, <1>4, SoundNext
<1>6. log' \in Seq(Range(log')) /\ done' \in 0..Len(log') /\ lost' \in 0..done'
  BY <1>1, <1>2, <1>3
<1> QED  BY <1>5, <1>6 DEF LogInv

(* and the tables.                                                         *)
LEMMA TablesAdmit ==
  ASSUME LogInv, AlarmInv, EventInv, scene' = scene, alarms' = alarms, done' = done,
         NEW rec, log' = Append(log, rec)
  PROVE  AlarmInv' /\ EventInv'
<1> DEFINE new == Append(log, rec)
           n   == Len(log)
<1>1. /\ n \in Nat /\ DOMAIN log = 1..n /\ DOMAIN new = 1..(n + 1) /\ \A i \in 1..n : new[i] = log[i]
  BY LogGrows
<1>2. log' = new /\ done \in 0..n
  BY DEF LogInv
<1> HIDE DEF new, n
<1>3. n + 1 \in Nat /\ n <= n + 1
  BY <1>1
<1>4. \A c : \A rows : FitsAt(new, rows, c, done) <=> FitsAt(log, rows, c, done)
  BY <1>1, <1>2, <1>3, FitsPrefix
<1>5. /\ \A i \in 0..n : ActiveIn(new, i) = ActiveIn(log, i) /\ TimeIn(new, i) = TimeIn(log, i)
      /\ \A c : \A k \in 0..n : LastIn(new, c, k) = LastIn(log, c, k) /\ LastIn(log, c, k) \in 0..n
  BY <1>1, <1>3, LastInPrefix
<1>6. ASSUME NEW c, NEW x  PROVE IsRise(new, x, c, done) <=> IsRise(log, x, c, done)
  <2>1. ASSUME NEW i \in 1..done
        PROVE  /\ new[i] = log[i] /\ TimeIn(new, i) = TimeIn(log, i) /\ ActiveIn(new, i) = ActiveIn(log, i)
               /\ ActiveIn(new, LastIn(new, c, i - 1)) = ActiveIn(log, LastIn(log, c, i - 1))
    <3>1. i \in 1..n /\ i \in 0..n /\ i - 1 \in 0..n
      BY <1>1, <1>2
    <3> QED  BY <1>1, <1>5, <3>1
  <2> QED  BY <2>1 DEF IsRise
<1>7. AlarmInv'
  BY <1>2, <1>4 DEF AlarmInv, TableAt
<1>8. EventInv'
  BY <1>2, <1>6 DEF EventInv, EventsAt
<1> QED  BY <1>7, <1>8

(* A process that knows something it may.                                  *)
LEMMA StateKnown ==
  ASSUME StateInv, known' = TRUE, scene' = scene, company' = company, lost' = lost,
         state'.company \in {NoCompany, company}, Fits(log', state', company, Len(log')),
         state'.company = NoCompany =>
           /\ state'.codesKnown = FALSE
           /\ "loses" \notin scene.flags /\ KeptWhereSold => state'.battery = {}
  PROVE  StateInv'
<1>1. Belongs(state)'
  BY DEF Belongs
<1>2. known' \in BOOLEAN /\ state'.company \in {NoCompany, scene'.owner, company'}
  OBVIOUS
<1>3. "loses" \notin scene'.flags => lost' = 0
  BY DEF StateInv
<1>4. Fits(log, state, company, Len(log))'
  OBVIOUS
<1>5. state'.company = NoCompany =>
        ~state'.codesKnown /\ ("loses" \notin scene'.flags /\ KeptWhereSold => state'.battery = {})
  OBVIOUS
<1> QED  BY <1>1, <1>2, <1>3, <1>4, <1>5 DEF StateInv
-----------------------------------------------------------------------------
(* Nothing has been said yet.                                              *)
LEMMA LedgerInit ==
  ASSUME LedgerAssumption, Init
  PROVE  LedgerInv
<1>1. /\ scene \in Scenes /\ company = scene.owner /\ known = FALSE /\ log = <<>> /\ done = 0 /\ lost = 0
      /\ alarms.rows = {} /\ alarms.events = {}
  BY DEF Init, NoAlarmRows
<1>2. company \in DOMAIN scene.shifts
  BY <1>1 DEF LedgerAssumption
<1>3. Len(log) = 0 /\ DOMAIN log = 1..0 /\ log \in Seq(Range(log))
  BY <1>1
<1>4. LogInv
  BY <1>1, <1>2, <1>3 DEF LogInv
<1>5. StateInv
  <2>1. known \in BOOLEAN /\ ~known /\ lost = 0
    BY <1>1
  <2>2. \A i \in (lost + 1)..Len(log) : FALSE
    BY <1>1, <1>3
  <2> QED  BY <2>1, <2>2 DEF StateInv
<1>6. ASSUME NEW c  PROVE FitsAt(log, alarms.rows, c, done)
  <2>1. LastIn(log, c, 0) = 0
    <3>1. 0 \in Nat /\ 0 \in 0..0 /\ DOMAIN log = 1..0 /\ LastIn(log, c, 0) \in 0..0
      BY <1>3, LastInBounds
    <3> QED  BY <3>1
  <2>2. ActiveIn(log, LastIn(log, c, done)) = <<>>
    BY <1>1, <2>1 DEF ActiveIn
  <2>3. {row.key : row \in OpenOf({}, c)} = {} /\ DOMAIN <<>> = {}
    BY DEF OpenOf
  <2> QED  BY <1>1, <2>2, <2>3 DEF FitsAt, TableFits, OpenOf
<1>7. AlarmInv
  BY <1>1, <1>6 DEF AlarmInv, TableAt
<1>8. EventInv
  <2>1. \A c, x : ~IsRise(log, x, c, done)
    BY <1>1 DEF IsRise
  <2>2. \A c, x : x \notin Told(alarms.events, c)
    BY <1>1 DEF Told
  <2> QED  BY <1>1, <2>1, <2>2 DEF EventInv, EventsAt, Covered
<1> QED  BY <1>4, <1>5, <1>7, <1>8 DEF LedgerInv, AllInv

(* A late record, of a message too old for anything else.                  *)
LEMMA StepStale ==
  ASSUME LedgerInv, LedgerAssumption, NamesNoBattery, NEW i \in DOMAIN scene.messages, Stale(i)
  PROVE  LedgerInv'
<1> DEFINE rec == LateRecord(i)
           new == Append(log, rec)
<1>1. /\ log' = new /\ scene' = scene /\ company' = company /\ known' = known /\ state' = state
      /\ lost' = lost /\ done' = done /\ alarms' = alarms
  BY DEF Stale, Admit, inputVars, databaseVars
<1>2. AllInv /\ LogInv /\ StateInv /\ AlarmInv /\ EventInv
  BY DEF LedgerInv, AllInv
<1>3. Fits(log, Baseline, company, Len(log))
  BY <1>2, BaselineFits
<1>4. rec.company = company /\ RecordSound(new, Len(log) + 1)
  BY <1>2, <1>3, RecordAdmitted DEF Admissible
<1>5. rec.kind = "late"
  BY DEF LateRecord, Record
<1>6. /\ Len(log) \in Nat /\ Len(new) = Len(log) + 1 /\ DOMAIN log = 1..Len(log)
      /\ DOMAIN new = 1..(Len(log) + 1) /\ new[Len(log) + 1] = rec
      /\ \A j \in 1..Len(log) : new[j] = log[j]
  BY <1>2, LogGrows
<1> HIDE DEF rec
<1>7. LogInv'
  BY <1>1, <1>2, <1>4, LogAdmits
<1>8. AlarmInv' /\ EventInv'
  BY <1>1, <1>2, TablesAdmit
<1>9. StateInv'
  <2>1. ~known' => \A j \in (lost' + 1)..Len(log') : log'[j].kind = "late"
    <3>1. ASSUME ~known, NEW j \in (lost + 1)..Len(new)  PROVE new[j].kind = "late"
      <4>1. lost \in Nat
        BY <1>2 DEF LogInv
      <4>2. CASE j = Len(log) + 1
        BY <1>5, <1>6, <4>2
      <4>3. CASE j # Len(log) + 1
        <5>1. j \in (lost + 1)..Len(log) /\ j \in 1..Len(log)
          BY <1>6, <3>1, <4>1, <4>3
        <5> QED  BY <1>2, <1>6, <3>1, <5>1 DEF StateInv
      <4> QED  BY <4>2, <4>3
    <3> HIDE DEF new
    <3> QED  BY <1>1, <3>1
  <2>2. known /\ Belongs(state) => Fits(new, state, company, Len(new))
    BY <1>2, <1>5, <1>6, FitsGrows DEF StateInv
  <2>3. known /\ ~Belongs(state) => Places(new, company) = {}
    <3>1. ASSUME known, ~Belongs(state), NEW j \in Places(new, company)  PROVE FALSE
      <4>1. j \in 1..(Len(log) + 1) /\ new[j].kind = "raw" /\ new[j].company = company
        BY <1>6, <3>1 DEF Places
      <4>2. j \in 1..Len(log)
        BY <1>5, <1>6, <4>1
      <4>3. j \in Places(log, company)
        BY <1>6, <4>1, <4>2 DEF Places
      <4> QED  BY <1>2, <3>1, <4>3 DEF StateInv
    <3> QED  BY <3>1
  <2> HIDE DEF new
  <2>4. /\ known' \in BOOLEAN /\ ("loses" \notin scene'.flags => lost' = 0)
        /\ (known' => state'.company \in {NoCompany, scene'.owner, company'})
    BY <1>1, <1>2 DEF StateInv
  <2>5. known' /\ Belongs(state)' => Fits(log', state', company', Len(log'))
    BY <1>1, <2>2 DEF Belongs
  <2>6. known' /\ ~Belongs(state)' => Places(log', company') = {}
    BY <1>1, <2>3 DEF Belongs
  <2>7. known' /\ state'.company = NoCompany =>
          ~state'.codesKnown /\ ("loses" \notin scene'.flags /\ KeptWhereSold => state'.battery = {})
    BY <1>1, <1>2 DEF StateInv
  <2> QED  BY <2>1, <2>4, <2>5, <2>6, <2>7 DEF StateInv
<1> QED  BY <1>7, <1>8, <1>9 DEF LedgerInv, AllInv

(* A message that is handled: late, repeated, or accepted.                 *)
LEMMA StepHandle ==
  ASSUME LedgerInv, LedgerAssumption, NamesNoBattery, NEW i \in DOMAIN scene.messages, Handle(i)
  PROVE  LedgerInv'
<1> DEFINE m    == scene.messages[i]
           prev == Baseline
<1>1. /\ scene' = scene /\ company' = company /\ known' = TRUE
      /\ lost' = lost /\ done' = done /\ alarms' = alarms
  BY DEF Handle, inputVars, databaseVars
<1>2. AllInv /\ LogInv /\ StateInv /\ AlarmInv /\ EventInv
  BY DEF LedgerInv, AllInv
<1>3. /\ Fits(log, prev, company, Len(log))
      /\ prev.company \in {NoCompany, company}
      /\ prev.company = NoCompany =>
           /\ prev.codesKnown = FALSE
           /\ "loses" \notin scene.flags /\ KeptWhereSold => prev.battery = {}
  BY <1>2, BaselineFits
<1>4. \/ log' = Append(log, LateRecord(i)) /\ state' = prev
      \/ log' = log /\ state' = prev
      \/ /\ m.time >= LastTime(prev, m)
         /\ log' = Append(log, IF m.packet THEN PacketRecord(prev, i) ELSE SnapshotRecord(prev, i))
         /\ state' = Last(log').state
  BY DEF Handle, Admit
<1>5. MessageSound(m)
  BY <1>2 DEF LogInv, LedgerAssumption
<1>6. company # NoCompany
  BY <1>2 DEF LogInv, LedgerAssumption, ShiftsSound
<1> HIDE DEF prev
<1>7. CASE log' = Append(log, LateRecord(i)) /\ state' = prev
  <2> DEFINE rec == LateRecord(i)
             new == Append(log, rec)
  <2>1. rec.company = company /\ RecordSound(new, Len(log) + 1)
    BY <1>2, <1>3, RecordAdmitted DEF Admissible
  <2>2. rec.kind # "raw"
    BY DEF LateRecord, Record
  <2> HIDE DEF rec
  <2>3. LogInv' /\ AlarmInv' /\ EventInv'
    BY <1>1, <1>2, <1>7, <2>1, LogAdmits, TablesAdmit DEF rec
  <2>4. Fits(new, prev, company, Len(log) + 1) /\ Len(new) = Len(log) + 1
    BY <1>2, <1>3, <2>2, FitsGrows, LogGrows
  <2>5. Fits(log', state', company, Len(log'))
    BY <1>7, <2>4 DEF rec
  <2>6. StateInv'
    BY <1>1, <1>2, <1>3, <1>7, <2>5, StateKnown
  <2> QED  BY <2>3, <2>6 DEF LedgerInv, AllInv
<1>8. CASE log' = log /\ state' = prev
  <2>1. LogInv'
    <3>1. \A j : RecordSound(log, j) => RecordSound(log, j)'
      BY <1>1, <1>8, SoundNext
    <3> QED  BY <1>1, <1>2, <1>8, <3>1 DEF LogInv
  <2>2. AlarmInv' /\ EventInv'
    BY <1>1, <1>2, <1>8 DEF AlarmInv, TableAt, EventInv, EventsAt
  <2>3. Fits(log', state', company, Len(log'))
    BY <1>3, <1>8
  <2>4. StateInv'
    BY <1>1, <1>2, <1>3, <1>8, <2>3, StateKnown
  <2> QED  BY <2>1, <2>2, <2>4 DEF LedgerInv, AllInv
<1>9. CASE /\ m.time >= LastTime(prev, m)
           /\ log' = Append(log, IF m.packet THEN PacketRecord(prev, i) ELSE SnapshotRecord(prev, i))
           /\ state' = Last(log').state
  <2> DEFINE rec == IF m.packet THEN PacketRecord(prev, i) ELSE SnapshotRecord(prev, i)
             new == Append(log, rec)
  <2>1. Admissible(rec, i, prev)
    <3>1. CASE m.packet
      BY <3>1 DEF Admissible
    <3>2. CASE ~m.packet
      <4>1. LastTime(prev, m) = prev.time
        BY <3>2 DEF LastTime
      <4>2. prev.time <= m.time
        BY <1>3, <1>5, <1>9, <4>1 DEF Fits, MessageSound
      <4> QED  BY <3>2, <4>2 DEF Admissible
    <3> QED  BY <1>5, <3>1, <3>2 DEF MessageSound
  <2>2. rec.kind # "late"
    BY DEF PacketRecord, SnapshotRecord, Record
  <2> HIDE DEF rec
  <2>3. /\ rec.company = company /\ RecordSound(new, Len(log) + 1)
        /\ Fits(new, rec.state, company, Len(log) + 1) /\ rec.state.company = company
    BY <1>2, <1>3, <2>1, <2>2, RecordAdmitted
  <2>4. /\ Len(log) \in Nat /\ Len(new) = Len(log) + 1 /\ new[Len(log) + 1] = rec
    BY <1>2, LogGrows
  <2>5. log' = new /\ state' = rec.state
    BY <1>9, <2>4 DEF rec, Last
  <2>6. LogInv' /\ AlarmInv' /\ EventInv'
    BY <1>1, <1>2, <2>3, <2>5, LogAdmits, TablesAdmit
  <2> HIDE DEF new
  <2>7. Fits(log', state', company, Len(log'))
    BY <2>3, <2>4, <2>5
  <2>8. state'.company = company
    BY <2>3, <2>5
  <2>9. StateInv'
    BY <1>1, <1>2, <1>6, <2>7, <2>8, StateKnown
  <2> QED  BY <2>6, <2>9 DEF LedgerInv, AllInv
<1> QED  BY <1>4, <1>7, <1>8, <1>9

(* A batch is written: the journal and the process stay as they are.       *)
LEMMA StepWrite ==
  ASSUME LedgerInv, LedgerAssumption, NEW n \in 1..scene.most, Write(n)
  PROVE  LedgerInv'
<1> DEFINE batch == SubSeq(log, done + 1, done + n)
<1>1. /\ scene' = scene /\ company' = company /\ known' = known /\ state' = state /\ log' = log /\ lost' = lost
      /\ done' = done + n /\ n >= 1 /\ done + n <= Len(log)
  BY DEF Write, inputVars, processVars
<1>2. alarms' = WriteAlarms(alarms, batch)
  BY DEF Write
<1>3. LogInv /\ StateInv /\ TableAt(alarms, done) /\ EventsAt(alarms, done)
  BY DEF LedgerInv, AllInv, AlarmInv, EventInv
<1>4. n \in Nat /\ done \in 0..Len(log) /\ lost \in 0..done /\ Len(log) \in Nat
  BY <1>1, <1>3 DEF LogInv
<1>5. TableAt(alarms', done + n) /\ EventsAt(alarms', done + n)
  BY <1>1, <1>2, <1>3, <1>4, BatchWritten
<1>6. LogInv'
  <2>1. \A j : RecordSound(log, j) => RecordSound(log, j)'
    BY <1>1, SoundNext
  <2>2. done' \in 0..Len(log') /\ lost' \in 0..done'
    BY <1>1, <1>4
  <2> QED  BY <1>1, <1>3, <2>1, <2>2 DEF LogInv
<1>7. StateInv'
  BY <1>1, <1>3 DEF StateInv, Belongs
<1>8. AlarmInv' /\ EventInv'
  BY <1>1, <1>5 DEF AlarmInv, TableAt, EventInv, EventsAt
<1> QED  BY <1>6, <1>7, <1>8 DEF LedgerInv, AllInv

(* What no step but a message or a batch changes.                          *)
LEMMA TablesStay ==
  ASSUME AlarmInv, EventInv, scene' = scene, log' = log, done' = done, alarms' = alarms
  PROVE  AlarmInv' /\ EventInv'
BY DEF AlarmInv, TableAt, EventInv, EventsAt

(* The same journal is as sound as it was.                                 *)
LEMMA LogStays ==
  ASSUME LogInv, scene' = scene, company' = company, log' = log, done' = done, lost' \in 0..done
  PROVE  LogInv'
<1>1. \A j : RecordSound(log, j) => RecordSound(log, j)'
  BY SoundNext
<1> QED  BY <1>1 DEF LogInv

(* A restart: the last state of the journal fits it, as none is after it.  *)
LEMMA StepRestart ==
  ASSUME LedgerInv, LedgerAssumption, Restart
  PROVE  LedgerInv'
<1> DEFINE kept == {i \in (lost + 1)..Len(log) : log[i].kind # "late"}
<1>1. /\ scene' = scene /\ company' = company /\ log' = log /\ lost' = lost /\ done' = done /\ alarms' = alarms
      /\ \/ kept = {} /\ known' = FALSE /\ state' = NullState
         \/ kept # {} /\ known' = TRUE /\ state' = log[Max(kept)].state
  BY DEF Restart, inputVars, databaseVars
<1>2. LogInv /\ StateInv /\ AlarmInv /\ EventInv
  BY DEF LedgerInv, AllInv
<1>3. /\ DOMAIN log = 1..Len(log) /\ Len(log) \in Nat /\ done \in 0..Len(log) /\ lost \in 0..done
  BY <1>2 DEF LogInv
<1>4. LogInv' /\ AlarmInv' /\ EventInv'
  BY <1>1, <1>2, <1>3, LogStays, TablesStay
<1>5. CASE kept = {} /\ known' = FALSE /\ state' = NullState
  <2>1. \A i \in (lost + 1)..Len(log) : log[i].kind = "late"
    BY <1>5
  <2>2. known' \in BOOLEAN /\ ~known'
    BY <1>5
  <2>3. "loses" \notin scene'.flags => lost' = 0
    BY <1>1, <1>2 DEF StateInv
  <2>4. \A i \in (lost' + 1)..Len(log') : log'[i].kind = "late"
    BY <1>1, <2>1
  <2>5. StateInv'
    BY <2>2, <2>3, <2>4 DEF StateInv
  <2> QED  BY <1>4, <2>5 DEF LedgerInv, AllInv
<1>6. CASE kept # {} /\ known' = TRUE /\ state' = log[Max(kept)].state
  <2> DEFINE k == Max(kept)
  <2>1. k \in kept /\ \A x \in kept : x <= k
    <3>1. kept \in SUBSET (0..Len(log))
      BY <1>3
    <3> HIDE DEF kept
    <3> QED  BY <1>3, <1>6, <3>1, LastPlace
  <2>2. k \in 1..Len(log) /\ log[k].kind # "late"
    BY <1>3, <2>1
  <2>3. \A i \in (k + 1)..Len(log) : log[i].kind = "late"
    <3>1. ASSUME NEW i \in (k + 1)..Len(log)  PROVE log[i].kind = "late"
      <4>1. i \in (lost + 1)..Len(log) /\ ~(i <= k)
        BY <1>3, <2>1, <2>2
      <4>2. i \notin kept
        BY <2>1, <4>1
      <4> QED  BY <4>1, <4>2
    <3> QED  BY <3>1
  <2>4. state' = log[k].state
    BY <1>6
  <2> HIDE DEF k, kept
  <2>5. /\ RecordSound(log, k) /\ log[k].company \in {scene.owner, company}
        /\ log[k].state.company = log[k].company /\ Fits(log, log[k].state, log[k].company, k)
    BY <1>2, <2>2 DEF LogInv, RecordSound
  <2>6. log[k].company # NoCompany
    BY <1>2, <2>5 DEF LogInv, LedgerAssumption, ShiftsSound
  <2>7. k \in 0..Len(log) /\ Len(log) \in 0..Len(log)
    BY <1>3, <2>2
  <2>8. \A i \in (k + 1)..Len(log) : ~(log[i].kind = "raw" /\ log[i].company = company)
    BY <2>3
  <2>9. CASE log[k].company = company
    <3>1. Fits(log, log[k].state, company, Len(log))
      BY <1>3, <2>5, <2>7, <2>8, <2>9, FitsStays
    <3>2. state'.company = company /\ company # NoCompany /\ Fits(log', state', company, Len(log'))
      BY <1>1, <2>4, <2>5, <2>6, <2>9, <3>1
    <3>3. StateInv'
      BY <1>1, <1>2, <1>6, <3>2, StateKnown
    <3> QED  BY <1>4, <3>3 DEF LedgerInv, AllInv
  <2>10. CASE log[k].company # company
    <3>1. log[k].company = scene.owner
      BY <2>5, <2>10
    <3>2. Places(log, company) = {}
      <4>1. ASSUME NEW j \in Places(log, company)  PROVE FALSE
        <5>1. j \in 1..Len(log) /\ log[j].kind = "raw" /\ log[j].company = company
          BY <1>3, <4>1 DEF Places
        <5>2. j \in 1..k
          BY <1>3, <2>7, <2>8, <5>1
        <5>3. log[j].company # scene.owner => log[k].company = log[j].company
          BY <2>5, <5>2 DEF RecordSound
        <5> QED  BY <2>10, <3>1, <5>1, <5>3
      <4> QED  BY <4>1
    <3>3. ~Belongs(state)' /\ state'.company = scene.owner /\ state'.company # NoCompany
      BY <1>1, <2>4, <2>5, <2>6, <2>10, <3>1 DEF Belongs
    <3>4. known' \in BOOLEAN /\ known' /\ state'.company \in {NoCompany, scene'.owner, company'}
      BY <1>1, <1>6, <3>3
    <3>5. "loses" \notin scene'.flags => lost' = 0
      BY <1>1, <1>2 DEF StateInv
    <3>6. Places(log', company') = {}
      BY <1>1, <3>2
    <3>7. StateInv'
      BY <3>3, <3>4, <3>5, <3>6 DEF StateInv
    <3> QED  BY <1>4, <3>7 DEF LedgerInv, AllInv
  <2> QED  BY <2>9, <2>10
<1> QED  BY <1>1, <1>5, <1>6

(* The journal is lost: there is nothing in it that is not in the tables.  *)
LEMMA StepLost ==
  ASSUME LedgerInv, JournalLost
  PROVE  LedgerInv'
<1>1. /\ scene' = scene /\ company' = company /\ log' = log /\ done' = done /\ alarms' = alarms
      /\ lost' = done /\ done = Len(log) /\ known' = FALSE /\ "loses" \in scene.flags
  BY DEF JournalLost, inputVars, databaseVars
<1>2. LogInv /\ StateInv /\ AlarmInv /\ EventInv
  BY DEF LedgerInv, AllInv
<1>3. Len(log) \in Nat /\ done \in Nat
  BY <1>2 DEF LogInv
<1>4. lost' \in 0..done
  BY <1>1, <1>3
<1>5. LogInv' /\ AlarmInv' /\ EventInv'
  BY <1>1, <1>2, <1>4, LogStays, TablesStay
<1>6. \A i \in (lost' + 1)..Len(log') : FALSE
  BY <1>1, <1>3
<1>7. known' \in BOOLEAN /\ ~known' /\ "loses" \in scene'.flags
  BY <1>1
<1>8. StateInv'
  BY <1>6, <1>7 DEF StateInv
<1> QED  BY <1>5, <1>8 DEF LedgerInv, AllInv

(* Another owner, of whom the journal says nothing.                        *)
LEMMA StepMove ==
  ASSUME LedgerInv, LedgerAssumption, Move
  PROVE  LedgerInv'
<1>1. /\ scene' = scene /\ known' = known /\ state' = state /\ log' = log /\ lost' = lost /\ done' = done
      /\ alarms' = alarms /\ "moves" \in scene.flags /\ company = scene.owner
      /\ company' \in DOMAIN scene.shifts /\ company' # company
  BY DEF Move, processVars, databaseVars
<1>2. LogInv /\ StateInv /\ AlarmInv /\ EventInv
  BY DEF LedgerInv, AllInv
<1>3. DOMAIN log = 1..Len(log) /\ Len(log) \in Nat /\ scene \in Scenes
  BY <1>2 DEF LogInv
<1>4. AlarmInv' /\ EventInv'
  BY <1>1, <1>2, TablesStay
<1>5. LogInv'
  <2>1. \A j : RecordSound(log, j) => RecordSound(log, j)'
    BY <1>1, SoundNext
  <2> QED  BY <1>1, <1>2, <2>1 DEF LogInv
<1>6. \A i \in 1..Len(log) : log[i].company # company'
  BY <1>1, <1>2 DEF LogInv
<1>7. company' # NoCompany
  BY <1>1, <1>3 DEF LedgerAssumption, ShiftsSound
<1>8. Places(log', company') = {}
  BY <1>1, <1>3, <1>6 DEF Places
<1>9. known' /\ Belongs(state)' => Fits(log', state', company', Len(log'))
  <2> SUFFICES ASSUME known', Belongs(state)'  PROVE Fits(log, state, company', Len(log))
    BY <1>1
  <2>1. state.company = NoCompany
    BY <1>1, <1>2, <1>7 DEF Belongs, StateInv
  <2>2. /\ Fits(log, state, company, Len(log)) /\ ~state.codesKnown
        /\ ("loses" \notin scene.flags /\ KeptWhereSold => state.battery = {})
    BY <1>1, <1>2, <2>1 DEF Belongs, StateInv
  <2>3. LastIn(log, company', Len(log)) = 0
    <3>1. Len(log) \in 0..Len(log)
      BY <1>3
    <3>2. \A c : LastIn(log, c, Len(log)) # 0 =>
            LastIn(log, c, Len(log)) \in 1..Len(log) /\ log[LastIn(log, c, Len(log))].company = c
      BY <1>3, <3>1, LastInBounds
    <3> QED  BY <1>6, <3>2
  <2>4. /\ ActiveIn(log, LastIn(log, company', Len(log))) = <<>>
        /\ TimeIn(log, LastIn(log, company', Len(log))) = 0
    BY <2>3 DEF ActiveIn, TimeIn
  <2>5. Batteries(<<>>) = {}
    BY DEF Batteries
  <2>6. KeptWhereSold => state.battery = {}
    BY <1>1, <1>3, <2>2 DEF KeptWhereSold
  <2>7. state.time \in Nat /\ 0 <= state.time /\ DOMAIN state = DOMAIN NullState
        /\ IsFiniteSet(state.battery) /\ state.codesKnown \in BOOLEAN
    BY <2>2 DEF Fits
  <2> QED  BY <2>2, <2>4, <2>5, <2>6, <2>7 DEF Fits
<1>10. known' /\ state'.company = NoCompany =>
         ~state'.codesKnown /\ ("loses" \notin scene'.flags /\ KeptWhereSold => state'.battery = {})
  BY <1>1, <1>2 DEF StateInv
<1>11. /\ known' \in BOOLEAN /\ ("loses" \notin scene'.flags => lost' = 0)
       /\ (known' => state'.company \in {NoCompany, scene'.owner, company'})
       /\ (~known' => \A i \in (lost' + 1)..Len(log') : log'[i].kind = "late")
  BY <1>1, <1>2 DEF StateInv
<1>12. StateInv'
  BY <1>8, <1>9, <1>10, <1>11 DEF StateInv
<1> QED  BY <1>4, <1>5, <1>12 DEF LedgerInv, AllInv

(* What changes none of it.                                                *)
LEMMA StepOther ==
  ASSUME LedgerInv, Age \/ UNCHANGED vars
  PROVE  LedgerInv'
<1>1. /\ scene' = scene /\ company' = company /\ known' = known /\ state' = state
      /\ log' = log /\ lost' = lost /\ done' = done /\ alarms' = alarms
  BY DEF Age, vars, inputVars, processVars, databaseVars
<1>2. LogInv /\ StateInv /\ AlarmInv /\ EventInv /\ lost \in 0..done
  BY DEF LedgerInv, AllInv, LogInv
<1>3. LogInv' /\ AlarmInv' /\ EventInv'
  BY <1>1, <1>2, LogStays, TablesStay
<1>4. StateInv'
  BY <1>1, <1>2 DEF StateInv, Belongs
<1> QED  BY <1>3, <1>4 DEF LedgerInv, AllInv

(* So it is an invariant, if no alarm is named like a battery.             *)
THEOREM LedgerInvariant ==
  ASSUME NamesNoBattery
  PROVE  Spec => []LedgerInv
<1>1. Init => LedgerInv
  BY LedgerInit, LedgerAssumption
<1>2. LedgerInv /\ [Next]_vars => LedgerInv'
  <2> SUFFICES ASSUME LedgerInv, [Next]_vars  PROVE LedgerInv'
    OBVIOUS
  <2>1. ASSUME NEW i \in DOMAIN scene.messages, Stale(i)  PROVE LedgerInv'
    BY <2>1, LedgerAssumption, StepStale
  <2>2. ASSUME NEW i \in DOMAIN scene.messages, Handle(i)  PROVE LedgerInv'
    BY <2>2, LedgerAssumption, StepHandle
  <2>3. ASSUME NEW n \in 1..scene.most, Write(n)  PROVE LedgerInv'
    BY <2>3, LedgerAssumption, StepWrite
  <2>4. CASE Restart
    BY <2>4, LedgerAssumption, StepRestart
  <2>5. CASE JournalLost
    BY <2>5, StepLost
  <2>6. CASE Move
    BY <2>6, LedgerAssumption, StepMove
  <2>7. CASE Age \/ UNCHANGED vars
    BY <2>7, StepOther
  <2> QED  BY <2>1, <2>2, <2>3, <2>4, <2>5, <2>6, <2>7 DEF Next
<1> QED  BY <1>1, <1>2, PTL DEF Spec

-----------------------------------------------------------------------------
(* A set that is mapped one to one onto a finite one has as many elements. *)
LEMMA AsMany ==
  ASSUME NEW S, IsFiniteSet(S), NEW T, NEW g, g \in [S -> T],
         \A y \in T : \E x \in S : g[x] = y, \A x1, x2 \in S : g[x1] = g[x2] => x1 = x2
  PROVE  Cardinality(T) = Cardinality(S)
<1>1. g \in Surjection(S, T)
  BY DEF Surjection
<1>2. g \in Injection(S, T)
  BY DEF Injection, IsInjective
<1>3. ExistsBijection(S, T)
  BY <1>1, <1>2 DEF ExistsBijection, Bijection
<1> QED  BY <1>3, FS_Bijection

(* The open rows are the alarms of the last reading, as the invariant says.*)
LEMMA RowsMatch ==
  ASSUME LedgerInv
  PROVE  AlarmsMatch
<1>1. LogInv /\ AlarmInv /\ DOMAIN log = 1..Len(log) /\ Len(log) \in Nat /\ done \in 0..Len(log)
  BY DEF LedgerInv, AllInv, LogInv
<1> SUFFICES ASSUME NEW c \in DOMAIN scene.shifts
             PROVE  LET active == ActiveAt(LastRaw(c, done)) IN
                    /\ {row.key : row \in OpenRows(c)} = DOMAIN active
                    /\ Cardinality(OpenRows(c)) = Cardinality(DOMAIN active)
                    /\ \A row \in OpenRows(c) : row.severity = active[row.key]
  BY DEF AlarmsMatch
<1> DEFINE p      == LastIn(log, c, done)
           active == ActiveIn(log, p)
           open   == OpenRows(c)
           keys   == {row.key : row \in open}
<1>2. ActiveAt(LastRaw(c, done)) = active
  BY DEF ActiveAt, LastRaw, ActiveIn, LastIn
<1>3. open = OpenOf(alarms.rows, c)
  BY DEF OpenRows, OpenOf
<1>4. /\ {row.key : row \in OpenOf(alarms.rows, c)} = DOMAIN active
      /\ \A row \in open : row.severity = active[row.key]
      /\ \A r1, r2 \in open : r1.key = r2.key => r1 = r2
  BY <1>1, <1>3 DEF AlarmInv, TableAt, FitsAt, TableFits
<1>5. IsFiniteSet(DOMAIN active)
  <2>1. /\ p \in 0..done
        /\ p # 0 => p \in 1..done /\ log[p].kind = "raw"
    BY <1>1, LastInBounds
  <2>2. CASE p = 0
    <3>1. DOMAIN active = {}
      BY <2>2 DEF ActiveIn
    <3> QED  BY <3>1, FS_EmptySet
  <2>3. CASE p # 0
    <3>1. RecordSound(log, p) /\ log[p].kind = "raw"
      BY <1>1, <2>1, <2>3 DEF LogInv
    <3> QED  BY <2>3, <3>1 DEF RecordSound, RawSound, ActiveIn
  <2> QED  BY <2>2, <2>3
<1> HIDE DEF p, active, open
<1>6. keys = DOMAIN active
  BY <1>3, <1>4
<1>7. Cardinality(open) = Cardinality(DOMAIN active)
  <2> DEFINE rowOf == [k \in DOMAIN active |-> CHOOSE row \in open : row.key = k]
  <2>1. ASSUME NEW k \in DOMAIN active  PROVE rowOf[k] \in open /\ rowOf[k].key = k
    <3>1. \E row \in open : row.key = k
      BY <1>6
    <3> QED  BY <3>1
  <2>2. ASSUME NEW row \in open  PROVE row.key \in DOMAIN active /\ rowOf[row.key] = row
    <3>1. row.key \in DOMAIN active
      BY <1>6
    <3> QED  BY <1>4, <2>1, <3>1
  <2>3. rowOf \in [DOMAIN active -> open]
    BY <2>1
  <2> HIDE DEF rowOf
  <2>4. \A y \in open : \E x \in DOMAIN active : rowOf[x] = y
    BY <2>2
  <2>5. \A x1, x2 \in DOMAIN active : rowOf[x1] = rowOf[x2] => x1 = x2
    BY <2>1
  <2> QED  BY <1>5, <2>3, <2>4, <2>5, AsMany
<1> QED  BY <1>2, <1>4, <1>6, <1>7 DEF open

(* The events are the rises of the readings that are written.              *)
LEMMA EventsMatch ==
  ASSUME LedgerInv
  PROVE  EventsAreRises
<1>1. LogInv /\ DOMAIN log = 1..Len(log) /\ Len(log) \in Nat /\ done \in 0..Len(log) /\ log \in Seq(Range(log))
  BY DEF LedgerInv, AllInv, LogInv
<1>2. \A row \in alarms.rows : EventsOf(row, row.changed) \subseteq alarms.events
  BY DEF LedgerInv, EventInv, EventsAt, Covered
<1>3. DOMAIN Written = 1..done /\ \A i \in 1..done : Written[i] = log[i]
  BY <1>1 DEF Written
<1>4. ASSUME NEW c \in DOMAIN scene.shifts
      PROVE  {<<e.key, e.at>> : e \in {f \in alarms.events : f.company = c}} = Rises(c)
  <2>1. \A i : i \in Places(Written, c) <=> i \in 1..done /\ log[i].kind = "raw" /\ log[i].company = c
    BY <1>3 DEF Places
  <2>2. ASSUME NEW i \in Places(Written, c), NEW x
        PROVE  x \in RisesAt(c, i) <=>
                 \E k \in RiseOf(ActiveIn(log, LastIn(log, c, i - 1)), ActiveIn(log, i)) : x = <<k, TimeIn(log, i)>>
    <3>1. i \in 1..Len(log) /\ log[i].kind = "raw" /\ i # 0
      BY <1>1, <2>1
    <3>2. TimeIn(log, i) = Message(log[i]).time
      BY <1>1, <3>1 DEF LogInv, RecordSound, RawSound, TimeIn
    <3>3. ActiveAt(LastRaw(c, i - 1)) = ActiveIn(log, LastIn(log, c, i - 1)) /\ ActiveAt(i) = ActiveIn(log, i)
      BY DEF ActiveAt, LastRaw, ActiveIn, LastIn
    <3> QED  BY <3>2, <3>3 DEF RisesAt, RiseOf
  <2>3. \A x : x \in Rises(c) <=> \E i \in Places(Written, c) : x \in RisesAt(c, i)
    BY DEF Rises
  <2>4. \A x : x \in Rises(c) <=> IsRise(log, x, c, done)
    BY <2>1, <2>2, <2>3 DEF IsRise
  <2>5. \A x : x \in Told(alarms.events, c) <=> IsRise(log, x, c, done)
    BY DEF LedgerInv, EventInv, EventsAt
  <2>6. Told(alarms.events, c) = Rises(c)
    <3>1. \A x : x \in Told(alarms.events, c) <=> x \in Rises(c)
      BY <2>4, <2>5
    <3> QED  BY <3>1
  <2> QED  BY <2>6 DEF Told
<1> QED  BY <1>2, <1>4 DEF EventsAreRises

(* machine_alarms has open what the last reading of a company says, with   *)
(* the severities it says, whatever the transitions and the batches were.  *)
THEOREM OpenRowsAreActive ==
  ASSUME NamesNoBattery
  PROVE  Spec => []AlarmsMatch
<1>1. LedgerInv => AlarmsMatch
  BY RowsMatch
<1>2. Spec => []LedgerInv
  BY LedgerInvariant
<1> QED  BY <1>1, <1>2, PTL

(* There is an event for each time an alarm became critical, and no other. *)
THEOREM EventsAreNews ==
  ASSUME NamesNoBattery
  PROVE  Spec => []EventsAreRises
<1>1. LedgerInv => EventsAreRises
  BY EventsMatch
<1>2. Spec => []LedgerInv
  BY LedgerInvariant
<1> QED  BY <1>1, <1>2, PTL

-----------------------------------------------------------------------------
(* A diagnostic is yes, no or unknown.                                     *)
LEMMA ObservedTyped ==
  ASSUME NEW d,
         {d.warning} \cup {d.axes[axis].low : axis \in DOMAIN d.axes} \subseteq {"yes", "no", "unknown"}
  PROVE  \A k \in DOMAIN BatteryObserved(d) : BatteryObserved(d)[k] \in {"yes", "no", "unknown"}
<1> DEFINE status(axis) == AxisStatus(d.axes[axis])
           flags == {"yes", "no", "unknown"}
           named(axis) == \E bit \in Bits : status(axis).bits[bit] = "yes"
           keys  == {BatteryKey(axis, bit) : axis \in DOMAIN d.axes, bit \in Bits \cup {"LOW"}}
<1>1. ASSUME NEW axis \in DOMAIN d.axes
      PROVE  status(axis).low \in flags /\ \A bit \in Bits : status(axis).bits[bit] \in flags
  <2>1. d.axes[axis].low \in flags
    OBVIOUS
  <2> DEFINE value == d.axes[axis]
             raw(bit) == IF value.raw = Unread THEN "unknown" ELSE IF bit \in value.raw THEN "yes" ELSE "no"
             bits == [bit \in Bits |-> Combine(value.flags[bit], raw(bit))]
             low  == IF \E bit \in Bits : bits[bit] = "yes" THEN "yes"
                     ELSE IF value.low # "unknown" THEN value.low
                     ELSE IF \A bit \in Bits : bits[bit] = "no" THEN "no" ELSE "unknown"
  <2>2. \A a, b : Combine(a, b) \in flags
    BY DEF Combine
  <2>3. status(axis) = [low |-> low,
                        bits |-> [bit \in Bits |-> IF low = "no" THEN Combine(bits[bit], "no") ELSE bits[bit]]]
    BY DEF AxisStatus
  <2>4. \A bit \in Bits : bits[bit] \in flags
    BY <2>2
  <2> HIDE DEF raw, bits
  <2>5. low \in flags
    BY <2>1
  <2> HIDE DEF low
  <2> QED  BY <2>2, <2>3, <2>4, <2>5
<1> HIDE DEF status
<1>2. ASSUME NEW k \in keys \cup {CncKey}
      PROVE  (IF k = CncKey THEN d.warning
              ELSE IF k[3] # "LOW" THEN status(k[2]).bits[k[3]]
              ELSE IF named(k[2]) THEN "no" ELSE status(k[2]).low) \in flags
  <2>1. CASE k = CncKey
    BY <2>1
  <2>2. CASE k # CncKey
    <3>1. PICK axis \in DOMAIN d.axes, bit \in Bits \cup {"LOW"} : k = BatteryKey(axis, bit)
      BY <2>2
    <3>2. k[2] = axis /\ k[3] = bit
      BY <3>1 DEF BatteryKey
    <3>3. CASE bit = "LOW"
      BY <1>1, <2>2, <3>2, <3>3
    <3>4. CASE bit # "LOW"
      BY <1>1, <2>2, <3>2, <3>4
    <3> QED  BY <3>3, <3>4
  <2> QED  BY <2>1, <2>2
<1>3. BatteryObserved(d) =
        [k \in keys \cup {CncKey} |->
           IF k = CncKey THEN d.warning
           ELSE IF k[3] # "LOW" THEN status(k[2]).bits[k[3]]
           ELSE IF named(k[2]) THEN "no" ELSE status(k[2]).low]
  BY DEF BatteryObserved, status
<1> HIDE DEF keys, named
<1> QED  BY <1>2, <1>3

(* A battery is low, by the first n records: since a reading that said so  *)
(* none has known better.                                                  *)
SaysLow(c, k, i) == log[i].kind = "raw" /\ log[i].company = c /\ Says(i, k) = "yes"
Warned(c, k, n) ==
  \E i \in 1..n :
    /\ SaysLow(c, k, i)
    /\ \A j \in (i + 1)..n : log[j].kind = "raw" /\ log[j].company = c => Says(j, k) = "unknown"

(* What a reading says of a battery makes it what it was, or ends it.      *)
LEMMA ReadingSays ==
  ASSUME LogInv, LedgerAssumption, KeptWhereSold, NEW n \in 1..Len(log), log[n].kind = "raw", NEW k
  PROVE  /\ Says(n, k) \in {"yes", "no", "unknown"}
         /\ k \in Batteries(ActiveIn(log, n)) <=>
              \/ Says(n, k) = "yes"
              \/ /\ Says(n, k) = "unknown"
                 /\ k \in Batteries(ActiveIn(log, LastIn(log, log[n].company, n - 1)))
<1> DEFINE c        == log[n].company
           observed == BatteryObserved(Message(log[n]).battery)
           before   == Batteries(ActiveIn(log, LastIn(log, c, n - 1)))
<1>1. DOMAIN log = 1..Len(log) /\ Len(log) \in Nat /\ RecordSound(log, n)
  BY DEF LogInv
<1>2. /\ ~Message(log[n]).packet /\ log[n].message \in DOMAIN scene.messages
      /\ log[n].state.battery = BatteryCodes(observed, before)
      /\ Fits(log, log[n].state, c, n)
  BY <1>1 DEF RecordSound, RawSound
<1>3. \A key \in DOMAIN observed : observed[key] \in {"yes", "no", "unknown"}
  <2>1. MessageSound(Message(log[n]))
    BY <1>2 DEF LogInv, LedgerAssumption, Message
  <2> QED  BY <1>2, <2>1, ObservedTyped DEF MessageSound
<1>4. LastIn(log, c, n) = n
  BY <1>1, LastInSteps
<1>5. Batteries(ActiveIn(log, n)) = BatteryCodes(observed, before)
  BY <1>2, <1>4 DEF Fits
<1>6. \A key \in before : IsBattery(key)
  BY DEF Batteries
<1>7. Says(n, k) = IF k \in DOMAIN observed THEN observed[k] ELSE "unknown"
  BY DEF Says
<1> HIDE DEF observed, before, c
<1>8. Says(n, k) \in {"yes", "no", "unknown"}
  BY <1>3, <1>7
<1>9. k \in BatteryCodes(observed, before) <=> Says(n, k) = "yes" \/ (Says(n, k) = "unknown" /\ k \in before)
  BY <1>3, <1>6, <1>7 DEF BatteryCodes, Cleared
<1> QED  BY <1>5, <1>8, <1>9 DEF before, c

(* So what is active of batteries is what was last said, or there would be *)
(* a first record after which it is not.                                   *)
LEMMA WarningStays ==
  ASSUME LogInv, LedgerAssumption, KeptWhereSold, NEW c, NEW k, NEW n \in 0..Len(log)
  PROVE  k \in Batteries(ActiveIn(log, LastIn(log, c, n))) <=> Warned(c, k, n)
<1> DEFINE Right(x) == k \in Batteries(ActiveIn(log, LastIn(log, c, x))) <=> Warned(c, k, x)
           Wrong == {x \in 0..Len(log) : ~Right(x)}
<1>1. DOMAIN log = 1..Len(log) /\ Len(log) \in Nat
  BY DEF LogInv
<1> SUFFICES ASSUME Wrong # {}  PROVE FALSE
  OBVIOUS
<1>2. PICK x \in Wrong : \A y \in Wrong : x <= y
  <2>1. Wrong \in SUBSET Nat
    OBVIOUS
  <2> HIDE DEF Wrong
  <2> QED  BY <2>1, LeastExists
<1>3. x \in 0..Len(log) /\ ~Right(x)
  BY <1>2
<1>4. CASE x = 0
  <2>1. LastIn(log, c, 0) = 0
    <3>1. 0 \in 0..Len(log)
      BY <1>1
    <3>2. LastIn(log, c, 0) \in 0..0
      BY <1>1, <3>1, LastInBounds
    <3> QED  BY <3>2
  <2>2. Batteries(ActiveIn(log, 0)) = {}
    BY DEF Batteries, ActiveIn
  <2>3. ~Warned(c, k, 0)
    BY DEF Warned
  <2> QED  BY <1>3, <1>4, <2>1, <2>2, <2>3
<1>5. CASE x # 0
  <2>1. x \in 1..Len(log) /\ x - 1 \in 0..Len(log) /\ Right(x - 1)
    <3>1. x \in 1..Len(log) /\ x - 1 \in 0..Len(log) /\ ~(x <= x - 1)
      BY <1>1, <1>3, <1>5
    <3> QED  BY <1>2, <3>1
  <2>2. LastIn(log, c, x) = IF log[x].kind = "raw" /\ log[x].company = c THEN x ELSE LastIn(log, c, x - 1)
    BY <1>1, <2>1, LastInSteps
  <2> HIDE DEF Wrong
  <2>3. CASE ~(log[x].kind = "raw" /\ log[x].company = c)
    <3>1. Warned(c, k, x) <=> Warned(c, k, x - 1)
      BY <2>1, <2>3 DEF Warned, SaysLow
    <3> QED  BY <1>3, <2>1, <2>2, <2>3, <3>1
  <2>4. CASE log[x].kind = "raw" /\ log[x].company = c
    <3>1. /\ Says(x, k) \in {"yes", "no", "unknown"}
          /\ k \in Batteries(ActiveIn(log, x)) <=>
               \/ Says(x, k) = "yes"
               \/ Says(x, k) = "unknown" /\ k \in Batteries(ActiveIn(log, LastIn(log, c, x - 1)))
      BY <2>1, <2>4, ReadingSays
    <3>2. Warned(c, k, x) <=> Says(x, k) = "yes" \/ (Says(x, k) = "unknown" /\ Warned(c, k, x - 1))
      BY <2>1, <2>4, <3>1 DEF Warned, SaysLow
    <3> QED  BY <1>3, <2>1, <2>2, <2>4, <3>1, <3>2
  <2> QED  BY <2>3, <2>4
<1> QED  BY <1>4, <1>5

(* The open battery rows are the batteries last said to be low.            *)
LEMMA BatteriesMatch ==
  ASSUME LedgerInv, LedgerAssumption, KeptWhereSold
  PROVE  BatteryKept
<1>1. /\ LogInv /\ AlarmInv /\ DOMAIN log = 1..Len(log) /\ Len(log) \in Nat /\ done \in 0..Len(log)
      /\ done \in Nat /\ log \in Seq(Range(log))
  BY DEF LedgerInv, AllInv, LogInv
<1>2. DOMAIN Written = 1..done /\ \A i \in 1..done : Written[i] = log[i]
  BY <1>1 DEF Written
<1> SUFFICES ASSUME NEW c \in DOMAIN scene.shifts
             PROVE  LET keys == UNION {DOMAIN BatteryObserved(Message(log[i]).battery) : i \in Places(Written, c)}
                    IN {row.key : row \in {r \in OpenRows(c) : IsBattery(r.key)}}
                         = {k \in keys : SaidOf(c, k) = "yes"}
  BY DEF BatteryKept
<1> DEFINE active == ActiveIn(log, LastIn(log, c, done))
           open   == {row.key : row \in OpenOf(alarms.rows, c)}
           low    == {row.key : row \in {r \in OpenRows(c) : IsBattery(r.key)}}
           keys   == UNION {DOMAIN BatteryObserved(Message(log[i]).battery) : i \in Places(Written, c)}
<1>3. open = DOMAIN active
  BY <1>1 DEF AlarmInv, TableAt, FitsAt, TableFits
<1>4. \A k : k \in low <=> k \in open /\ IsBattery(k)
  BY DEF OpenRows, OpenOf
<1>5. \A k : k \in Batteries(active) <=> k \in DOMAIN active /\ IsBattery(k)
  BY DEF Batteries
<1>6. \A i : i \in Places(Written, c) <=> i \in 1..done /\ log[i].kind = "raw" /\ log[i].company = c
  BY <1>2 DEF Places
<1>7. \A k : k \in keys <=> \E i \in Places(Written, c) : k \in DOMAIN BatteryObserved(Message(log[i]).battery)
  OBVIOUS
<1>8. \A k : k \in Batteries(active) <=> Warned(c, k, done)
  BY <1>1, WarningStays
<1> HIDE DEF active, open, low, keys
<1>9. ASSUME NEW k  PROVE Warned(c, k, done) <=> k \in keys /\ SaidOf(c, k) = "yes"
  <2> DEFINE telling == {i \in Places(Written, c) : Says(i, k) # "unknown"}
  <2>1. telling \in SUBSET (0..done)
    BY <1>6
  <2>2. SaidOf(c, k) = IF telling = {} THEN "unknown" ELSE Says(Max(telling), k)
    BY DEF SaidOf
  <2>3. ASSUME Warned(c, k, done)  PROVE k \in keys /\ SaidOf(c, k) = "yes"
    <3>1. PICK i \in 1..done :
            /\ SaysLow(c, k, i)
            /\ \A j \in (i + 1)..done : log[j].kind = "raw" /\ log[j].company = c => Says(j, k) = "unknown"
      BY <2>3 DEF Warned
    <3>2. i \in telling /\ \A x \in telling : x <= i
      BY <1>1, <1>6, <3>1 DEF SaysLow
    <3>3. Max(telling) = i
      <4> HIDE DEF telling
      <4> QED  BY <1>1, <2>1, <3>2, LastPlaceIs
    <3>4. k \in DOMAIN BatteryObserved(Message(log[i]).battery)
      BY <3>1 DEF SaysLow, Says
    <3>5. k \in keys
      BY <1>6, <1>7, <3>1, <3>4 DEF SaysLow
    <3> QED  BY <2>2, <3>1, <3>2, <3>3, <3>5 DEF SaysLow
  <2>4. ASSUME SaidOf(c, k) = "yes"  PROVE Warned(c, k, done)
    <3>1. telling # {} /\ Says(Max(telling), k) = "yes"
      BY <2>2, <2>4
    <3>2. Max(telling) \in telling /\ Max(telling) \in Nat /\ \A x \in telling : x <= Max(telling)
      <4> HIDE DEF telling
      <4> QED  BY <1>1, <2>1, <3>1, LastPlace
    <3>3. Max(telling) \in 1..done /\ SaysLow(c, k, Max(telling))
      BY <1>6, <3>1, <3>2 DEF SaysLow
    <3>4. ASSUME NEW j \in (Max(telling) + 1)..done, log[j].kind = "raw", log[j].company = c
          PROVE  Says(j, k) = "unknown"
      <4>1. j \in 1..done /\ ~(j <= Max(telling))
        BY <1>1, <3>2
      <4> QED  BY <1>6, <3>2, <3>4, <4>1
    <3> QED  BY <3>3, <3>4 DEF Warned
  <2> QED  BY <2>3, <2>4
<1>10. \A k : k \in low <=> k \in {x \in keys : SaidOf(c, x) = "yes"}
  BY <1>3, <1>4, <1>5, <1>8, <1>9
<1>11. low = {x \in keys : SaidOf(c, x) = "yes"}
  BY <1>10
<1> QED  BY <1>11 DEF low, keys

(* A battery warning is open until its own diagnostic clears it, of a      *)
(* machine that is not sold where a journal may be lost.                   *)
THEOREM WarningsAreKept ==
  ASSUME NamesNoBattery, KeptWhereSold
  PROVE  Spec => []BatteryKept
<1>1. LedgerInv => BatteryKept
  BY BatteriesMatch, LedgerAssumption
<1>2. Spec => []LedgerInv
  BY LedgerInvariant
<1> QED  BY <1>1, <1>2, PTL
-----------------------------------------------------------------------------
(* energy_meter_readings.  A row says of itself only what it has.          *)
RowWhole(row) == row.alone \subseteq DOMAIN row.reading
RowsWhole(rows) == \A at \in DOMAIN rows : RowWhole(rows[at])

(* What a row has after an observation, or after a row that was merged.    *)
Outranked(x, y) == {f \in DOMAIN y.reading : f \notin x.alone \/ f \in y.alone}
Valued(x, y) ==
  [f \in Outranked(x, y) \cup DOMAIN x.reading |-> IF f \in Outranked(x, y) THEN y.reading[f] ELSE x.reading[f]]

(* Merging is to have those.                                               *)
LEMMA MergedIs ==
  ASSUME NEW x, NEW y
  PROVE  /\ Merged(x, y.reading, y.alone).company = x.company
         /\ Merged(x, y.reading, y.alone).reading = Valued(x, y)
         /\ Merged(x, y.reading, y.alone).alone = x.alone \cup y.alone
         /\ Merged(x, y.reading, y.alone) = MeterRow(x.company, Valued(x, y), x.alone \cup y.alone)
<1>1. Merged(x, y.reading, y.alone) = MeterRow(x.company, Valued(x, y), x.alone \cup y.alone)
  BY DEF Merged, Valued, Outranked
<1>2. \A c, v, s : MeterRow(c, v, s).company = c /\ MeterRow(c, v, s).reading = v /\ MeterRow(c, v, s).alone = s
  BY DEF MeterRow
<1> QED  BY <1>1, <1>2

(* Writing two observations one after the other is writing their merge,    *)
(* the values of packets outranking the others either way.                 *)
LEMMA MergesAssociate ==
  ASSUME NEW r, NEW a, NEW b, RowWhole(r), RowWhole(a), RowWhole(b)
  PROVE  LET ab == Merged(a, b.reading, b.alone)
         IN Merged(Merged(r, a.reading, a.alone), b.reading, b.alone) = Merged(r, ab.reading, ab.alone)
<1> DEFINE ra == Merged(r, a.reading, a.alone)
           ab == Merged(a, b.reading, b.alone)
<1>1. /\ ra.company = r.company /\ ra.alone = r.alone \cup a.alone /\ ra.reading = Valued(r, a)
      /\ ab.company = a.company /\ ab.alone = a.alone \cup b.alone /\ ab.reading = Valued(a, b)
  BY MergedIs
<1>2. /\ Merged(ra, b.reading, b.alone) = MeterRow(ra.company, Valued(ra, b), ra.alone \cup b.alone)
      /\ Merged(r, ab.reading, ab.alone) = MeterRow(r.company, Valued(r, ab), r.alone \cup ab.alone)
  BY MergedIs
<1> HIDE DEF ra, ab
<1>3. DOMAIN Valued(ra, b) = DOMAIN Valued(r, ab)
  <2>1. \A f : f \in DOMAIN Valued(ra, b) <=> f \in DOMAIN r.reading \cup DOMAIN a.reading \cup DOMAIN b.reading
    BY <1>1 DEF RowWhole, Valued, Outranked
  <2>2. \A f : f \in DOMAIN Valued(r, ab) <=> f \in DOMAIN r.reading \cup DOMAIN a.reading \cup DOMAIN b.reading
    BY <1>1 DEF RowWhole, Valued, Outranked
  <2>3. \A f : f \in DOMAIN Valued(ra, b) <=> f \in DOMAIN Valued(r, ab)
    BY <2>1, <2>2
  <2> QED  BY <2>3
<1>4. ASSUME NEW f \in DOMAIN Valued(ra, b)
      PROVE  Valued(ra, b)[f] = Valued(r, ab)[f]
  BY <1>1, <1>3 DEF RowWhole, Valued, Outranked
<1>5. Valued(ra, b) = Valued(r, ab)
  <2>1. /\ Valued(ra, b) = [f \in DOMAIN Valued(ra, b) |-> Valued(ra, b)[f]]
        /\ Valued(r, ab) = [f \in DOMAIN Valued(r, ab) |-> Valued(r, ab)[f]]
    BY DEF Valued
  <2> QED  BY <1>3, <1>4, <2>1
<1>6. ra.alone \cup b.alone = r.alone \cup ab.alone
  BY <1>1
<1> QED  BY <1>1, <1>2, <1>5, <1>6 DEF ra, ab

(* An observation written by a statement of its own, if there is one.      *)
Observed(table, o) == IF DOMAIN o.reading = {} THEN table ELSE UpsertMeter(table, Folded(<<>>, o))

(* What a row becomes: it stays, if it is another company's.               *)
RowAfter(row, o) == IF row.company = o.company THEN Merged(row, o.reading, FieldsAlone(o)) ELSE row
RowNew(o) == MeterRow(o.company, o.reading, FieldsAlone(o))
RowsAfter(table, o) ==
  [at \in DOMAIN table \cup {o.at} |->
     IF at # o.at THEN table[at] ELSE IF at \in DOMAIN table THEN RowAfter(table[at], o) ELSE RowNew(o)]

(* Only the row of the observation's second is touched.                    *)
LEMMA ObservedIs ==
  ASSUME NEW table, NEW o, DOMAIN o.reading # {}
  PROVE  Observed(table, o) = RowsAfter(table, o)
<1>1. DOMAIN <<>> = {}
  OBVIOUS
<1>2. Folded(<<>>, o) = [at \in {o.at} |-> RowNew(o)]
  BY <1>1 DEF Folded, RowNew
<1>3. /\ RowNew(o).company = o.company /\ RowNew(o).reading = o.reading
      /\ RowNew(o).alone = FieldsAlone(o)
  BY DEF RowNew, MeterRow
<1> QED  BY <1>2, <1>3 DEF Observed, UpsertMeter, RowAfter, RowsAfter

(* What comes of whole rows and an observation is whole.                   *)
LEMMA MergedWhole ==
  ASSUME NEW x, NEW y, RowWhole(x), RowWhole(y)
  PROVE  RowWhole(Merged(x, y.reading, y.alone))
<1>1. /\ Merged(x, y.reading, y.alone).reading = Valued(x, y)
      /\ Merged(x, y.reading, y.alone).alone = x.alone \cup y.alone
  BY MergedIs
<1> QED  BY <1>1 DEF RowWhole, Valued, Outranked

(* and a row of one observation is.                                        *)
LEMMA RowNewWhole ==
  ASSUME NEW o
  PROVE  /\ RowWhole(RowNew(o)) /\ RowNew(o).company = o.company
         /\ RowNew(o).reading = o.reading /\ RowNew(o).alone = FieldsAlone(o)
BY DEF RowNew, MeterRow, RowWhole, FieldsAlone

(* The tables have whole rows, then,                                       *)
LEMMA UpsertWhole ==
  ASSUME NEW table, NEW rows, RowsWhole(table), RowsWhole(rows)
  PROVE  RowsWhole(UpsertMeter(table, rows))
<1> DEFINE up == UpsertMeter(table, rows)
<1>1. DOMAIN up = DOMAIN table \cup DOMAIN rows
  BY DEF UpsertMeter
<1>2. ASSUME NEW at \in DOMAIN up
      PROVE  up[at] = IF at \notin DOMAIN rows THEN table[at]
                      ELSE IF at \notin DOMAIN table THEN rows[at]
                      ELSE IF table[at].company # rows[at].company THEN table[at]
                      ELSE Merged(table[at], rows[at].reading, rows[at].alone)
  BY DEF UpsertMeter
<1> HIDE DEF up
<1>3. ASSUME NEW at \in DOMAIN up
      PROVE  RowWhole(up[at])
  <2>1. at \in DOMAIN table => RowWhole(table[at])
    BY DEF RowsWhole
  <2>2. at \in DOMAIN rows => RowWhole(rows[at])
    BY DEF RowsWhole
  <2>3. at \in DOMAIN table /\ at \in DOMAIN rows =>
          RowWhole(Merged(table[at], rows[at].reading, rows[at].alone))
    BY <2>1, <2>2, MergedWhole
  <2> QED  BY <1>1, <1>2, <2>1, <2>2, <2>3
<1>4. RowsWhole(up)
  BY <1>3 DEF RowsWhole
<1> QED  BY <1>4 DEF up

(* and a statement has.                                                    *)
LEMMA FoldedWhole ==
  ASSUME NEW rows, NEW o, RowsWhole(rows)
  PROVE  RowsWhole(Folded(rows, o))
<1> DEFINE next == Folded(rows, o)
<1>1. DOMAIN next = DOMAIN rows \cup {o.at}
  BY DEF Folded
<1>2. ASSUME NEW at \in DOMAIN next
      PROVE  next[at] = IF at # o.at THEN rows[at]
                        ELSE IF at \in DOMAIN rows THEN Merged(rows[at], o.reading, FieldsAlone(o))
                        ELSE RowNew(o)
  BY DEF Folded, RowNew
<1> HIDE DEF next
<1>3. ASSUME NEW at \in DOMAIN next
      PROVE  RowWhole(next[at])
  <2>1. at \in DOMAIN rows => RowWhole(rows[at])
    BY DEF RowsWhole
  <2>2. RowWhole(RowNew(o)) /\ RowNew(o).reading = o.reading /\ RowNew(o).alone = FieldsAlone(o)
    BY RowNewWhole
  <2>3. at \in DOMAIN rows => RowWhole(Merged(rows[at], o.reading, FieldsAlone(o)))
    <3>1. at \in DOMAIN rows => RowWhole(Merged(rows[at], RowNew(o).reading, RowNew(o).alone))
      BY <2>1, <2>2, MergedWhole
    <3> QED  BY <2>2, <3>1
  <2> QED  BY <1>1, <1>2, <2>1, <2>2, <2>3
<1>4. RowsWhole(next)
  BY <1>3 DEF RowsWhole
<1> QED  BY <1>4 DEF next

(* The empty table has no other.                                           *)
LEMMA NothingWhole == RowsWhole(<<>>)
<1>1. DOMAIN <<>> = {}
  OBVIOUS
<1> QED  BY <1>1 DEF RowsWhole

(* Folding an observation into a statement of its company's rows is        *)
(* executing the statement and one of the observation's own.               *)
LEMMA FoldedIsObserved ==
  ASSUME NEW table, NEW rows, NEW o, RowsWhole(table), RowsWhole(rows), DOMAIN o.reading # {},
         o.at \in DOMAIN rows => rows[o.at].company = o.company
  PROVE  UpsertMeter(table, Folded(rows, o)) = Observed(UpsertMeter(table, rows), o)
<1> DEFINE up    == UpsertMeter(table, rows)
           next  == Folded(rows, o)
           left  == UpsertMeter(table, next)
           right == Observed(up, o)
<1>1. /\ DOMAIN up = DOMAIN table \cup DOMAIN rows
      /\ \A at \in DOMAIN up :
           up[at] = IF at \notin DOMAIN rows THEN table[at]
                    ELSE IF at \notin DOMAIN table THEN rows[at]
                    ELSE IF table[at].company # rows[at].company THEN table[at]
                    ELSE Merged(table[at], rows[at].reading, rows[at].alone)
  BY DEF UpsertMeter
<1>2. /\ DOMAIN next = DOMAIN rows \cup {o.at}
      /\ \A at \in DOMAIN rows : at # o.at => next[at] = rows[at]
      /\ next[o.at] = IF o.at \in DOMAIN rows THEN Merged(rows[o.at], o.reading, FieldsAlone(o)) ELSE RowNew(o)
  BY DEF Folded, RowNew
<1>3. /\ left = [at \in DOMAIN left |-> left[at]]
      /\ DOMAIN left = DOMAIN table \cup DOMAIN next
      /\ \A at \in DOMAIN left :
           left[at] = IF at \notin DOMAIN next THEN table[at]
                      ELSE IF at \notin DOMAIN table THEN next[at]
                      ELSE IF table[at].company # next[at].company THEN table[at]
                      ELSE Merged(table[at], next[at].reading, next[at].alone)
  BY DEF UpsertMeter
<1> HIDE DEF up, next
<1>4. right = RowsAfter(up, o)
  BY ObservedIs
<1>5. /\ right = [at \in DOMAIN right |-> right[at]] /\ DOMAIN right = DOMAIN up \cup {o.at}
      /\ \A at \in DOMAIN right :
           right[at] = IF at # o.at THEN up[at]
                       ELSE IF at \in DOMAIN up THEN RowAfter(up[at], o) ELSE RowNew(o)
  BY <1>4 DEF RowsAfter
<1> HIDE DEF left, right
<1>6. DOMAIN left = DOMAIN right
  BY <1>1, <1>2, <1>3, <1>5
<1>7. ASSUME NEW at \in DOMAIN left, at # o.at
      PROVE  left[at] = right[at]
  BY <1>1, <1>2, <1>3, <1>5, <1>6, <1>7
<1>8. ASSUME o.at \in DOMAIN left
      PROVE  left[o.at] = right[o.at]
  <2> DEFINE t == table[o.at]
             b == rows[o.at]
             n == RowNew(o)
  <2>1. n.company = o.company /\ n.reading = o.reading /\ n.alone = FieldsAlone(o) /\ RowWhole(n)
    BY RowNewWhole
  <2>2. /\ o.at \in DOMAIN table => RowWhole(t)
        /\ o.at \in DOMAIN rows => RowWhole(b) /\ b.company = o.company
    BY DEF RowsWhole
  <2> HIDE DEF n, t, b
  <2>3. CASE o.at \notin DOMAIN rows
    <3>1. next[o.at] = n
      BY <1>2, <2>3 DEF n
    <3>2. o.at \in DOMAIN table => up[o.at] = t
      BY <1>1, <2>3 DEF t
    <3> QED  BY <1>1, <1>2, <1>3, <1>5, <1>6, <1>8, <2>1, <2>3, <3>1, <3>2 DEF RowAfter, n, t
  <2>4. CASE o.at \in DOMAIN rows
    <3> DEFINE m == Merged(b, n.reading, n.alone)
    <3>1. next[o.at] = m
      BY <1>2, <2>1, <2>4 DEF b
    <3>2. m.company = b.company
      BY MergedIs
    <3> HIDE DEF m
    <3>3. CASE o.at \notin DOMAIN table
      <4>1. left[o.at] = m
        BY <1>2, <1>3, <1>8, <3>1, <3>3
      <4>2. up[o.at] = b /\ o.at \in DOMAIN up
        BY <1>1, <2>4, <3>3 DEF b
      <4>3. right[o.at] = Merged(b, o.reading, FieldsAlone(o))
        BY <1>5, <1>6, <1>8, <2>2, <2>4, <4>2 DEF RowAfter
      <4> QED  BY <2>1, <4>1, <4>3 DEF m
    <3>4. CASE o.at \in DOMAIN table /\ t.company # b.company
      <4>1. left[o.at] = t
        BY <1>2, <1>3, <1>8, <3>1, <3>2, <3>4 DEF t
      <4>2. up[o.at] = t /\ o.at \in DOMAIN up
        BY <1>1, <2>4, <3>4 DEF b, t
      <4>3. right[o.at] = t
        BY <1>5, <1>6, <1>8, <2>2, <2>4, <3>4, <4>2 DEF RowAfter
      <4> QED  BY <4>1, <4>3
    <3>5. CASE o.at \in DOMAIN table /\ t.company = b.company
      <4>1. left[o.at] = Merged(t, m.reading, m.alone)
        BY <1>2, <1>3, <1>8, <3>1, <3>2, <3>5 DEF t
      <4> DEFINE u == Merged(t, b.reading, b.alone)
      <4>2. up[o.at] = u /\ o.at \in DOMAIN up
        BY <1>1, <2>4, <3>5 DEF b, t
      <4>3. u.company = t.company
        BY MergedIs
      <4>4. Merged(u, n.reading, n.alone) = Merged(t, m.reading, m.alone)
        BY <2>1, <2>2, <2>4, <3>5, MergesAssociate DEF m
      <4> HIDE DEF u
      <4>5. right[o.at] = Merged(u, o.reading, FieldsAlone(o))
        BY <1>5, <1>6, <1>8, <2>2, <2>4, <3>5, <4>2, <4>3 DEF RowAfter
      <4> QED  BY <2>1, <4>1, <4>4, <4>5
    <3> QED  BY <3>3, <3>4, <3>5
  <2> QED  BY <2>3, <2>4
<1>9. left = right
  BY <1>3, <1>5, <1>6, <1>7, <1>8
<1> QED  BY <1>9 DEF left, right, up, next

(* So whatever statements the code makes of the observations, the tables   *)
(* will be those of one statement for each.                                *)
Pending(w) == UpsertMeter(w.table, w.rows)
GatheredSound(w) == RowsWhole(w.table) /\ RowsWhole(w.rows)

(* Each of them adds to what is written and pending what it says.          *)
LEMMA GatheredIsObserved ==
  ASSUME NEW w, NEW o, NEW max, GatheredSound(w)
  PROVE  /\ GatheredSound(Gathered(w, o, max))
         /\ Pending(Gathered(w, o, max)) = Observed(Pending(w), o)
<1> DEFINE g == Gathered(w, o, max)
<1>1. CASE DOMAIN o.reading = {}
  BY <1>1 DEF Gathered, Observed
<1>2. CASE DOMAIN o.reading # {} /\ StatementEnds(w.rows, o, max)
  <2>1. g.table = Pending(w) /\ g.rows = Folded(<<>>, o)
    BY <1>2 DEF Gathered, Pending
  <2>2. GatheredSound(g)
    BY <2>1, NothingWhole, FoldedWhole, UpsertWhole DEF GatheredSound, Pending
  <2>3. Pending(g) = Observed(Pending(w), o)
    BY <1>2, <2>1 DEF Pending, Observed
  <2> QED  BY <2>2, <2>3
<1>3. CASE DOMAIN o.reading # {} /\ ~StatementEnds(w.rows, o, max)
  <2>1. g.table = w.table /\ g.rows = Folded(w.rows, o)
    BY <1>3 DEF Gathered
  <2>2. GatheredSound(g)
    BY <2>1, FoldedWhole DEF GatheredSound
  <2>3. o.at \in DOMAIN w.rows => w.rows[o.at].company = o.company
    BY <1>3 DEF StatementEnds
  <2>4. Pending(g) = Observed(Pending(w), o)
    BY <1>3, <2>1, <2>3, FoldedIsObserved DEF Pending, GatheredSound
  <2> QED  BY <2>2, <2>4
<1> QED  BY <1>1, <1>2, <1>3

(* The observations of a batch are folded as its transitions are.          *)
Unwritten(table) == [table |-> table, rows |-> <<>>]
MeterFolds(iter, table, obs, max, n) ==
  iter = [s \in SUBSET (1..n) |->
            IF s = {} THEN Unwritten(table)
            ELSE Gathered(iter[s \ {Max(s)}], obs[Max(s)], max)]

(* There is such a function, or there would be a least number without one. *)
LEMMA MeterFoldExists ==
  ASSUME NEW table, NEW obs, NEW max, NEW n \in Nat
  PROVE  \E iter : MeterFolds(iter, table, obs, max, n)
<1> DEFINE Without == {k \in Nat : ~\E iter : MeterFolds(iter, table, obs, max, k)}
<1> SUFFICES ASSUME Without # {}  PROVE FALSE
  OBVIOUS
<1>1. PICK k \in Without : \A x \in Without : k <= x
  <2>1. Without \in SUBSET Nat
    OBVIOUS
  <2> HIDE DEF Without
  <2> QED  BY <2>1, LeastExists
<1>2. k \in Nat /\ ~\E iter : MeterFolds(iter, table, obs, max, k)
  BY <1>1
<1>3. CASE k = 0
  <2> DEFINE f == [s \in SUBSET (1..0) |-> Unwritten(table)]
  <2>1. \A s \in SUBSET (1..0) : s = {}
    OBVIOUS
  <2>2. MeterFolds(f, table, obs, max, 0)
    BY <2>1 DEF MeterFolds
  <2> QED  BY <1>2, <1>3, <2>2
<1>4. CASE k # 0
  <2>1. k - 1 \in Nat /\ k - 1 \notin Without
    BY <1>1, <1>2, <1>4
  <2>2. PICK f : MeterFolds(f, table, obs, max, k - 1)
    BY <2>1
  <2> DEFINE g == [s \in SUBSET (1..k) |->
                     IF k \in s THEN Gathered(f[s \ {k}], obs[k], max) ELSE f[s]]
             h == [s \in SUBSET (1..k) |->
                     IF s = {} THEN Unwritten(table)
                     ELSE Gathered(g[s \ {Max(s)}], obs[Max(s)], max)]
  <2>3. ASSUME NEW s \in SUBSET (1..k)  PROVE g[s] = h[s]
    <3>1. CASE k \in s
      <4>1. Max(s) = k
        <5>1. s \in SUBSET (0..k) /\ \A x \in s : x <= k
          BY <1>2
        <5> QED  BY <1>2, <3>1, <5>1, LastPlaceIs
      <4>2. g[s \ {k}] = f[s \ {k}]
        OBVIOUS
      <4> QED  BY <3>1, <4>1, <4>2
    <3>2. CASE k \notin s
      <4>1. s \in SUBSET (1..(k - 1)) /\ g[s] = f[s]
        BY <1>2, <3>2
      <4>2. CASE s = {}
        BY <2>2, <4>1, <4>2 DEF MeterFolds
      <4>3. CASE s # {}
        <5>1. g[s \ {Max(s)}] = f[s \ {Max(s)}]
          BY <3>2
        <5>2. f[s] = Gathered(f[s \ {Max(s)}], obs[Max(s)], max)
          BY <2>2, <4>1, <4>3 DEF MeterFolds
        <5> QED  BY <4>1, <4>3, <5>1, <5>2
      <4> QED  BY <4>2, <4>3
    <3> QED  BY <3>1, <3>2
  <2>4. g = h
    <3>1. g = [s \in SUBSET (1..k) |-> g[s]] /\ h = [s \in SUBSET (1..k) |-> h[s]]
      OBVIOUS
    <3> HIDE DEF g, h
    <3> QED  BY <2>3, <3>1
  <2>5. MeterFolds(g, table, obs, max, k)
    <3> HIDE DEF g
    <3> QED  BY <2>4 DEF MeterFolds
  <2> QED  BY <1>2, <2>5
<1> QED  BY <1>3, <1>4

(* The statements and rows after each observation, and after them all.     *)
GatheredInOrder(after, table, obs, max, n) ==
  /\ after[0] = Unwritten(table)
  /\ \A i \in 1..n : after[i] = Gathered(after[i - 1], obs[i], max)
  /\ MeterInsertBatches(table, obs, max) = after[n]

(* So a batch is gathered observation after observation.                   *)
LEMMA StatementsInOrder ==
  ASSUME NEW table, NEW obs, NEW max, NEW n \in Nat, DOMAIN obs = 1..n
  PROVE  \E after : GatheredInOrder(after, table, obs, max, n)
<1> DEFINE iter  == CHOOSE iter : MeterFolds(iter, table, obs, max, n)
           after == [i \in 0..n |-> iter[1..i]]
<1>1. MeterFolds(iter, table, obs, max, n)
  BY MeterFoldExists
<1>2. MeterInsertBatches(table, obs, max) = iter[1..n]
  BY DEF MeterInsertBatches, Unwritten, FoldLeft, MapThenFoldSet, MeterFolds
<1> HIDE DEF iter
<1>3. after[0] = Unwritten(table)
  <2>1. 1..0 = {} /\ {} \in SUBSET (1..n)
    OBVIOUS
  <2>2. iter[{}] = Unwritten(table)
    BY <1>1, <2>1 DEF MeterFolds
  <2> QED  BY <2>1, <2>2
<1>4. ASSUME NEW i \in 1..n
      PROVE  after[i] = Gathered(after[i - 1], obs[i], max)
  <2>1. 1..i \in SUBSET (1..n) /\ 1..i # {}
    OBVIOUS
  <2>2. Max(1..i) = i
    <3>1. i \in Nat /\ 1..i \in SUBSET (0..i) /\ i \in 1..i /\ \A x \in 1..i : x <= i
      OBVIOUS
    <3> QED  BY <3>1, LastPlaceIs
  <2>3. (1..i) \ {i} = 1..(i - 1)
    OBVIOUS
  <2>4. iter[1..i] = Gathered(iter[(1..i) \ {Max(1..i)}], obs[Max(1..i)], max)
    BY <1>1, <2>1 DEF MeterFolds
  <2>5. after[i] = iter[1..i] /\ after[i - 1] = iter[1..(i - 1)]
    OBVIOUS
  <2> HIDE DEF after
  <2> QED  BY <2>2, <2>3, <2>4, <2>5
<1>5. after[n] = iter[1..n]
  OBVIOUS
<1> HIDE DEF after
<1>6. GatheredInOrder(after, table, obs, max, n)
  BY <1>2, <1>3, <1>4, <1>5 DEF GatheredInOrder
<1> QED  BY <1>6

-----------------------------------------------------------------------------
(* What the first n observations ob say of a second, of a field in it, and *)
(* of a row: it is the company's that was first, and has of each field the *)
(* last value of a packet, or else the last.                               *)
ObsAt(ob, at, n)        == {j \in 1..n : ob[j].at = at /\ DOMAIN ob[j].reading # {}}
Supplied(ob, c, at, f, n) == {j \in 1..n : ob[j].at = at /\ ob[j].company = c /\ f \in DOMAIN ob[j].reading}

FirstIs(ob, c, at, n) == \E j \in ObsAt(ob, at, n) : ob[j].company = c /\ \A i \in ObsAt(ob, at, n) : j <= i
LastIs(ob, row, at, f, n) ==
  \E j \in Supplied(ob, row.company, at, f, n) :
    /\ row.reading[f] = ob[j].reading[f]
    /\ f \in row.alone => ob[j].alone /\ \A i \in Supplied(ob, row.company, at, f, n) : ob[i].alone => i <= j
    /\ f \notin row.alone => \A i \in Supplied(ob, row.company, at, f, n) : i <= j

RowSays(ob, row, at, n) ==
  /\ RowWhole(row) /\ FirstIs(ob, row.company, at, n)
  /\ \A f : f \in DOMAIN row.reading <=> Supplied(ob, row.company, at, f, n) # {}
  /\ \A f : f \in row.alone <=> \E j \in Supplied(ob, row.company, at, f, n) : ob[j].alone
  /\ \A f \in DOMAIN row.reading : LastIs(ob, row, at, f, n)

MeterSays(ob, table, n) ==
  /\ \A at : at \in DOMAIN table <=> ObsAt(ob, at, n) # {}
  /\ \A at \in DOMAIN table : RowSays(ob, table[at], at, n)

(* It is the first n observations that matter.                             *)
LEMMA SaysStays ==
  ASSUME NEW ob, NEW ob2, NEW n \in Nat, NEW table, \A j \in 1..n : ob2[j] = ob[j], MeterSays(ob, table, n)
  PROVE  MeterSays(ob2, table, n)
<1>1. ASSUME NEW at
      PROVE  ObsAt(ob2, at, n) = ObsAt(ob, at, n)
  BY DEF ObsAt
<1>2. ASSUME NEW c, NEW at, NEW f
      PROVE  Supplied(ob2, c, at, f, n) = Supplied(ob, c, at, f, n)
  BY DEF Supplied
<1>3. \A at : \A j \in ObsAt(ob, at, n) : ob2[j] = ob[j]
  BY DEF ObsAt
<1>4. \A c, at, f : \A j \in Supplied(ob, c, at, f, n) : ob2[j] = ob[j]
  BY DEF Supplied
<1>5. ASSUME NEW at \in DOMAIN table
      PROVE  RowSays(ob2, table[at], at, n)
  <2> DEFINE row == table[at]
  <2>1. RowSays(ob, row, at, n)
    BY DEF MeterSays
  <2> HIDE DEF row
  <2>2. FirstIs(ob2, row.company, at, n)
    BY <1>1, <1>3, <2>1 DEF RowSays, FirstIs
  <2>3. ASSUME NEW f \in DOMAIN row.reading  PROVE LastIs(ob2, row, at, f, n)
    BY <1>2, <1>4, <2>1 DEF RowSays, LastIs
  <2>4. \A f : f \in row.alone <=> \E j \in Supplied(ob2, row.company, at, f, n) : ob2[j].alone
    BY <1>2, <1>4, <2>1 DEF RowSays
  <2>5. RowSays(ob2, row, at, n)
    BY <1>2, <2>1, <2>2, <2>3, <2>4 DEF RowSays
  <2> QED  BY <2>5 DEF row
<1> QED  BY <1>1, <1>5 DEF MeterSays

(* One more is a place more to look at.                                    *)
LEMMA OneMore ==
  ASSUME NEW ob, NEW n \in Nat
  PROVE  /\ \A at : /\ \A j \in ObsAt(ob, at, n) : j <= n /\ j \in Nat /\ j \in ObsAt(ob, at, n + 1)
                    /\ \A j \in ObsAt(ob, at, n + 1) : j = n + 1 \/ j \in ObsAt(ob, at, n)
                    /\ n + 1 \in ObsAt(ob, at, n + 1) <=> ob[n + 1].at = at /\ DOMAIN ob[n + 1].reading # {}
         /\ \A c, at, f :
              /\ \A j \in Supplied(ob, c, at, f, n) : j <= n /\ j \in Nat /\ j \in Supplied(ob, c, at, f, n + 1)
              /\ \A j \in Supplied(ob, c, at, f, n + 1) : j = n + 1 \/ j \in Supplied(ob, c, at, f, n)
              /\ n + 1 \in Supplied(ob, c, at, f, n + 1) <=>
                   ob[n + 1].at = at /\ ob[n + 1].company = c /\ f \in DOMAIN ob[n + 1].reading
<1>1. /\ \A j \in 1..n : j <= n /\ j \in Nat /\ j \in 1..(n + 1)
      /\ \A j \in 1..(n + 1) : j = n + 1 \/ j \in 1..n
      /\ n + 1 \in 1..(n + 1)
  OBVIOUS
<1> QED  BY <1>1 DEF ObsAt, Supplied

(* A row of which the next observation says nothing stays as it is,        *)
LEMMA RowStays ==
  ASSUME NEW ob, NEW n \in Nat, NEW row, NEW at, RowSays(ob, row, at, n),
         \/ ob[n + 1].at # at \/ DOMAIN ob[n + 1].reading = {} \/ ob[n + 1].company # row.company
  PROVE  RowSays(ob, row, at, n + 1)
<1>1. ASSUME NEW f
      PROVE  Supplied(ob, row.company, at, f, n + 1) = Supplied(ob, row.company, at, f, n)
  <2>1. \A j : j \in Supplied(ob, row.company, at, f, n + 1) <=> j \in Supplied(ob, row.company, at, f, n)
    BY OneMore
  <2> QED  BY <2>1
<1>2. FirstIs(ob, row.company, at, n + 1)
  BY OneMore DEF RowSays, FirstIs
<1>3. ASSUME NEW f \in DOMAIN row.reading  PROVE LastIs(ob, row, at, f, n + 1)
  BY <1>1 DEF RowSays, LastIs
<1> QED  BY <1>1, <1>2, <1>3 DEF RowSays

(* a new one says what the observation does,                               *)
LEMMA RowBegins ==
  ASSUME NEW ob, NEW n \in Nat, ObsAt(ob, ob[n + 1].at, n) = {}, DOMAIN ob[n + 1].reading # {},
         ob[n + 1].alone \in BOOLEAN
  PROVE  RowSays(ob, RowNew(ob[n + 1]), ob[n + 1].at, n + 1)
<1>0. /\ \A at : \A j \in ObsAt(ob, at, n + 1) : j = n + 1 \/ j \in ObsAt(ob, at, n)
      /\ \A c, at, f : \A j \in Supplied(ob, c, at, f, n + 1) : j = n + 1 \/ j \in Supplied(ob, c, at, f, n)
  BY OneMore
<1> DEFINE o   == ob[n + 1]
           row == RowNew(o)
<1>1. row.company = o.company /\ row.reading = o.reading /\ row.alone = FieldsAlone(o) /\ RowWhole(row)
  BY RowNewWhole
<1>2. FieldsAlone(o) = IF o.alone THEN DOMAIN o.reading ELSE {}
  BY DEF FieldsAlone
<1>3. n + 1 \in ObsAt(ob, o.at, n + 1) /\ \A j \in ObsAt(ob, o.at, n + 1) : j = n + 1
  <2>1. n + 1 \in ObsAt(ob, o.at, n + 1)
    BY DEF ObsAt
  <2>2. \A j \in ObsAt(ob, o.at, n + 1) : j = n + 1 \/ j \in ObsAt(ob, o.at, n)
    BY <1>0
  <2> QED  BY <2>1, <2>2
<1>4. \A f : Supplied(ob, o.company, o.at, f, n) = {}
  BY DEF Supplied, ObsAt
<1>5. ASSUME NEW f
      PROVE  /\ n + 1 \in Supplied(ob, o.company, o.at, f, n + 1) <=> f \in DOMAIN o.reading
             /\ \A j \in Supplied(ob, o.company, o.at, f, n + 1) : j = n + 1
  <2>1. n + 1 \in Supplied(ob, o.company, o.at, f, n + 1) <=>
           f \in DOMAIN o.reading
    BY DEF Supplied
  <2>2. \A j \in Supplied(ob, o.company, o.at, f, n + 1) : j = n + 1 \/ j \in Supplied(ob, o.company, o.at, f, n)
    BY <1>0
  <2> QED  BY <1>4, <2>1, <2>2
<1> HIDE DEF row
<1>6. FirstIs(ob, row.company, o.at, n + 1)
  BY <1>1, <1>3 DEF FirstIs
<1>7. ASSUME NEW f \in DOMAIN row.reading  PROVE LastIs(ob, row, o.at, f, n + 1)
  BY <1>1, <1>2, <1>5 DEF LastIs
<1>8. RowSays(ob, row, o.at, n + 1)
  BY <1>1, <1>2, <1>5, <1>6, <1>7 DEF RowSays
<1> QED  BY <1>8 DEF row

(* and one that is merged with it says what both do.                       *)
LEMMA RowMerges ==
  ASSUME NEW ob, NEW n \in Nat, NEW row, RowSays(ob, row, ob[n + 1].at, n), ob[n + 1].company = row.company,
         ob[n + 1].alone \in BOOLEAN
  PROVE  RowSays(ob, Merged(row, ob[n + 1].reading, FieldsAlone(ob[n + 1])), ob[n + 1].at, n + 1)
<1> DEFINE o    == ob[n + 1]
           add  == RowNew(o)
           next == Merged(row, o.reading, FieldsAlone(o))
           old(f) == Supplied(ob, row.company, o.at, f, n)
           new(f) == Supplied(ob, row.company, o.at, f, n + 1)
<1>1. add.company = o.company /\ add.reading = o.reading /\ add.alone = FieldsAlone(o) /\ RowWhole(add)
  BY RowNewWhole
<1>2. \A f : f \in FieldsAlone(o) <=> o.alone /\ f \in DOMAIN o.reading
  BY DEF FieldsAlone
<1>3. /\ Merged(row, add.reading, add.alone).company = row.company
      /\ Merged(row, add.reading, add.alone).reading = Valued(row, add)
      /\ Merged(row, add.reading, add.alone).alone = row.alone \cup add.alone
  BY MergedIs
<1>4. /\ next.company = row.company /\ next.reading = Valued(row, add)
      /\ next.alone = row.alone \cup FieldsAlone(o)
  BY <1>1, <1>3
<1>5. RowWhole(next)
  <2>1. RowWhole(row)
    BY DEF RowSays
  <2>2. RowWhole(Merged(row, add.reading, add.alone))
    BY <1>1, <2>1, MergedWhole
  <2> QED  BY <1>1, <2>2
<1> HIDE DEF next, add
<1>6. ASSUME NEW f
      PROVE  /\ n + 1 \in new(f) <=> f \in DOMAIN o.reading
             /\ \A j \in new(f) : j = n + 1 \/ j \in old(f)
             /\ \A j \in old(f) : j <= n /\ j \in Nat /\ j \in new(f)
  BY OneMore
<1>7. FirstIs(ob, row.company, o.at, n + 1)
  <2>1. FirstIs(ob, row.company, o.at, n)
    BY DEF RowSays
  <2> QED  BY <2>1, OneMore DEF FirstIs
<1>8. \A f : /\ f \in DOMAIN row.reading <=> old(f) # {}
             /\ f \in row.alone <=> \E j \in old(f) : ob[j].alone
             /\ f \in row.alone => f \in DOMAIN row.reading
             /\ f \in DOMAIN row.reading => LastIs(ob, row, o.at, f, n)
  BY DEF RowSays, RowWhole
<1>9. ASSUME NEW f
      PROVE  /\ f \in DOMAIN next.reading <=> f \in DOMAIN row.reading \/ f \in DOMAIN o.reading
             /\ f \in DOMAIN o.reading /\ (f \notin row.alone \/ o.alone) => next.reading[f] = o.reading[f]
             /\ f \in DOMAIN row.reading /\ ~(f \in DOMAIN o.reading /\ (f \notin row.alone \/ o.alone))
                  => next.reading[f] = row.reading[f]
             /\ f \in next.alone <=> f \in row.alone \/ (o.alone /\ f \in DOMAIN o.reading)
  BY <1>1, <1>2, <1>4, <1>8 DEF Valued, Outranked
<1> HIDE DEF old, new
<1>10. ASSUME NEW f \in DOMAIN next.reading
       PROVE  LastIs(ob, next, o.at, f, n + 1)
  <2>1. LastIs(ob, next, o.at, f, n + 1) <=>
          \E j \in new(f) :
            /\ next.reading[f] = ob[j].reading[f]
            /\ f \in next.alone => ob[j].alone /\ \A i \in new(f) : ob[i].alone => i <= j
            /\ f \notin next.alone => \A i \in new(f) : i <= j
    BY <1>4 DEF LastIs, new
  <2>2. CASE f \in DOMAIN o.reading /\ (f \notin row.alone \/ o.alone)
    <3>1. n + 1 \in new(f) /\ \A i \in new(f) : i <= n + 1
      BY <1>6, <2>2
    <3> QED  BY <1>9, <2>1, <2>2, <3>1
  <2>3. CASE ~(f \in DOMAIN o.reading /\ (f \notin row.alone \/ o.alone))
    <3>1. f \in DOMAIN row.reading /\ next.reading[f] = row.reading[f]
          /\ (f \in next.alone <=> f \in row.alone)
      BY <1>8, <1>9, <2>3
    <3>2. PICK j \in old(f) :
            /\ row.reading[f] = ob[j].reading[f]
            /\ f \in row.alone => ob[j].alone /\ \A i \in old(f) : ob[i].alone => i <= j
            /\ f \notin row.alone => \A i \in old(f) : i <= j
      BY <1>8, <3>1 DEF LastIs, old
    <3>3. j \in new(f)
      BY <1>6
    <3>4. CASE f \in DOMAIN o.reading
      <4>1. f \in row.alone /\ ~o.alone
        BY <2>3, <3>4
      <4>2. \A i \in new(f) : ob[i].alone => i \in old(f)
        BY <1>6, <4>1
      <4> QED  BY <2>1, <3>1, <3>2, <3>3, <4>1, <4>2
    <3>5. CASE f \notin DOMAIN o.reading
      <4>1. new(f) = old(f)
        BY <1>6, <3>5
      <4> QED  BY <2>1, <3>1, <3>2, <3>3, <4>1
    <3> QED  BY <3>4, <3>5
  <2> QED  BY <2>2, <2>3
<1>11. ASSUME NEW f
       PROVE  /\ f \in DOMAIN next.reading <=> new(f) # {}
              /\ f \in next.alone <=> \E j \in new(f) : ob[j].alone
  BY <1>6, <1>8, <1>9
<1>12. RowSays(ob, next, o.at, n + 1)
  BY <1>4, <1>5, <1>7, <1>10, <1>11 DEF RowSays, new
<1> QED  BY <1>12 DEF next

(* So a table says what the observations do that were written to it.       *)
LEMMA ObservedSays ==
  ASSUME NEW ob, NEW n \in Nat, NEW table, MeterSays(ob, table, n), ob[n + 1].alone \in BOOLEAN
  PROVE  MeterSays(ob, Observed(table, ob[n + 1]), n + 1)
<1> DEFINE o    == ob[n + 1]
           next == Observed(table, o)
<1>1. CASE DOMAIN o.reading = {}
  <2>1. next = table
    BY <1>1 DEF Observed
  <2>2. \A at : ObsAt(ob, at, n + 1) # {} <=> ObsAt(ob, at, n) # {}
    BY <1>1, OneMore
  <2>3. \A at \in DOMAIN table : RowSays(ob, table[at], at, n + 1)
    BY <1>1, RowStays DEF MeterSays
  <2> QED  BY <2>1, <2>2, <2>3 DEF MeterSays
<1>2. CASE DOMAIN o.reading # {}
  <2>1. next = RowsAfter(table, o)
    BY <1>2, ObservedIs
  <2>2. /\ DOMAIN next = DOMAIN table \cup {o.at}
        /\ \A at \in DOMAIN table : at # o.at => next[at] = table[at]
        /\ next[o.at] = IF o.at \in DOMAIN table THEN RowAfter(table[o.at], o) ELSE RowNew(o)
    BY <2>1 DEF RowsAfter
  <2> HIDE DEF next
  <2>3. \A at : at \in DOMAIN next <=> ObsAt(ob, at, n + 1) # {}
    <3>1. ASSUME NEW at
          PROVE  ObsAt(ob, at, n + 1) # {} <=> ObsAt(ob, at, n) # {} \/ at = o.at
      <4>1. n + 1 \in ObsAt(ob, at, n + 1) <=> o.at = at
        BY <1>2 DEF ObsAt
      <4>2. \A j \in ObsAt(ob, at, n) : j \in ObsAt(ob, at, n + 1)
        BY OneMore
      <4>3. \A j \in ObsAt(ob, at, n + 1) : j = n + 1 \/ j \in ObsAt(ob, at, n)
        BY OneMore
      <4> QED  BY <4>1, <4>2, <4>3
    <3>2. \A at : at \in DOMAIN table <=> ObsAt(ob, at, n) # {}
      BY DEF MeterSays
    <3> QED  BY <2>2, <3>1, <3>2
  <2>4. \A at \in DOMAIN table : at # o.at => RowSays(ob, next[at], at, n + 1)
    BY <2>2, RowStays DEF MeterSays
  <2>5. RowSays(ob, next[o.at], o.at, n + 1)
    <3>1. CASE o.at \notin DOMAIN table
      <4>1. ObsAt(ob, o.at, n) = {}
        BY <3>1 DEF MeterSays
      <4> QED  BY <1>2, <2>2, <3>1, <4>1, RowBegins
    <3>2. CASE o.at \in DOMAIN table /\ table[o.at].company = o.company
      <4>1. RowSays(ob, table[o.at], o.at, n)
        BY <3>2 DEF MeterSays
      <4> QED  BY <2>2, <3>2, <4>1, RowMerges DEF RowAfter
    <3>3. CASE o.at \in DOMAIN table /\ table[o.at].company # o.company
      <4>1. RowSays(ob, table[o.at], o.at, n)
        BY <3>3 DEF MeterSays
      <4> QED  BY <2>2, <3>3, <4>1, RowStays DEF RowAfter
    <3> QED  BY <3>1, <3>2, <3>3
  <2>6. MeterSays(ob, next, n + 1)
    BY <2>2, <2>3, <2>4, <2>5 DEF MeterSays
  <2> QED  BY <2>6 DEF next
<1> QED  BY <1>1, <1>2

-----------------------------------------------------------------------------
(* The observations of the journal, and the invariant: the meter table says*)
(* what those say that are written.                                        *)
ObsOf(lg) == [j \in 1..Len(lg) |-> ReadingOf(lg[j])]

MeterInv ==
  /\ scene \in Scenes /\ log \in Seq(Range(log)) /\ done \in 0..Len(log)
  /\ \A j \in 1..Len(log) : log[j].message \in DOMAIN scene.messages
  /\ MeterSays(ObsOf(log), meters, done)

(* An observation is a packet's or not, and has company, time and reading. *)
LEMMA ObservationIs ==
  ASSUME LedgerAssumption, MeterInv, NEW j \in 1..Len(log)
  PROVE  /\ ObsOf(log)[j].at = Message(log[j]).time /\ ObsOf(log)[j].reading = Message(log[j]).reading
         /\ ObsOf(log)[j].company = log[j].company /\ ObsOf(log)[j].alone = Message(log[j]).packet
         /\ ObsOf(log)[j].alone \in BOOLEAN
<1>1. ObsOf(log)[j] = ReadingOf(log[j])
  BY DEF ObsOf
<1>2. Message(log[j]).packet \in BOOLEAN
  BY DEF MeterInv, Message, LedgerAssumption, MessageSound
<1> QED  BY <1>1, <1>2 DEF ReadingOf

(* A batch: after each of its observations, executed and pending rows      *)
(* together say what there was up to it.                                   *)
LEMMA MetersWritten ==
  ASSUME LedgerAssumption, MeterInv, NEW n \in Nat, done + n <= Len(log), NEW max
  PROVE  LET batch == SubSeq(log, done + 1, done + n)
         IN MeterSays(ObsOf(log), WriteMeters(meters, [i \in DOMAIN batch |-> ReadingOf(batch[i])], max), done + n)
<1> DEFINE batch == SubSeq(log, done + 1, done + n)
           obs   == [i \in DOMAIN batch |-> ReadingOf(batch[i])]
           ob    == ObsOf(log)
<1>1. Len(log) \in Nat /\ done \in Nat /\ log \in Seq(Range(log))
  BY DEF MeterInv
<1>2. DOMAIN batch = 1..n /\ \A i \in 1..n : batch[i] = log[done + i] /\ done + i \in 1..Len(log)
  BY <1>1
<1>3. DOMAIN obs = 1..n /\ \A i \in 1..n : obs[i] = ob[done + i]
  BY <1>2 DEF ObsOf
<1>4. \A i \in 1..n : ob[done + i].alone \in BOOLEAN
  BY <1>2, ObservationIs
<1>5. MeterSays(ob, meters, done)
  BY DEF MeterInv
<1> HIDE DEF obs, ob
<1>6. PICK w : GatheredInOrder(w, meters, obs, max, n)
  BY <1>3, StatementsInOrder
<1> DEFINE Good(i) == GatheredSound(w[i]) /\ MeterSays(ob, Pending(w[i]), done + i)
           Bad     == {i \in 0..n : ~Good(i)}
<1>7. Good(0)
  <2>1. w[0].table = meters /\ w[0].rows = <<>>
    BY <1>6 DEF GatheredInOrder, Unwritten
  <2>2. RowsWhole(meters)
    BY <1>5 DEF MeterSays, RowSays, RowsWhole
  <2>3. DOMAIN <<>> = {}
    OBVIOUS
  <2>4. Pending(w[0]) = [at \in DOMAIN meters |-> meters[at]]
    BY <2>1, <2>3 DEF Pending, UpsertMeter
  <2>5. MeterSays(ob, Pending(w[0]), done)
    BY <1>5, <2>4 DEF MeterSays
  <2>6. GatheredSound(w[0])
    BY <2>1, <2>2, NothingWhole DEF GatheredSound
  <2> QED  BY <1>1, <2>5, <2>6
<1>8. ASSUME NEW i \in 1..n, Good(i - 1)
      PROVE  Good(i)
  <2>1. w[i] = Gathered(w[i - 1], obs[i], max)
    BY <1>6 DEF GatheredInOrder
  <2>2. done + (i - 1) \in Nat /\ (done + (i - 1)) + 1 = done + i
    BY <1>1
  <2>3. GatheredSound(w[i]) /\ Pending(w[i]) = Observed(Pending(w[i - 1]), ob[done + i])
    BY <1>3, <1>8, <2>1, GatheredIsObserved
  <2>4. MeterSays(ob, Observed(Pending(w[i - 1]), ob[(done + (i - 1)) + 1]), (done + (i - 1)) + 1)
    BY <1>4, <1>8, <2>2, ObservedSays
  <2> QED  BY <2>2, <2>3, <2>4
<1>9. Bad = {}
  <2> SUFFICES ASSUME Bad # {}  PROVE FALSE
    OBVIOUS
  <2>1. Bad \in SUBSET Nat
    OBVIOUS
  <2>2. PICK i \in Bad : \A k \in Bad : i <= k
    <3> HIDE DEF Bad
    <3> QED  BY <2>1, LeastExists
  <2> HIDE DEF Good
  <2>3. i \in 1..n /\ i - 1 \in 0..n
    BY <1>7, <2>2
  <2>4. Good(i - 1)
    BY <2>2, <2>3
  <2> QED  BY <1>8, <2>2, <2>3, <2>4
<1>10. MeterSays(ob, Pending(w[n]), done + n)
  BY <1>9
<1>11. WriteMeters(meters, obs, max) = Pending(w[n])
  BY <1>6 DEF WriteMeters, Pending, GatheredInOrder
<1> QED  BY <1>10, <1>11 DEF obs, ob

(* A record more changes nothing of what is written.                       *)
LEMMA MeterAdmits ==
  ASSUME MeterInv, NEW rec, log' = Append(log, rec), rec.message \in DOMAIN scene.messages,
         scene' = scene, done' = done, meters' = meters
  PROVE  MeterInv'
<1> DEFINE new == Append(log, rec)
<1>1. log \in Seq(Range(log)) /\ done \in 0..Len(log) /\ MeterSays(ObsOf(log), meters, done)
  BY DEF MeterInv
<1>2. /\ Len(log) \in Nat /\ Len(new) = Len(log) + 1 /\ new[Len(log) + 1] = rec
      /\ \A j \in 1..Len(log) : new[j] = log[j]
      /\ new \in Seq(Range(new))
  BY <1>1, GrowsByOne
<1> HIDE DEF new
<1>3. \A j \in 1..done : ObsOf(new)[j] = ObsOf(log)[j]
  BY <1>1, <1>2 DEF ObsOf
<1>4. MeterSays(ObsOf(new), meters, done)
  <2>1. done \in Nat
    BY <1>1, <1>2
  <2> QED  BY <1>1, <1>3, <2>1, SaysStays
<1>5. \A j \in 1..Len(new) : new[j].message \in DOMAIN scene.messages
  <2>1. \A j \in 1..Len(new) : j \in 1..Len(log) \/ j = Len(log) + 1
    BY <1>2
  <2> QED  BY <1>2, <2>1 DEF MeterInv
<1>6. ObsOf(log)' = ObsOf(new)
  BY DEF ObsOf, ReadingOf, Message, new
<1>7. MeterSays(ObsOf(log), meters, done)'
  BY <1>4, <1>6
<1>8. done \in 0..Len(new) /\ log' = new
  BY <1>1, <1>2 DEF new
<1> QED  BY <1>2, <1>5, <1>7, <1>8 DEF MeterInv

(* At first there is nothing.                                              *)
LEMMA MeterInit ==
  ASSUME LedgerAssumption, Init
  PROVE  MeterInv
<1>1. scene \in Scenes /\ log = <<>> /\ done = 0 /\ meters = <<>>
  BY DEF Init
<1>2. log \in Seq(Range(log)) /\ done \in 0..Len(log) /\ Len(log) = 0
  BY <1>1
<1>3. DOMAIN meters = {}
  BY <1>1
<1>4. \A at : ObsAt(ObsOf(log), at, 0) = {}
  BY DEF ObsAt
<1>5. MeterSays(ObsOf(log), meters, done)
  BY <1>1, <1>3, <1>4 DEF MeterSays
<1> QED  BY <1>1, <1>2, <1>5 DEF MeterInv

(* One that touches neither journal nor table does.                        *)
LEMMA MeterStays ==
  ASSUME MeterInv, UNCHANGED <<scene, log, done, meters>>
  PROVE  MeterInv'
<1>1. ObsOf(log)' = ObsOf(log)
  BY DEF ObsOf, ReadingOf, Message
<1>2. MeterSays(ObsOf(log), meters, done)'
  BY <1>1 DEF MeterInv
<1> QED  BY <1>2 DEF MeterInv

(* The others are a message and a batch.                                   *)
LEMMA MeterStep ==
  ASSUME LedgerAssumption, MeterInv, [Next]_vars
  PROVE  MeterInv'
<1>1. ASSUME NEW i \in DOMAIN scene.messages, Stale(i)  PROVE MeterInv'
  <2>1. /\ log' = Append(log, LateRecord(i)) /\ scene' = scene /\ done' = done /\ meters' = meters
        /\ LateRecord(i).message = i
    BY <1>1 DEF Stale, Admit, inputVars, databaseVars, LateRecord, Record
  <2> QED  BY <2>1, MeterAdmits
<1>2. ASSUME NEW i \in DOMAIN scene.messages, Handle(i)  PROVE MeterInv'
  <2>1. scene' = scene /\ done' = done /\ meters' = meters
    BY <1>2 DEF Handle, inputVars, databaseVars
  <2>2. \/ log' = log
        \/ log' = Append(log, LateRecord(i))
        \/ log' = Append(log, PacketRecord(Baseline, i))
        \/ log' = Append(log, SnapshotRecord(Baseline, i))
    BY <1>2 DEF Handle, Admit
  <2>3. LateRecord(i).message = i /\ PacketRecord(Baseline, i).message = i /\ SnapshotRecord(Baseline, i).message = i
    BY DEF LateRecord, PacketRecord, SnapshotRecord, Record
  <2> QED  BY <2>1, <2>2, <2>3, MeterAdmits, MeterStays
<1>3. ASSUME NEW n \in 1..scene.most, Write(n)  PROVE MeterInv'
  <2> DEFINE batch == SubSeq(log, done + 1, done + n)
             table == WriteMeters(meters, [i \in DOMAIN batch |-> ReadingOf(batch[i])], MaxRows)
  <2>1. /\ n >= 1 /\ done + n <= Len(log) /\ done' = done + n /\ meters' = table
        /\ scene' = scene /\ log' = log
    BY <1>3 DEF Write, inputVars
  <2>2. n \in Nat /\ done \in Nat /\ Len(log) \in Nat
    BY DEF MeterInv
  <2>3. MeterSays(ObsOf(log), table, done + n)
    BY <2>1, <2>2, MetersWritten
  <2> HIDE DEF table
  <2>4. ObsOf(log)' = ObsOf(log)
    BY <2>1 DEF ObsOf, ReadingOf, Message
  <2>5. MeterSays(ObsOf(log), meters, done)'
    BY <2>1, <2>3, <2>4
  <2>6. done' \in 0..Len(log')
    BY <2>1, <2>2
  <2> QED  BY <2>1, <2>5, <2>6 DEF MeterInv
<1>4. CASE Restart \/ JournalLost \/ Move \/ Age \/ UNCHANGED vars
  <2>1. UNCHANGED <<scene, log, done, meters>>
    BY <1>4 DEF Restart, JournalLost, Move, Age, vars, inputVars, databaseVars
  <2> QED  BY <2>1, MeterStays
<1> QED  BY <1>1, <1>2, <1>3, <1>4 DEF Next

(* What the table says is what was observed.                               *)
LEMMA MetersSay ==
  ASSUME LedgerAssumption, MeterInv
  PROVE  MetersAsObserved
<1> DEFINE ob == ObsOf(log)
<1>1. Len(log) \in Nat /\ done \in Nat /\ done <= Len(log) /\ MeterSays(ob, meters, done)
  BY DEF MeterInv
<1>2. ASSUME NEW j \in 1..done
      PROVE  /\ ob[j].at = Message(log[j]).time /\ ob[j].reading = Message(log[j]).reading
             /\ ob[j].company = log[j].company /\ ob[j].alone = Message(log[j]).packet
  <2>1. j \in 1..Len(log)
    BY <1>1
  <2> QED  BY <2>1, ObservationIs
<1> HIDE DEF ob
<1> SUFFICES ASSUME NEW i \in 1..done, NEW field \in DOMAIN Message(log[i]).reading
             PROVE  LET at    == Message(log[i]).time
                        first == Min({j \in 1..done : Message(log[j]).time = at /\ DOMAIN Message(log[j]).reading # {}})
                        c     == log[first].company
                    IN /\ at \in DOMAIN meters /\ meters[at].company = c
                       /\ log[i].company = c => /\ field \in DOMAIN meters[at].reading
                                                /\ meters[at].reading[field] = FieldOf(c, at, field)
  BY DEF MetersAsObserved
<1> DEFINE at    == Message(log[i]).time
           all   == {j \in 1..done : Message(log[j]).time = at /\ DOMAIN Message(log[j]).reading # {}}
           first == Min(all)
           c     == log[first].company
           row   == meters[at]
<1>3. all = ObsAt(ob, at, done)
  <2>1. \A j : j \in all <=> j \in ObsAt(ob, at, done)
    BY <1>2 DEF ObsAt
  <2> QED  BY <2>1
<1>4. i \in all /\ all \in SUBSET Nat
  BY <1>1
<1> HIDE DEF all
<1>5. first \in all /\ \A j \in all : first <= j
  BY <1>4, MinIsLeast
<1> HIDE DEF first
<1>6. at \in DOMAIN meters /\ RowSays(ob, row, at, done)
  BY <1>1, <1>3, <1>4 DEF MeterSays
<1>7. row.company = c
  <2>1. PICK j \in all : ob[j].company = row.company /\ \A k \in all : j <= k
    BY <1>3, <1>6 DEF RowSays, FirstIs
  <2>2. j <= first /\ first <= j /\ j \in Nat /\ first \in Nat
    BY <1>4, <1>5, <2>1
  <2>3. j = first /\ j \in 1..done
    BY <1>3, <2>1, <2>2 DEF ObsAt
  <2> QED  BY <1>2, <2>1, <2>3
<1>8. ASSUME log[i].company = c
      PROVE  field \in DOMAIN row.reading /\ row.reading[field] = FieldOf(c, at, field)
  <2> DEFINE sup   == {j \in 1..done : Supplies(j, c, at, field)}
             alone == {j \in sup : Message(log[j]).packet}
  <2>1. sup = Supplied(ob, row.company, at, field, done)
    <3>1. \A j : j \in sup <=> j \in Supplied(ob, c, at, field, done)
      BY <1>2 DEF Supplied, Supplies
    <3>2. sup = Supplied(ob, c, at, field, done)
      BY <3>1
    <3> QED  BY <1>7, <3>2
  <2>2. i \in sup /\ sup \in SUBSET (0..done) /\ sup \in SUBSET (1..done)
    BY <1>8 DEF Supplies
  <2>3. FieldOf(c, at, field) = Message(log[Max(IF alone = {} THEN sup ELSE alone)]).reading[field]
    BY DEF FieldOf
  <2>4. \A j : j \in alone <=> j \in sup /\ ob[j].alone
    BY <1>2, <2>2
  <2> HIDE DEF sup, alone
  <2>5. field \in DOMAIN row.reading
    BY <1>6, <2>1, <2>2 DEF RowSays
  <2>6. PICK j \in sup :
          /\ row.reading[field] = ob[j].reading[field]
          /\ field \in row.alone => ob[j].alone /\ \A k \in sup : ob[k].alone => k <= j
          /\ field \notin row.alone => \A k \in sup : k <= j
    BY <1>6, <2>1, <2>5 DEF RowSays, LastIs
  <2>7. field \in row.alone <=> \E k \in sup : ob[k].alone
    BY <1>6, <2>1 DEF RowSays
  <2>8. CASE alone = {}
    <3>1. \A k \in sup : k <= j
      BY <2>4, <2>6, <2>7, <2>8
    <3>2. Max(sup) = j
      BY <1>1, <2>2, <3>1, LastPlaceIs
    <3> QED  BY <1>2, <2>2, <2>3, <2>5, <2>6, <2>8, <3>2
  <2>9. CASE alone # {}
    <3>1. j \in alone /\ \A k \in alone : k <= j
      BY <2>4, <2>6, <2>7, <2>9
    <3>2. alone \in SUBSET (0..done)
      BY <2>2, <2>4
    <3>3. Max(alone) = j
      BY <1>1, <3>1, <3>2, LastPlaceIs
    <3> QED  BY <1>2, <2>2, <2>3, <2>5, <2>6, <2>9, <3>3
  <2> QED  BY <2>8, <2>9
<1> QED  BY <1>6, <1>7, <1>8 DEF all, first

(* A row of the meter table has what was shown in its second, of a packet  *)
(* before a snapshot, whatever the batches and the statements were.        *)
THEOREM MetersAreMerged == Spec => []MetersAsObserved
<1>1. Init => MeterInv
  BY MeterInit, LedgerAssumption
<1>2. MeterInv /\ [Next]_vars => MeterInv'
  BY MeterStep, LedgerAssumption
<1>3. MeterInv => MetersAsObserved
  BY MetersSay, LedgerAssumption
<1> QED  BY <1>1, <1>2, <1>3, PTL DEF Spec
=============================================================================
