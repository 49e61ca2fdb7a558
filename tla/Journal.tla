------------------------------ MODULE Journal ------------------------------
(***************************************************************************)
(* The collector's journal (src/lib/journal.js): an append-only log of     *)
(* accepted readings in segment files, with the fsyncs that make a prefix  *)
(* of it durable, the cursor of the one reader that moves it into the      *)
(* database, the state snapshot saved when segments are deleted, and what  *)
(* a crash leaves behind.                                                  *)
(*                                                                         *)
(* A record is [seg, s, rd]: the segment file it is in (named by the first *)
(* sequence number it may hold), its sequence number, and the reading.     *)
(* StateOf[rd] is the machine whose counters and clock the record carries  *)
(* as `state`, NoMachine for a record that carries none (telemetry_late).  *)
(* "records" is what the page cache shows, "stable" what is on the medium. *)
(*                                                                         *)
(* An operator that nothing refers to, defined just before another (like   *)
(* NextSeqFollowsClock before NextSeq), is a plausible mistake in that     *)
(* place: put in its stead it breaks a property, which shows that the      *)
(* property says something about that code.  Flusher has some too.         *)
(***************************************************************************)
EXTENDS Integers, FiniteSets, FiniteSetsExt

CONSTANTS
  Readings,           \* the readings that may be accepted
  Machines,
  NoMachine,
  StateOf,            \* the machine whose state a reading's record carries
  SegmentMaxRecords,  \* records after which a segment is rotated
  BatchSize,          \* most records one read() returns
  Capacity,           \* maxBytes, in records
  Faults,             \* what may go wrong, see FaultKinds
  MaxSeq,             \* bound: largest sequence number
  MaxGap              \* bound: how far the clock runs ahead of the sequence

(* process: the process dies, the page cache survives; power: it does not. *)
(* clock: a restart may read an earlier time.  fsync: an fsync may fail.   *)
(* write: so may a write().  space: creating a segment or state.json may   *)
(* fail.  unlink: a deletion may fail, or not survive a crash.             *)
FaultKinds == {"process", "power", "clock", "fsync", "write", "space", "unlink"}

ASSUME JournalAssumption ==
  /\ StateOf \in [Readings -> Machines \cup {NoMachine}]
  /\ NoMachine \notin Machines
  /\ SegmentMaxRecords \in Nat \ {0}
  /\ BatchSize \in Nat \ {0}
  /\ Capacity \in Nat
  /\ Faults \subseteq FaultKinds
  /\ MaxSeq \in Nat
  /\ MaxGap \in Nat

VARIABLES
  records, stable,  \* the segment files: in the page cache, on the medium
  snapshot,         \* state.json: the stamp of each machine's saved state
  up,               \* the process is running with an open journal
  segments,         \* the files this process has in its list
  active,           \* the one it appends to
  fdOpen,           \* whether its descriptor is open
  lastSeq, durableSeq, fatalError, stateSeq, cursor,
  dirty,            \* the fsync timer is armed
  timerSync,        \* the timer's fsync in flight: [seg, through]
  syncWork,         \* syncThrough()'s fsync in flight: [seg, through]
  taken,            \* the batch the reader holds, and the position after it
  clock,            \* the least value Date.now() * 1000 can still have
  stampOf,          \* history: the number each reading was given, 0 for none
  promised,         \* history: readings the broker was told are accepted
  consumed          \* history: readings the reader said the database has

diskVars == <<records, stable, snapshot>>
fileVars == <<segments, active, fdOpen>>
syncVars == <<dirty, timerSync, syncWork>>
readVars == <<cursor, taken>>
history  == <<stampOf, promised, consumed>>
vars == <<diskVars, fileVars, syncVars, readVars, history,
          up, lastSeq, durableSeq, fatalError, stateSeq, clock>>

Seq0   == 0..MaxSeq
Record == [seg : Nat, s : 1..MaxSeq, rd : Readings]
Fsync  == [seg : Nat, through : Seq0]
NoSync == [seg |-> 0, through |-> 0]
NoRead == [busy |-> FALSE, recs |-> {}, seg |-> 0, seq |-> 0]

TypeOK ==
  /\ records \subseteq Record /\ stable \subseteq records
  /\ snapshot \in [Machines -> Seq0] /\ stateSeq \in [Machines -> Seq0]
  /\ up \in BOOLEAN /\ fdOpen \in BOOLEAN /\ fatalError \in BOOLEAN
  /\ dirty \in BOOLEAN
  /\ segments \subseteq Nat /\ active \in Nat
  /\ lastSeq \in Seq0 /\ durableSeq \in Seq0
  /\ cursor \in [seg : Nat, seq : Seq0]
  /\ timerSync \in Fsync /\ syncWork \in Fsync
  /\ taken \in [busy : BOOLEAN, recs : SUBSET Record, seg : Nat, seq : Seq0]
  /\ clock \in Nat
  /\ stampOf \in [Readings -> Seq0]
  /\ promised \subseteq Readings /\ consumed \subseteq Readings

-----------------------------------------------------------------------------
InSegment(seg) == {r \in records : r.seg = seg}
Listed         == {r \in records : r.seg \in segments}
Stamps(rs)     == {r.s : r \in rs}
ReadingsOf(rs) == {r.rd : r \in rs}
StateStamps(rs, m) == {r.s : r \in {q \in rs : StateOf[q.rd] = m}}

(* nextSeq(): one more than the last, or the clock when it is ahead.       *)
NextSeqFollowsClock == clock .. clock + MaxGap
NextSeq ==
  LET least == Max({lastSeq + 1, clock}) IN least .. least + MaxGap

(* rotateIfDue(): a segment with records is left once it is full or old    *)
(* enough (aged), but not while syncThrough() has an fsync of it in        *)
(* flight.  One whose successor could not be opened (its descriptor is     *)
(* closed) is still due.                                                   *)
RotateDespiteSync(open, count, aged) ==
  ~open \/ (count > 0 /\ (count >= SegmentMaxRecords \/ aged))
RotateDue(open, count, aged) ==
  syncWork = NoSync /\ (~open \/ (count > 0 /\ (count >= SegmentMaxRecords \/ aged)))

(* closeActive(): what is on the medium, and the durable stamp, once the   *)
(* file being left has been fsynced.                                       *)
CloseWithoutSync(due) == [stable |-> stable, durableSeq |-> IF due THEN lastSeq ELSE durableSeq]
CloseActive(due) ==
  IF due /\ fdOpen
  THEN [stable |-> stable \cup InSegment(active), durableSeq |-> lastSeq]
  ELSE [stable |-> stable, durableSeq |-> durableSeq]

(* saveStates(): only the states that are durable are written.             *)
SavedStates ==
  [m \in Machines |-> IF stateSeq[m] <= durableSeq THEN stateSeq[m] ELSE 0]

(* The stamp an fsync started now makes everything durable up to.          *)
SyncTarget == [seg |-> active, through |-> lastSeq]

-----------------------------------------------------------------------------
Init ==
  /\ records = {} /\ stable = {} /\ snapshot = [m \in Machines |-> 0]
  /\ up = FALSE /\ segments = {} /\ active = 0 /\ fdOpen = FALSE
  /\ lastSeq = 0 /\ durableSeq = 0 /\ fatalError = FALSE
  /\ stateSeq = [m \in Machines |-> 0]
  /\ cursor = [seg |-> 0, seq |-> 0]
  /\ dirty = FALSE /\ timerSync = NoSync /\ syncWork = NoSync
  /\ taken = NoRead /\ clock = 1
  /\ stampOf = [rd \in Readings |-> 0] /\ promised = {} /\ consumed = {}

(* open(): the snapshot and the complete lines on disk give the last       *)
(* number and each machine's latest state; everything found counts as      *)
(* durable; a fresh segment is started; the cursor is at the oldest file.  *)
RecoveredSeqAndOne == 1 + Max({0} \cup Stamps(records) \cup {snapshot[m] : m \in Machines})
RecoveredSeq == Max({0} \cup Stamps(records) \cup {snapshot[m] : m \in Machines})
RecoveredStatesFromFiles ==
  [m \in Machines |-> Max({0} \cup StateStamps(records, m))]
RecoveredStates ==
  [m \in Machines |-> Max({snapshot[m]} \cup StateStamps(records, m))]
FirstSeqFromClock == clock
FirstSeq == Max({RecoveredSeq + 1, clock})

Open ==
  /\ ~up
  /\ up' = TRUE
  /\ lastSeq' = RecoveredSeq
  /\ durableSeq' = RecoveredSeq
  /\ stateSeq' = RecoveredStates
  /\ \E gap \in 0..MaxGap : LET first == FirstSeq + gap IN
       /\ gap > 0 => first <= MaxSeq
       /\ active' = first
       /\ segments' = {r.seg : r \in records} \cup {first}
       /\ cursor' = [seg |-> Min(segments'), seq |-> 0]
       /\ clock' = first
  /\ fdOpen' = TRUE
  /\ fatalError' = FALSE
  /\ UNCHANGED <<diskVars, syncVars, taken, history>>

-----------------------------------------------------------------------------
(* append(): rotate if due, take a number, write, remember the state, arm  *)
(* the fsync timer, rotate if due again.  One synchronous step.  "aged" is *)
(* whether the segment is older than segmentMaxAgeMs when it starts.       *)
ActiveRecords == Cardinality(InSegment(active))

(* The line is written to segment seg and remembered.                      *)
Write(rd, seg, seq) ==
  /\ records' = records \cup {[seg |-> seg, s |-> seq, rd |-> rd]}
  /\ lastSeq' = seq
  /\ stampOf' = [stampOf EXCEPT ![rd] = seq]
  /\ stateSeq' = [m \in Machines |-> IF m = StateOf[rd] THEN seq ELSE stateSeq[m]]
  /\ dirty' = TRUE
  /\ UNCHANGED <<snapshot, up, timerSync, syncWork, readVars, clock, promised, consumed>>

Append(rd, aged) ==
  /\ up /\ ~fatalError /\ stampOf[rd] = 0
  /\ Cardinality(Listed) < Capacity
  /\ LET due    == RotateDue(fdOpen, ActiveRecords, aged)
         seg    == IF due THEN lastSeq + 1 ELSE active
         count  == IF due THEN 1 ELSE ActiveRecords + 1
         again  == RotateDue(TRUE, count, aged /\ ~due)
         closed == CloseActive(due)
     IN \E seq \in NextSeq :
          /\ seq <= MaxSeq
          /\ Write(rd, seg, seq)
          /\ \/ /\ ~again
                /\ active' = seg /\ segments' = segments \cup {seg}
                /\ fdOpen' = TRUE
                /\ stable' = closed.stable /\ durableSeq' = closed.durableSeq
                /\ UNCHANGED fatalError
             \/ /\ again   \* the new file is synced and left at once
                /\ \/ /\ active' = seq + 1 /\ segments' = segments \cup {seg, seq + 1}
                      /\ fdOpen' = TRUE
                   \/ /\ "space" \in Faults   \* append() throws: no successor
                      /\ active' = seg /\ segments' = segments \cup {seg}
                      /\ fdOpen' = FALSE
                /\ stable' = closed.stable \cup {r \in records' : r.seg = seg}
                /\ durableSeq' = seq
                /\ UNCHANGED fatalError
             \/ /\ again /\ "fsync" \in Faults   \* append() throws: not synced
                /\ active' = seg /\ segments' = segments \cup {seg}
                /\ fdOpen' = TRUE
                /\ stable' = closed.stable /\ durableSeq' = closed.durableSeq
                /\ fatalError' = TRUE

(* append() returns 0 after the first rotation: the journal is full, or    *)
(* the write failed, which stops the journal.  The number is used up.      *)
AppendRefused(aged) ==
  /\ up /\ ~fatalError
  /\ LET due    == RotateDue(fdOpen, ActiveRecords, aged)
         closed == CloseActive(due)
     IN /\ active' = IF due THEN lastSeq + 1 ELSE active
        /\ stable' = closed.stable /\ durableSeq' = closed.durableSeq
  /\ segments' = segments \cup {active'}
  /\ fdOpen' = TRUE
  /\ \E seq \in NextSeq : seq <= MaxSeq /\ lastSeq' = seq
  /\ \/ Cardinality(Listed) >= Capacity /\ UNCHANGED fatalError
     \/ "write" \in Faults /\ Cardinality(Listed) < Capacity /\ fatalError' = TRUE
  /\ UNCHANGED <<records, snapshot, up, stateSeq, syncVars, readVars, clock, history>>

(* append() throws out of the first rotation, with nothing written: the    *)
(* fsync of the old file failed, or the new one could not be created.      *)
RotateFails(aged) ==
  /\ up /\ ~fatalError
  /\ RotateDue(fdOpen, ActiveRecords, aged)
  /\ \/ /\ "fsync" \in Faults /\ fdOpen
        /\ fatalError' = TRUE
        /\ UNCHANGED <<stable, durableSeq, fdOpen>>
     \/ /\ "space" \in Faults
        /\ stable' = CloseActive(TRUE).stable
        /\ durableSeq' = CloseActive(TRUE).durableSeq
        /\ fdOpen' = FALSE
        /\ UNCHANGED fatalError
  /\ UNCHANGED <<records, snapshot, up, segments, active, lastSeq, stateSeq,
                 syncVars, readVars, clock, history>>

-----------------------------------------------------------------------------
(* What a finished fsync has put on the medium.                            *)
Synced(sync) == {r \in records : r.seg = sync.seg /\ r.s <= sync.through}

(* scheduleSync(): the timer fires; its fsync runs beside everything else, *)
(* even a rotation that closes the file (EBADF is ignored: closeActive()   *)
(* has synced it).  At most one such fsync is in flight here.              *)
TimerFires ==
  /\ up /\ dirty /\ timerSync = NoSync
  /\ dirty' = FALSE
  /\ timerSync' = IF fdOpen THEN SyncTarget ELSE NoSync
  /\ UNCHANGED <<diskVars, fileVars, syncWork, readVars, history, up, lastSeq,
                 durableSeq, fatalError, stateSeq, clock>>

FsyncDone(sync) ==
  /\ stable' = stable \cup Synced(sync)
  /\ durableSeq' = Max({durableSeq, sync.through})
  /\ UNCHANGED fatalError

FsyncFails ==
  /\ "fsync" \in Faults
  /\ fatalError' = TRUE
  /\ UNCHANGED <<stable, durableSeq>>

TimerSyncEnds ==
  /\ timerSync # NoSync
  /\ \/ FsyncDone(timerSync)
     \/ FsyncFails
     \/ /\ timerSync.seg # active \/ ~fdOpen   \* EBADF
        /\ UNCHANGED <<stable, durableSeq, fatalError>>
  /\ timerSync' = NoSync
  /\ UNCHANGED <<records, snapshot, fileVars, dirty, syncWork, readVars, history,
                 up, lastSeq, stateSeq, clock>>

(* syncThrough(): one fsync at a time, shared by every caller that waits   *)
(* for a record above durableSeq.                                          *)
SyncStarts ==
  /\ up /\ ~fatalError /\ syncWork = NoSync
  /\ \E r \in records : r.s > durableSeq
  /\ syncWork' = SyncTarget
  /\ UNCHANGED <<diskVars, fileVars, dirty, timerSync, readVars, history, up,
                 lastSeq, durableSeq, fatalError, stateSeq, clock>>

SyncEnds ==
  /\ syncWork # NoSync
  /\ FsyncDone(syncWork) \/ FsyncFails
  /\ syncWork' = NoSync
  /\ UNCHANGED <<records, snapshot, fileVars, dirty, timerSync, readVars, history,
                 up, lastSeq, stateSeq, clock>>

(* The PUBACK.  admit() returns once durableSeq has reached its record;    *)
(* after a restart (the files of this process are named from clock on) a   *)
(* replay of the reading a machine's recovered state came from is counted  *)
(* as a duplicate and returns at once.  What may be acknowledged is, all   *)
(* of it: an acknowledgement that is late can only be owed less.           *)
AcceptUnsynced(r) == r.seg >= clock
Admitted(r) == r.seg >= clock /\ r.s <= durableSeq
Duplicate(r) ==
  /\ r.seg < clock
  /\ StateOf[r.rd] \in Machines
  /\ stateSeq[StateOf[r.rd]] = r.s
Promise ==
  /\ up
  /\ promised' = promised \cup ReadingsOf({r \in Listed : Admitted(r) \/ Duplicate(r)})
  /\ UNCHANGED <<diskVars, fileVars, syncVars, readVars, stampOf, consumed, up,
                 lastSeq, durableSeq, fatalError, stateSeq, clock>>

-----------------------------------------------------------------------------
(* read(): the first records past the cursor, and the position after them: *)
(* in the last record's segment when the batch is full, otherwise in the   *)
(* active one, which is then read to its end.                              *)
Unread == {r \in Listed : r.s > cursor.seq}
Batch  == {r \in Unread : Cardinality({q \in Unread : q.s < r.s}) < BatchSize}
LastOf(batch) == CHOOSE r \in batch : \A q \in batch : q.s <= r.s
SegmentAfterIsActive(batch) == active
SegmentAfter(batch) ==
  IF Cardinality(batch) = BatchSize THEN LastOf(batch).seg ELSE active
PositionAtEnd(batch) == [seg |-> SegmentAfter(batch), seq |-> lastSeq]
PositionAfter(batch) ==
  [seg |-> SegmentAfter(batch), seq |-> Max({cursor.seq} \cup Stamps(batch))]

Read ==
  /\ up /\ ~taken.busy /\ Batch # {}
  /\ LET after == PositionAfter(Batch)
     IN taken' = [busy |-> TRUE, recs |-> Batch, seg |-> after.seg, seq |-> after.seq]
  /\ UNCHANGED <<diskVars, fileVars, syncVars, cursor, history, up, lastSeq,
                 durableSeq, fatalError, stateSeq, clock>>

(* ack(position): move the cursor, then dropConsumed(): save the states,   *)
(* delete every file before the cursor's.  A deletion that fails leaves    *)
(* the file for the next open(); if the save fails nothing is deleted.     *)
DropConsumed(seg) ==
  LET old == {f \in segments : f < seg} IN
  \/ old = {} /\ UNCHANGED <<diskVars, segments>>
  \/ /\ old # {}
     /\ snapshot' = SavedStates
     /\ segments' = segments \ old
     /\ \E kept \in (IF "unlink" \in Faults THEN SUBSET old ELSE {{}}) :
          /\ records' = {r \in records : r.seg \notin old \ kept}
          /\ stable' = {r \in stable : r.seg \notin old \ kept}
  \/ old # {} /\ "space" \in Faults /\ UNCHANGED <<diskVars, segments>>

MoveCursor(position) ==
  /\ cursor' = [seg |-> position.seg, seq |-> position.seq]
  /\ DropConsumed(position.seg)
  /\ UNCHANGED <<active, fdOpen, syncVars, stampOf, promised, up, lastSeq,
                 durableSeq, fatalError, stateSeq, clock>>

AckToEnd ==
  /\ up /\ taken.busy
  /\ MoveCursor([seg |-> active, seq |-> lastSeq])
  /\ consumed' = consumed \cup ReadingsOf(taken.recs)
  /\ taken' = NoRead

Ack ==
  /\ up /\ taken.busy
  /\ MoveCursor(taken)
  /\ consumed' = consumed \cup ReadingsOf(taken.recs)
  /\ taken' = NoRead

(* pass(): nothing to read, but the cursor can leave files behind it.      *)
AdvanceOnly ==
  /\ up /\ ~taken.busy /\ Batch = {}
  /\ cursor.seg # active
  /\ cursor' = [cursor EXCEPT !.seg = active]
  /\ UNCHANGED <<diskVars, fileVars, syncVars, taken, history, up, lastSeq,
                 durableSeq, fatalError, stateSeq, clock>>

AckAdvance ==
  /\ up /\ ~taken.busy /\ Batch = {}
  /\ cursor.seg # active
  /\ MoveCursor([seg |-> active, seq |-> cursor.seq])
  /\ UNCHANGED <<consumed, taken>>

(* The reader gives up on this batch; the cursor has not moved.            *)
Abandon ==
  /\ up /\ taken.busy
  /\ taken' = NoRead
  /\ UNCHANGED <<diskVars, fileVars, syncVars, cursor, history, up, lastSeq,
                 durableSeq, fatalError, stateSeq, clock>>

(* The reader acknowledges only what it first waited to see durable.       *)
ReaderAcks == (\A r \in taken.recs : r.s <= durableSeq) /\ Ack

-----------------------------------------------------------------------------
(* Everything in memory is gone.  A restart takes longer than the numbers  *)
(* had run ahead of the clock, unless the clock is set back.               *)
Down ==
  /\ up' = FALSE /\ segments' = {} /\ active' = 0 /\ fdOpen' = FALSE
  /\ lastSeq' = 0 /\ durableSeq' = 0 /\ fatalError' = FALSE
  /\ stateSeq' = [m \in Machines |-> 0]
  /\ cursor' = [seg |-> 0, seq |-> 0]
  /\ dirty' = FALSE /\ timerSync' = NoSync /\ syncWork' = NoSync
  /\ taken' = NoRead
  /\ clock' \in {Max({clock, lastSeq + 1})} \cup (IF "clock" \in Faults THEN {1} ELSE {})
  /\ UNCHANGED <<snapshot, history>>

(* close(): the shutdown path syncs the active file first.                 *)
Close == up /\ Down /\ stable' = stable \cup InSegment(active) /\ UNCHANGED records

ProcessCrash == "process" \in Faults /\ up /\ Down /\ UNCHANGED <<records, stable>>

(* Of what was never synced, the page cache had written back a prefix.     *)
PowerLoss ==
  /\ "power" \in Faults
  /\ \E upTo \in Seq0 : records' = stable \cup {r \in records : r.s <= upTo}
  /\ stable' = records'
  /\ Down

-----------------------------------------------------------------------------
Writer  == \E aged \in BOOLEAN : (\E rd \in Readings : Append(rd, aged))
                                \/ AppendRefused(aged) \/ RotateFails(aged)
Syncing == TimerFires \/ TimerSyncEnds \/ SyncStarts \/ SyncEnds
Reader  == Read \/ ReaderAcks \/ AckAdvance \/ Abandon
Failing == Close \/ ProcessCrash \/ PowerLoss

Next == Open \/ Writer \/ Syncing \/ Promise \/ Reader \/ Failing

Spec == Init /\ [][Next]_vars

-----------------------------------------------------------------------------
(* What the next crash cannot take away.                                   *)
Surviving == IF "power" \in Faults THEN stable ELSE records

(* "Accepted" means written and fsynced: a reading the broker was told is  *)
(* accepted can be read back after any crash, until its reader has said    *)
(* the database has it (append, syncThrough, ack, dropConsumed, open).     *)
AcceptedIsKept == promised \subseteq ReadingsOf(Surviving) \cup consumed

(* durableSeq never claims more than is on the medium, although four       *)
(* different fsyncs (timer, syncThrough, closeActive, sync) move it and    *)
(* each was started before appends and rotations that it did not see.      *)
DurableIsOnDisk == up => {r \in records : r.s <= durableSeq} \subseteq stable

(* The cursor and the batch being written leave no record behind: whatever *)
(* is at or below them has been consumed or is in the batch (read, ack,    *)
(* rotation between the two).                                              *)
NothingSkipped ==
  \A r \in Listed :
    /\ r.s <= cursor.seq => r.rd \in consumed
    /\ taken.busy /\ r.s <= taken.seq => r \in taken.recs \/ r.rd \in consumed

(* open() sorts the files by name and reads them as one log: that order is *)
(* the order of the sequence numbers, through rotations, refused appends,  *)
(* failed deletions and restarts.                                          *)
FilesInOrder ==
  \A q, r \in records : q.seg < r.seg => q.s < r.s /\ q.s < r.seg

(* syncThrough() never has its fsync on a descriptor a rotation has closed:*)
(* there EBADF is not ignored, and would stop the journal for good.        *)
SyncKeepsItsFile == syncWork # NoSync => syncWork.seg = active /\ fdOpen

(* A machine's counters and clock are never older after a restart than the *)
(* last reading of it that was accepted (saveStates, dropConsumed, open).  *)
BaselineKept ==
  up => \A rd \in promised :
          StateOf[rd] # NoMachine => stateSeq[StateOf[rd]] >= stampOf[rd]

(* The sequence number only ever grows, across restarts too (nextSeq, open).*)
StampsOnlyGrow ==
  [][\A rd \in Readings : stampOf'[rd] # stampOf[rd] =>
       \A q \in Readings : stampOf[q] < stampOf'[rd]]_vars
=============================================================================
