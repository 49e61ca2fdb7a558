--------------------------- MODULE JournalProofs ---------------------------
(***************************************************************************)
(* Proofs about Journal, for every value of its constants: types, what is  *)
(* durable, the order of files and records, and the file an fsync is of.   *)
(* Then what is read again: the reader skips nothing, nothing that was     *)
(* accepted goes before it has been there, and deleting files and          *)
(* restarting make no machine's counters and clock older than what was     *)
(* accepted of it.                                                         *)
(***************************************************************************)
EXTENDS Journal, NumberLemmas, FiniteSetTheorems

-----------------------------------------------------------------------------
(* Numbers, recovery and positions.                                        *)

(* nextSeq() returns a number above every earlier one.                     *)
LEMMA NextSeqGrows ==
  ASSUME TypeOK
  PROVE  \A seq \in NextSeq : seq \in Nat /\ seq > lastSeq
<1> DEFINE least == Max({lastSeq + 1, clock})
<1>1. lastSeq + 1 \in Nat /\ clock \in Nat /\ lastSeq \in Nat /\ MaxGap \in Nat
  BY JournalAssumption DEF TypeOK, Seq0
<1>2. least \in {lastSeq + 1, clock} /\ lastSeq + 1 <= least
  BY <1>1, MaxOfTwo
<1>3. NextSeq = least .. least + MaxGap
  BY DEF NextSeq
<1> HIDE DEF least
<1> QED  BY <1>1, <1>2, <1>3

(* What open() recovers bounds everything on disk.                         *)
LEMMA RecoveredSeqBounds ==
  ASSUME TypeOK
  PROVE  /\ RecoveredSeq \in Seq0
         /\ \A r \in records : r.s <= RecoveredSeq
         /\ \A m \in Machines : snapshot[m] <= RecoveredSeq
<1> DEFINE S == {0} \cup Stamps(records) \cup {snapshot[m] : m \in Machines}
<1>1. S \in SUBSET (0..MaxSeq) /\ S # {} /\ MaxSeq \in Nat
  BY JournalAssumption DEF TypeOK, Stamps, Record, Seq0
<1>2. Max(S) \in S /\ \A x \in S : x <= Max(S)
  <2> HIDE DEF S
  <2> QED  BY <1>1, MaxIsGreatest
<1> QED  BY <1>1, <1>2 DEF RecoveredSeq, Stamps, Seq0

(* open() restores no state older than the snapshot or a line on disk.     *)
LEMMA RecoveredStatesBounds ==
  ASSUME TypeOK, NEW m \in Machines
  PROVE  /\ RecoveredStates[m] \in Seq0
         /\ snapshot[m] <= RecoveredStates[m]
         /\ \A r \in records : StateOf[r.rd] = m => r.s <= RecoveredStates[m]
<1> DEFINE S == {snapshot[m]} \cup StateStamps(records, m)
<1>1. S \in SUBSET (0..MaxSeq) /\ S # {} /\ MaxSeq \in Nat
  BY JournalAssumption DEF TypeOK, StateStamps, Record, Seq0
<1>2. Max(S) \in S /\ \A x \in S : x <= Max(S)
  <2> HIDE DEF S
  <2> QED  BY <1>1, MaxIsGreatest
<1> QED  BY <1>1, <1>2 DEF RecoveredStates, StateStamps, Seq0

(* read() returns records on disk, and a position that covers them.        *)
LEMMA PositionBounds ==
  ASSUME TypeOK, Batch # {}
  PROVE  /\ Batch \subseteq records
         /\ PositionAfter(Batch).seg \in Nat
         /\ PositionAfter(Batch).seq \in Seq0
         /\ \A r \in Batch : r.s <= PositionAfter(Batch).seq
<1>1. Batch \subseteq records
  BY DEF Batch, Unread, Listed
<1>2. Batch \subseteq Record /\ MaxSeq \in Nat
  BY <1>1, JournalAssumption DEF TypeOK
<1>3. LastOf(Batch) \in Batch
  <2> DEFINE S == Stamps(Batch)
  <2>1. S \in SUBSET (0..MaxSeq) /\ S # {}
    BY <1>2 DEF Stamps, Record
  <2>2. Max(S) \in S /\ \A x \in S : x <= Max(S)
    <3> HIDE DEF S
    <3> QED  BY <1>2, <2>1, MaxIsGreatest
  <2>3. \E r \in Batch : \A q \in Batch : q.s <= r.s
    BY <2>2 DEF Stamps
  <2> QED  BY <2>3 DEF LastOf
<1>4. SegmentAfter(Batch) \in Nat
  BY <1>2, <1>3 DEF SegmentAfter, TypeOK, Record
<1>5. /\ PositionAfter(Batch).seq \in Seq0
      /\ \A r \in Batch : r.s <= PositionAfter(Batch).seq
  <2> DEFINE S == {cursor.seq} \cup Stamps(Batch)
  <2>1. S \in SUBSET (0..MaxSeq) /\ S # {}
    BY <1>2 DEF Stamps, Record, TypeOK, Seq0
  <2>2. Max(S) \in S /\ \A x \in S : x <= Max(S)
    <3> HIDE DEF S
    <3> QED  BY <1>2, <2>1, MaxIsGreatest
  <2> QED  BY <2>1, <2>2 DEF PositionAfter, Stamps, Seq0
<1> QED  BY <1>1, <1>4, <1>5 DEF PositionAfter

-----------------------------------------------------------------------------
(* The type invariant.                                                     *)

(* The first state has its types.                                          *)
LEMMA InitTyped == Init => TypeOK
<1> SUFFICES ASSUME Init PROVE TypeOK
  OBVIOUS
<1>1. 0 \in Seq0
  BY JournalAssumption DEF Seq0
<1>2. /\ NoSync \in Fsync
      /\ NoRead \in [busy : BOOLEAN, recs : SUBSET Record, seg : Nat, seq : Seq0]
      /\ [seg |-> 0, seq |-> 0] \in [seg : Nat, seq : Seq0]
  BY <1>1 DEF NoSync, Fsync, NoRead
<1> QED  BY <1>1, <1>2 DEF Init, TypeOK

(* open() keeps the types: the numbers it recovers are in range.           *)
LEMMA OpenTyped ==
  ASSUME TypeOK, Open  PROVE TypeOK'
<1>1. PICK gap \in 0..MaxGap :
        /\ active' = FirstSeq + gap
        /\ segments' = {r.seg : r \in records} \cup {active'}
        /\ cursor' = [seg |-> Min(segments'), seq |-> 0]
        /\ clock' = active'
  BY DEF Open
<1>2. FirstSeq \in Nat
  <2> DEFINE after == RecoveredSeq + 1
  <2>1. after \in Nat /\ clock \in Nat
    BY RecoveredSeqBounds DEF TypeOK, Seq0
  <2>2. after \in Int /\ clock \in Int
    BY <2>1
  <2>3. Max({after, clock}) \in {after, clock}
    <3> HIDE DEF after
    <3> QED  BY <2>2, MaxOfTwo
  <2> QED  BY <2>1, <2>3 DEF FirstSeq
<1>3. active' \in Nat
  BY <1>1, <1>2, JournalAssumption
<1>4. segments' \in SUBSET Nat /\ segments' # {}
  BY <1>1, <1>3 DEF TypeOK, Record
<1>5. Min(segments') \in Nat
  BY <1>4, MinIsLeast
<1>6. stateSeq' \in [Machines -> Seq0]
  BY RecoveredStatesBounds DEF Open, RecoveredStates
<1>7. 0 \in Seq0
  BY JournalAssumption DEF Seq0
<1> QED
  BY <1>1, <1>3, <1>4, <1>5, <1>6, <1>7, RecoveredSeqBounds
  DEF Open, TypeOK, diskVars, syncVars, history

(* append() keeps the types, through its two rotations.                    *)
LEMMA AppendTyped ==
  ASSUME TypeOK, NEW rd \in Readings, NEW aged \in BOOLEAN, Append(rd, aged)
  PROVE  TypeOK'
<1>1. PICK seq \in NextSeq :
        /\ seq <= MaxSeq
        /\ LET due == RotateDue(fdOpen, ActiveRecords, aged)
               seg == IF due THEN lastSeq + 1 ELSE active
           IN  /\ Write(rd, seg, seq)
               /\ active' \in {seg, seq + 1}
               /\ segments' \in {segments \cup {seg}, segments \cup {seg, seq + 1}}
               /\ \/ stable' = CloseActive(due).stable
                  \/ stable' = CloseActive(due).stable \cup {r \in records' : r.seg = seg}
               /\ durableSeq' \in {seq, CloseActive(due).durableSeq}
        /\ fdOpen' \in BOOLEAN /\ fatalError' \in BOOLEAN
  BY DEF Append, TypeOK
<1> DEFINE due == RotateDue(fdOpen, ActiveRecords, aged)
           seg == IF due THEN lastSeq + 1 ELSE active
<1>2. seq \in 1..MaxSeq /\ seq \in Seq0 /\ MaxSeq \in Nat
  BY <1>1, NextSeqGrows, JournalAssumption DEF TypeOK, Seq0
<1>3. seg \in Nat
  BY DEF TypeOK, Seq0
<1>4. CloseActive(due).stable \subseteq records /\ CloseActive(due).durableSeq \in Seq0
  BY DEF CloseActive, InSegment, TypeOK
<1> HIDE DEF due, seg
<1>5. Write(rd, seg, seq)
  BY <1>1 DEF due, seg
<1>6. records' \subseteq Record /\ records \subseteq records'
  BY <1>2, <1>3, <1>5 DEF Write, TypeOK, Record
<1>7. stable' \subseteq records'
  BY <1>1, <1>4, <1>6 DEF due, seg
<1>8. active' \in Nat /\ segments' \subseteq Nat /\ durableSeq' \in Seq0
  BY <1>1, <1>2, <1>3, <1>4 DEF due, seg, TypeOK
<1> QED
  BY <1>1, <1>2, <1>5, <1>6, <1>7, <1>8 DEF Write, TypeOK, readVars

(* So does an append() that returns 0,                                     *)
LEMMA AppendRefusedTyped ==
  ASSUME TypeOK, NEW aged \in BOOLEAN, AppendRefused(aged)
  PROVE  TypeOK'
<1> DEFINE due == RotateDue(fdOpen, ActiveRecords, aged)
<1>1. CloseActive(due).stable \subseteq records /\ CloseActive(due).durableSeq \in Seq0
  BY DEF CloseActive, InSegment, TypeOK
<1>2. stable' = CloseActive(due).stable /\ durableSeq' = CloseActive(due).durableSeq
  BY DEF AppendRefused
<1>3. lastSeq' \in Seq0
  BY NextSeqGrows, JournalAssumption DEF AppendRefused, TypeOK, Seq0
<1>4. active' \in Nat
  BY DEF AppendRefused, TypeOK, Seq0
<1> QED
  BY <1>1, <1>2, <1>3, <1>4 DEF AppendRefused, TypeOK, syncVars, readVars, history

(* and one that throws out of its first rotation.                          *)
LEMMA RotateFailsTyped ==
  ASSUME TypeOK, NEW aged \in BOOLEAN, RotateFails(aged)
  PROVE  TypeOK'
<1>1. CloseActive(TRUE).stable \subseteq records /\ CloseActive(TRUE).durableSeq \in Seq0
  BY DEF CloseActive, InSegment, TypeOK
<1> QED
  BY <1>1 DEF RotateFails, TypeOK, syncVars, readVars, history

(* A finished fsync moves durableSeq within its range.                     *)
LEMMA FsyncTyped ==
  ASSUME TypeOK, NEW sync \in Fsync, FsyncDone(sync)
  PROVE  stable' \subseteq records /\ durableSeq' \in Seq0 /\ fatalError' \in BOOLEAN
<1>1. Max({durableSeq, sync.through}) \in Seq0
  <2>1. durableSeq \in Int /\ sync.through \in Int /\ sync.through \in Seq0
    BY DEF TypeOK, Fsync, Seq0
  <2> QED  BY <2>1, MaxOfTwo DEF TypeOK
<1> QED  BY <1>1 DEF FsyncDone, Synced, TypeOK

(* The timer and syncThrough() keep the types.                             *)
LEMMA SyncingTyped ==
  ASSUME TypeOK, Syncing  PROVE TypeOK'
<1>1. SyncTarget \in Fsync /\ NoSync \in Fsync
  BY JournalAssumption DEF SyncTarget, NoSync, Fsync, TypeOK, Seq0
<1>2. CASE TimerFires
  BY <1>1, <1>2 DEF TimerFires, TypeOK, diskVars, fileVars, readVars, history
<1>3. CASE SyncStarts
  BY <1>1, <1>3 DEF SyncStarts, TypeOK, diskVars, fileVars, readVars, history
<1>4. CASE TimerSyncEnds
  <2>1. stable' \subseteq records /\ durableSeq' \in Seq0 /\ fatalError' \in BOOLEAN
    BY <1>4, FsyncTyped DEF TimerSyncEnds, FsyncFails, TypeOK
  <2> QED  BY <1>1, <1>4, <2>1 DEF TimerSyncEnds, TypeOK, fileVars, readVars, history
<1>5. CASE SyncEnds
  <2>1. stable' \subseteq records /\ durableSeq' \in Seq0 /\ fatalError' \in BOOLEAN
    BY <1>5, FsyncTyped DEF SyncEnds, FsyncFails, TypeOK
  <2> QED  BY <1>1, <1>5, <2>1 DEF SyncEnds, TypeOK, fileVars, readVars, history
<1> QED  BY <1>2, <1>3, <1>4, <1>5 DEF Syncing

(* ack() and dropConsumed() keep the types.                                *)
LEMMA MoveCursorTyped ==
  ASSUME TypeOK, NEW position, position.seg \in Nat, position.seq \in Seq0,
         MoveCursor(position), consumed' \subseteq Readings,
         taken' \in [busy : BOOLEAN, recs : SUBSET Record, seg : Nat, seq : Seq0]
  PROVE  TypeOK'
<1>1. SavedStates \in [Machines -> Seq0]
  BY JournalAssumption DEF SavedStates, TypeOK, Seq0
<1>2. /\ records' \subseteq records /\ stable' \subseteq records'
      /\ snapshot' \in [Machines -> Seq0] /\ segments' \subseteq segments
  BY <1>1 DEF MoveCursor, DropConsumed, diskVars, TypeOK
<1> QED  BY <1>2 DEF MoveCursor, TypeOK, syncVars

(* An acknowledged batch is of readings.                                   *)
LEMMA AckTyped ==
  ASSUME TypeOK, Ack  PROVE TypeOK'
<1>1. NoRead \in [busy : BOOLEAN, recs : SUBSET Record, seg : Nat, seq : Seq0]
  BY JournalAssumption DEF NoRead, Seq0
<1>2. consumed' \subseteq Readings
  BY DEF Ack, ReadingsOf, TypeOK, Record
<1> QED  BY <1>1, <1>2, MoveCursorTyped DEF Ack, TypeOK

(* read(), ack() and an abandoned batch keep the types.                    *)
LEMMA ReaderTyped ==
  ASSUME TypeOK, Reader  PROVE TypeOK'
<1>1. NoRead \in [busy : BOOLEAN, recs : SUBSET Record, seg : Nat, seq : Seq0]
  BY JournalAssumption DEF NoRead, Seq0
<1>2. CASE Read
  BY <1>2, PositionBounds
  DEF Read, TypeOK, diskVars, fileVars, syncVars, history
<1>3. CASE ReaderAcks
  BY <1>3, AckTyped DEF ReaderAcks
<1>4. CASE AckAdvance
  BY <1>4, MoveCursorTyped DEF AckAdvance, TypeOK
<1>5. CASE Abandon
  BY <1>1, <1>5 DEF Abandon, TypeOK, diskVars, fileVars, syncVars, history
<1> QED  BY <1>2, <1>3, <1>4, <1>5 DEF Reader

(* So does losing everything in memory,                                    *)
LEMMA DownTyped ==
  ASSUME TypeOK, Down, records' \subseteq records, stable' \subseteq records'
  PROVE  TypeOK'
<1>1. clock' \in Nat
  <2>1. clock \in Nat /\ lastSeq + 1 \in Nat
    BY DEF TypeOK, Seq0
  <2>2. Max({clock, lastSeq + 1}) \in {clock, lastSeq + 1}
    BY <2>1, MaxOfTwo
  <2>3. clock' \in {Max({clock, lastSeq + 1}), 1}
    BY DEF Down
  <2> QED  BY <2>1, <2>2, <2>3
<1>2. 0 \in Seq0
  BY JournalAssumption DEF Seq0
<1>3. /\ NoSync \in Fsync
      /\ NoRead \in [busy : BOOLEAN, recs : SUBSET Record, seg : Nat, seq : Seq0]
      /\ [seg |-> 0, seq |-> 0] \in [seg : Nat, seq : Seq0]
  BY <1>2 DEF NoSync, Fsync, NoRead
<1> QED  BY <1>1, <1>2, <1>3 DEF Down, TypeOK, history

(* in each of the ways the process ends.                                   *)
LEMMA FailingTyped ==
  ASSUME TypeOK, Failing  PROVE TypeOK'
<1>1. Down /\ records' \subseteq records /\ stable' \subseteq records'
  BY DEF Failing, Close, ProcessCrash, PowerLoss, InSegment, TypeOK
<1> QED  BY <1>1, DownTyped

(* The PUBACK keeps the types.                                             *)
LEMMA PromiseTyped ==
  ASSUME TypeOK, Promise  PROVE TypeOK'
BY DEF Promise, ReadingsOf, Listed, TypeOK, Record, diskVars, fileVars, syncVars, readVars

(* Every step keeps the types.                                             *)
LEMMA NextTyped ==
  ASSUME TypeOK, [Next]_vars  PROVE TypeOK'
<1>1. CASE Writer
  BY <1>1, AppendTyped, AppendRefusedTyped, RotateFailsTyped DEF Writer
<1>2. CASE UNCHANGED vars
  BY <1>2 DEF vars, diskVars, fileVars, syncVars, readVars, history, TypeOK
<1> QED
  BY <1>1, <1>2, OpenTyped, SyncingTyped, PromiseTyped, ReaderTyped, FailingTyped
  DEF Next

(* Every reachable state has its types, whatever the faults.               *)
THEOREM Typing == Spec => []TypeOK
<1> QED  BY InitTyped, NextTyped, PTL DEF Spec

-----------------------------------------------------------------------------
(* Durability.  An fsync in flight covers every record up to its stamp that *)
(* is not on the medium yet: all of them are in its file.                   *)
Covers(sync) ==
  /\ sync.through <= lastSeq
  /\ \A r \in records : r.s <= sync.through => r \in stable \/ r.seg = sync.seg

(* Only the file being appended to has anything not on the medium, and      *)
(* nothing has once its descriptor is closed.                               *)
DurabilityInv ==
  /\ TypeOK
  /\ durableSeq <= lastSeq
  /\ up => \A r \in records : r.s <= lastSeq
  /\ records \subseteq stable \cup InSegment(active)
  /\ ~fdOpen => records \subseteq stable /\ durableSeq = lastSeq
  /\ ~up => ~fdOpen /\ timerSync = NoSync /\ syncWork = NoSync
  /\ Covers(timerSync) /\ Covers(syncWork)
  /\ DurableIsOnDisk
  /\ SyncKeepsItsFile

(* Durability holds before the first open().                               *)
LEMMA InitDurable == Init => DurabilityInv
<1> SUFFICES ASSUME Init PROVE DurabilityInv
  OBVIOUS
<1>1. TypeOK
  BY InitTyped
<1> QED
  BY <1>1 DEF Init, DurabilityInv, DurableIsOnDisk, SyncKeepsItsFile, Covers, NoSync

(* open() finds only synced files.                                         *)
LEMMA OpenDurable ==
  ASSUME DurabilityInv, Open  PROVE DurabilityInv'
<1>1. TypeOK'
  BY OpenTyped DEF DurabilityInv
<1>2. /\ \A r \in records : r.s <= RecoveredSeq
      /\ RecoveredSeq \in Nat /\ lastSeq' = RecoveredSeq /\ durableSeq' = RecoveredSeq
      /\ records' = records /\ stable' = stable /\ up' /\ fdOpen'
      /\ syncWork' = NoSync /\ timerSync' = NoSync /\ records \subseteq stable
  BY RecoveredSeqBounds
  DEF Open, diskVars, syncVars, DurabilityInv, TypeOK, Seq0
<1>3. Covers(timerSync)' /\ Covers(syncWork)'
  BY <1>1, <1>2 DEF Covers, NoSync, TypeOK, Record
<1>4. DurableIsOnDisk' /\ SyncKeepsItsFile'
  BY <1>2 DEF DurableIsOnDisk, SyncKeepsItsFile
<1> QED
  BY <1>1, <1>2, <1>3, <1>4 DEF DurabilityInv

(* A rotation leaves nothing unsynced behind: closeActive() has synced the  *)
(* file, or its descriptor was closed after an earlier sync.                *)
LEMMA CloseActiveSyncs ==
  ASSUME DurabilityInv, up, NEW due \in BOOLEAN
  PROVE  /\ stable \subseteq CloseActive(due).stable
         /\ CloseActive(due).stable \subseteq records
         /\ CloseActive(due).durableSeq \in {durableSeq, lastSeq}
         /\ due => records \subseteq CloseActive(due).stable
                   /\ CloseActive(due).durableSeq = lastSeq
         /\ ~due => CloseActive(due).stable = stable
                   /\ CloseActive(due).durableSeq = durableSeq
BY DEF CloseActive, DurabilityInv, TypeOK, InSegment

(* append(): the file it leaves is synced first, and the new record is     *)
(* above every number an fsync in flight covers.                           *)
LEMMA AppendDurable ==
  ASSUME DurabilityInv, NEW rd \in Readings, NEW aged \in BOOLEAN, Append(rd, aged)
  PROVE  DurabilityInv'
<1> DEFINE due == RotateDue(fdOpen, ActiveRecords, aged)
           seg == IF due THEN lastSeq + 1 ELSE active
           count == IF due THEN 1 ELSE ActiveRecords + 1
           again == RotateDue(TRUE, count, aged /\ ~due)
           closed == CloseActive(due)
<1>1. PICK seq \in NextSeq :
        /\ seq <= MaxSeq
        /\ Write(rd, seg, seq)
        /\ \/ /\ ~again
              /\ active' = seg /\ fdOpen' = TRUE
              /\ stable' = closed.stable /\ durableSeq' = closed.durableSeq
           \/ /\ again
              /\ \/ active' = seq + 1 /\ fdOpen' = TRUE
                 \/ active' = seg /\ fdOpen' = FALSE
              /\ stable' = closed.stable \cup {r \in records' : r.seg = seg}
              /\ durableSeq' = seq
           \/ /\ again
              /\ active' = seg /\ fdOpen' = TRUE
              /\ stable' = closed.stable /\ durableSeq' = closed.durableSeq
  BY DEF Append
<1>2. TypeOK /\ TypeOK' /\ up
  BY AppendTyped DEF DurabilityInv, Append
<1>3. /\ seq \in Nat /\ seq > lastSeq /\ lastSeq \in Nat /\ durableSeq \in Nat
      /\ durableSeq <= lastSeq
  BY <1>2, NextSeqGrows DEF TypeOK, Seq0, DurabilityInv
<1>4. due \in BOOLEAN /\ (due => syncWork = NoSync) /\ (again => syncWork = NoSync)
  BY DEF RotateDue
<1>5. /\ stable \subseteq closed.stable
      /\ closed.stable \subseteq records
      /\ closed.durableSeq \in {durableSeq, lastSeq}
      /\ due => records \subseteq closed.stable /\ closed.durableSeq = lastSeq
      /\ ~due => closed.stable = stable /\ closed.durableSeq = durableSeq
  <2> HIDE DEF due
  <2> QED  BY <1>2, <1>4, CloseActiveSyncs
<1>6. ~due => fdOpen \/ syncWork # NoSync
  BY DEF RotateDue
<1> DEFINE new == [seg |-> seg, s |-> seq, rd |-> rd]
<1>7. /\ records' = records \cup {new} /\ lastSeq' = seq
      /\ up' = up /\ timerSync' = timerSync /\ syncWork' = syncWork
  BY <1>1 DEF Write
<1>8. ~due => seg = active
  OBVIOUS
<1>9. new.seg = seg /\ new.s = seq
  OBVIOUS
<1>a. stable \subseteq stable' /\ closed.stable \subseteq stable'
  BY <1>1, <1>5
<1> HIDE DEF due, seg, count, again, closed, new
<1>b. \A r \in records' : r.s <= lastSeq'
  <2>1. \A r \in records : r.s \in Nat /\ r.s <= lastSeq
    BY <1>2 DEF DurabilityInv, TypeOK, Record
  <2> QED  BY <1>3, <1>7, <1>9, <2>1
<1>c. \A r \in records : r \in closed.stable \/ r.seg = seg
  BY <1>5, <1>8 DEF DurabilityInv, InSegment
<1>d. records' \subseteq stable' \cup InSegment(active)'
  <2>1. CASE active' = seg
    BY <1>7, <1>9, <1>a, <1>c, <2>1 DEF InSegment
  <2>2. CASE active' # seg
    <3>1. stable' = closed.stable \cup {r \in records' : r.seg = seg}
      BY <1>1, <2>2
    <3> QED  BY <1>7, <1>9, <1>c, <3>1
  <2> QED  BY <2>1, <2>2
<1>e. /\ durableSeq' <= lastSeq'
      /\ ~fdOpen' => records' \subseteq stable' /\ durableSeq' = lastSeq'
  <2>1. CASE /\ stable' = closed.stable \cup {r \in records' : r.seg = seg}
             /\ durableSeq' = seq
    BY <1>3, <1>7, <1>9, <1>c, <2>1
  <2>2. CASE fdOpen' = TRUE /\ durableSeq' = closed.durableSeq
    BY <1>3, <1>5, <1>7, <2>2
  <2> QED  BY <1>1, <2>1, <2>2
<1>f. Covers(timerSync)' /\ Covers(syncWork)'
  <2>1. \A sync \in {timerSync, syncWork} : sync.through \in Nat /\ sync.through <= lastSeq
    BY <1>2 DEF DurabilityInv, Covers, TypeOK, Fsync, Seq0
  <2> QED  BY <1>3, <1>7, <1>9, <1>a, <2>1 DEF DurabilityInv, Covers
<1>g. DurableIsOnDisk'
  <2>1. CASE /\ stable' = closed.stable \cup {r \in records' : r.seg = seg}
             /\ durableSeq' = seq
    BY <1>7, <1>9, <1>c, <2>1 DEF DurableIsOnDisk
  <2>2. CASE stable' = closed.stable /\ durableSeq' = closed.durableSeq
    <3>1. new.s > durableSeq'
      BY <1>3, <1>5, <1>9, <2>2
    <3>2. durableSeq' \in Nat
      BY <1>2 DEF TypeOK, Seq0
    <3> QED
      BY <1>2, <1>3, <1>5, <1>7, <1>9, <2>2, <3>1, <3>2
      DEF DurabilityInv, DurableIsOnDisk
  <2> QED  BY <1>1, <2>1, <2>2
<1>h. SyncKeepsItsFile'
  <2>1. CASE syncWork = NoSync
    BY <1>7, <2>1 DEF SyncKeepsItsFile, NoSync
  <2>2. CASE syncWork # NoSync
    <3>1. active' = active /\ fdOpen'
      BY <1>1, <1>4, <1>8, <2>2
    <3> QED  BY <1>7, <2>2, <3>1 DEF DurabilityInv, SyncKeepsItsFile, NoSync
  <2> QED  BY <2>1, <2>2
<1> QED
  BY <1>2, <1>7, <1>b, <1>d, <1>e, <1>f, <1>g, <1>h DEF DurabilityInv

(* A refused append() uses its number up, which is above durableSeq,       *)
LEMMA AppendRefusedDurable ==
  ASSUME DurabilityInv, NEW aged \in BOOLEAN, AppendRefused(aged)
  PROVE  DurabilityInv'
<1> DEFINE due == RotateDue(fdOpen, ActiveRecords, aged)
<1>1. /\ active' = IF due THEN lastSeq + 1 ELSE active
      /\ stable' = CloseActive(due).stable /\ durableSeq' = CloseActive(due).durableSeq
      /\ fdOpen' /\ up /\ up' = up /\ records' = records
      /\ timerSync' = timerSync /\ syncWork' = syncWork
  BY DEF AppendRefused, syncVars
<1>2. TypeOK /\ TypeOK'
  BY AppendRefusedTyped DEF DurabilityInv
<1>3. /\ lastSeq' \in Nat /\ lastSeq' > lastSeq /\ lastSeq \in Nat /\ durableSeq \in Nat
      /\ durableSeq <= lastSeq
  BY <1>2, NextSeqGrows DEF AppendRefused, TypeOK, Seq0, DurabilityInv
<1>4. due \in BOOLEAN /\ (due => syncWork = NoSync) /\ (~due => fdOpen \/ syncWork # NoSync)
  BY DEF RotateDue
<1> HIDE DEF due
<1>5. /\ stable \subseteq stable' /\ stable' \subseteq records
      /\ durableSeq' \in {durableSeq, lastSeq}
      /\ due => records \subseteq stable' /\ durableSeq' = lastSeq
      /\ ~due => stable' = stable /\ durableSeq' = durableSeq
  BY <1>1, <1>4, CloseActiveSyncs
<1>6. Covers(timerSync)' /\ Covers(syncWork)'
  <2>1. \A sync \in {timerSync, syncWork} : sync.through \in Nat /\ sync.through <= lastSeq
    BY <1>2 DEF DurabilityInv, Covers, TypeOK, Fsync, Seq0
  <2> QED  BY <1>1, <1>3, <1>5, <2>1 DEF DurabilityInv, Covers
<1>7. \A r \in records' : r.s <= lastSeq'
  BY <1>1, <1>2, <1>3 DEF DurabilityInv, TypeOK, Record
<1>8. records' \subseteq stable' \cup InSegment(active)'
  BY <1>1, <1>5 DEF DurabilityInv, InSegment
<1>9. DurableIsOnDisk'
  BY <1>1, <1>5 DEF DurabilityInv, DurableIsOnDisk
<1>a. SyncKeepsItsFile'
  BY <1>1, <1>4 DEF DurabilityInv, SyncKeepsItsFile, NoSync
<1>b. durableSeq' <= lastSeq'
  BY <1>3, <1>5
<1> QED  BY <1>1, <1>2, <1>6, <1>7, <1>8, <1>9, <1>a, <1>b DEF DurabilityInv

(* and a failed rotation leaves the old file either active or synced.      *)
LEMMA RotateFailsDurable ==
  ASSUME DurabilityInv, NEW aged \in BOOLEAN, RotateFails(aged)
  PROVE  DurabilityInv'
<1>1. TypeOK /\ TypeOK'
  BY RotateFailsTyped DEF DurabilityInv
<1>2. /\ up /\ up' /\ records' = records /\ lastSeq' = lastSeq /\ active' = active
      /\ timerSync' = timerSync /\ syncWork' = syncWork /\ syncWork = NoSync
  BY DEF RotateFails, syncVars, RotateDue
<1>3. CASE stable' = stable /\ durableSeq' = durableSeq /\ fdOpen /\ fdOpen'
  <2>1. Covers(timerSync)' /\ Covers(syncWork)'
    BY <1>2, <1>3 DEF DurabilityInv, Covers
  <2>2. DurableIsOnDisk' /\ SyncKeepsItsFile'
    BY <1>2, <1>3 DEF DurabilityInv, DurableIsOnDisk, SyncKeepsItsFile
  <2>3. records' \subseteq stable' \cup InSegment(active)'
    BY <1>2, <1>3 DEF DurabilityInv, InSegment
  <2> QED
    BY <1>1, <1>2, <1>3, <2>1, <2>2, <2>3 DEF DurabilityInv
<1>4. CASE /\ stable' = CloseActive(TRUE).stable
           /\ durableSeq' = CloseActive(TRUE).durableSeq /\ ~fdOpen'
  <2>1. stable' = records /\ durableSeq' = lastSeq
    BY <1>1, <1>2, <1>4, CloseActiveSyncs
  <2>2. lastSeq \in Nat
    BY <1>1 DEF TypeOK, Seq0
  <2>3. Covers(timerSync)' /\ Covers(syncWork)'
    BY <1>2, <2>1 DEF DurabilityInv, Covers
  <2>4. DurableIsOnDisk' /\ SyncKeepsItsFile'
    BY <1>2, <2>1 DEF DurableIsOnDisk, SyncKeepsItsFile, NoSync
  <2>5. /\ durableSeq' <= lastSeq' /\ durableSeq' = lastSeq'
        /\ records' \subseteq stable'
    BY <1>2, <2>1, <2>2
  <2>6. up' => \A r \in records' : r.s <= lastSeq'
    BY <1>2 DEF DurabilityInv
  <2> QED
    BY <1>1, <1>2, <2>3, <2>4, <2>5, <2>6 DEF DurabilityInv
<1>5. fdOpen \in BOOLEAN /\ fdOpen' \in BOOLEAN
  BY <1>1 DEF TypeOK
<1>6. \/ stable' = stable /\ durableSeq' = durableSeq /\ fdOpen /\ fdOpen' = fdOpen
      \/ /\ stable' = CloseActive(TRUE).stable
         /\ durableSeq' = CloseActive(TRUE).durableSeq /\ fdOpen' = FALSE
  BY DEF RotateFails
<1> QED  BY <1>3, <1>4, <1>5, <1>6

(* An fsync that ends makes durable what it covers, and nothing else:      *)
(* appends and rotations since it started do not matter.                   *)
LEMMA FsyncDurable ==
  ASSUME DurabilityInv, NEW sync \in Fsync, Covers(sync), FsyncDone(sync),
         records' = records, lastSeq' = lastSeq, up' => up
  PROVE  /\ stable \subseteq stable'
         /\ durableSeq' <= lastSeq' /\ durableSeq <= durableSeq'
         /\ DurableIsOnDisk'
<1>1. durableSeq \in Int /\ sync.through \in Int /\ lastSeq \in Int
  BY DEF DurabilityInv, TypeOK, Fsync, Seq0
<1>2. durableSeq' \in {durableSeq, sync.through} /\ durableSeq <= durableSeq'
  BY <1>1, MaxOfTwo DEF FsyncDone
<1>3. durableSeq' <= lastSeq'
  BY <1>1, <1>2 DEF DurabilityInv, Covers
<1>4. stable' = stable \cup {r \in records : r.seg = sync.seg /\ r.s <= sync.through}
  BY DEF FsyncDone, Synced
<1>5. DurableIsOnDisk'
  BY <1>2, <1>4 DEF DurabilityInv, DurableIsOnDisk, Covers
<1> QED  BY <1>2, <1>3, <1>4, <1>5

(* Starting an fsync covers what is unsynced; its end makes that durable.  *)
LEMMA SyncingDurable ==
  ASSUME DurabilityInv, Syncing  PROVE DurabilityInv'
<1>1. TypeOK /\ TypeOK' /\ timerSync \in Fsync /\ syncWork \in Fsync
  BY SyncingTyped DEF DurabilityInv, TypeOK
<1>2. /\ records' = records /\ lastSeq' = lastSeq /\ active' = active
      /\ fdOpen' = fdOpen /\ up' = up
  BY DEF Syncing, TimerFires, TimerSyncEnds, SyncStarts, SyncEnds, diskVars, fileVars
<1>3. Covers(NoSync)
  BY <1>1 DEF Covers, NoSync, TypeOK, Record, Seq0
<1>4. ASSUME up  PROVE Covers(SyncTarget)
  BY <1>1, <1>4 DEF DurabilityInv, Covers, SyncTarget, InSegment, TypeOK, Seq0
<1>5. CASE TimerFires
  <2>1. /\ stable' = stable /\ durableSeq' = durableSeq /\ syncWork' = syncWork
        /\ timerSync' \in {SyncTarget, NoSync} /\ up
    BY <1>5 DEF TimerFires, diskVars
  <2>2. Covers(timerSync)' /\ Covers(syncWork)'
    BY <1>2, <1>3, <1>4, <2>1 DEF DurabilityInv, Covers
  <2> QED
    BY <1>1, <1>2, <2>1, <2>2
    DEF DurabilityInv, InSegment, DurableIsOnDisk, SyncKeepsItsFile, NoSync
<1>6. CASE SyncStarts
  <2>1. /\ stable' = stable /\ durableSeq' = durableSeq /\ timerSync' = timerSync
        /\ syncWork' = SyncTarget /\ up /\ \E r \in records : r.s > durableSeq
    BY <1>6 DEF SyncStarts, diskVars
  <2>2. Covers(timerSync)' /\ Covers(syncWork)'
    BY <1>2, <1>4, <2>1 DEF DurabilityInv, Covers
  <2>3. fdOpen
    BY <1>1, <2>1 DEF DurabilityInv, TypeOK, Record, Seq0
  <2> QED
    BY <1>1, <1>2, <2>1, <2>2, <2>3
    DEF DurabilityInv, InSegment, DurableIsOnDisk, SyncKeepsItsFile, SyncTarget
<1>7. CASE TimerSyncEnds \/ SyncEnds
  <2>1. /\ timerSync' \in {timerSync, NoSync} /\ syncWork' \in {syncWork, NoSync}
    BY <1>7 DEF TimerSyncEnds, SyncEnds
  <2>2. \/ FsyncDone(timerSync) \/ FsyncDone(syncWork)
        \/ stable' = stable /\ durableSeq' = durableSeq
    BY <1>7 DEF TimerSyncEnds, SyncEnds, FsyncFails
  <2>3. Covers(timerSync) /\ Covers(syncWork)
    BY DEF DurabilityInv
  <2>4. /\ stable \subseteq stable'
        /\ durableSeq' <= lastSeq' /\ durableSeq <= durableSeq'
        /\ DurableIsOnDisk'
    <3>1. CASE FsyncDone(timerSync)
      BY <1>1, <1>2, <2>3, <3>1, FsyncDurable
    <3>2. CASE FsyncDone(syncWork)
      BY <1>1, <1>2, <2>3, <3>2, FsyncDurable
    <3>3. CASE stable' = stable /\ durableSeq' = durableSeq
      BY <1>1, <1>2, <3>3 DEF DurabilityInv, DurableIsOnDisk, TypeOK, Seq0
    <3> QED  BY <2>2, <3>1, <3>2, <3>3
  <2>5. Covers(timerSync)' /\ Covers(syncWork)'
    BY <1>2, <1>3, <2>1, <2>3, <2>4 DEF Covers
  <2>6. ~fdOpen' => records' \subseteq stable' /\ durableSeq' = lastSeq'
    BY <1>1, <1>2, <2>4 DEF DurabilityInv, TypeOK, Seq0
  <2> QED
    BY <1>1, <1>2, <2>1, <2>4, <2>5, <2>6
    DEF DurabilityInv, InSegment, SyncKeepsItsFile
<1> QED  BY <1>5, <1>6, <1>7 DEF Syncing

(* dropConsumed() only takes records away, from both places.               *)
LEMMA RecordsLeaveDurable ==
  ASSUME DurabilityInv, TypeOK', up, up', fdOpen' = fdOpen, active' = active,
         lastSeq' = lastSeq, durableSeq' = durableSeq,
         timerSync' = timerSync, syncWork' = syncWork,
         \/ records' = records /\ stable' = stable
         \/ \E S : /\ records' = {r \in records : r.seg \notin S}
                  /\ stable' = {r \in stable : r.seg \notin S}
  PROVE  DurabilityInv'
<1>1. records' \subseteq records /\ \A r \in records' : r \in stable => r \in stable'
  OBVIOUS
<1>2. Covers(timerSync)' /\ Covers(syncWork)'
  BY <1>1 DEF DurabilityInv, Covers
<1>3. DurableIsOnDisk' /\ SyncKeepsItsFile'
  BY <1>1 DEF DurabilityInv, DurableIsOnDisk, SyncKeepsItsFile
<1>4. records' \subseteq stable' \cup InSegment(active)'
  BY <1>1 DEF DurabilityInv, InSegment
<1>5. ~fdOpen' => records' \subseteq stable' /\ durableSeq' = lastSeq'
  BY <1>1 DEF DurabilityInv
<1> QED  BY <1>1, <1>2, <1>3, <1>4, <1>5 DEF DurabilityInv

(* Moving the cursor changes nothing but what it deletes,                  *)
LEMMA AckDurable ==
  ASSUME DurabilityInv, Ack \/ AckAdvance  PROVE DurabilityInv'
<1>1. TypeOK'
  BY AckTyped, ReaderTyped DEF DurabilityInv, Reader
<1>2. PICK position : up /\ MoveCursor(position)
  BY DEF Ack, AckAdvance
<1>3. \/ records' = records /\ stable' = stable
      \/ \E S : /\ records' = {r \in records : r.seg \notin S}
               /\ stable' = {r \in stable : r.seg \notin S}
  BY <1>2 DEF MoveCursor, DropConsumed, diskVars
<1> QED  BY <1>1, <1>2, <1>3, RecordsLeaveDurable DEF MoveCursor, syncVars

(* nor does the reader.                                                    *)
LEMMA ReaderDurable ==
  ASSUME DurabilityInv, Reader  PROVE DurabilityInv'
<1>1. TypeOK'
  BY ReaderTyped DEF DurabilityInv
<1>2. CASE Read \/ Abandon
  BY <1>1, <1>2, RecordsLeaveDurable
  DEF Read, Abandon, diskVars, fileVars, syncVars
<1>3. CASE ReaderAcks \/ AckAdvance
  BY <1>3, AckDurable DEF ReaderAcks
<1> QED  BY <1>2, <1>3 DEF Reader

(* The PUBACK does not touch the disk.                                     *)
LEMMA PromiseDurable ==
  ASSUME DurabilityInv, Promise  PROVE DurabilityInv'
BY PromiseTyped, RecordsLeaveDurable
DEF Promise, diskVars, fileVars, syncVars, DurabilityInv

(* A process that ends leaves only what is on the medium, if it is to be    *)
(* durable.                                                                *)
LEMMA DownDurable ==
  ASSUME DurabilityInv, Down, records' \subseteq records, stable' \subseteq records',
         records' \subseteq stable'
  PROVE  DurabilityInv'
<1>1. TypeOK'
  BY DownTyped DEF DurabilityInv
<1>2. /\ ~up' /\ ~fdOpen' /\ lastSeq' = 0 /\ durableSeq' = 0
      /\ timerSync' = NoSync /\ syncWork' = NoSync
  BY DEF Down
<1>3. Covers(timerSync)' /\ Covers(syncWork)'
  BY <1>1, <1>2 DEF Covers, NoSync, TypeOK, Record
<1>4. DurableIsOnDisk' /\ SyncKeepsItsFile'
  BY <1>2 DEF DurableIsOnDisk, SyncKeepsItsFile
<1> QED  BY <1>1, <1>2, <1>3, <1>4 DEF DurabilityInv

(* A shutdown syncs the file being appended to, a power loss keeps what is  *)
(* on the medium; only a process that dies without syncing leaves records   *)
(* that the next open() counts as durable and are not.                      *)
LEMMA FailingDurable ==
  ASSUME DurabilityInv, Failing, "process" \notin Faults  PROVE DurabilityInv'
<1>1. /\ Down /\ records' \subseteq stable'
      /\ records' \subseteq records /\ stable' \subseteq records'
  BY DEF Failing, Close, ProcessCrash, PowerLoss, DurabilityInv, InSegment, TypeOK
<1> QED  BY <1>1, DownDurable

(* Every step keeps the durability invariant.                              *)
LEMMA NextDurable ==
  ASSUME DurabilityInv, [Next]_vars, "process" \notin Faults  PROVE DurabilityInv'
<1>1. CASE Writer
  BY <1>1, AppendDurable, AppendRefusedDurable, RotateFailsDurable DEF Writer
<1>2. CASE UNCHANGED vars
  <2>1. TypeOK'
    BY <1>2, NextTyped DEF DurabilityInv
  <2>2. Covers(timerSync)' /\ Covers(syncWork)' /\ DurableIsOnDisk' /\ SyncKeepsItsFile'
    BY <1>2 DEF vars, diskVars, fileVars, syncVars, DurabilityInv, Covers,
                DurableIsOnDisk, SyncKeepsItsFile
  <2> QED
    BY <1>2, <2>1, <2>2 DEF vars, diskVars, fileVars, syncVars, DurabilityInv, InSegment
<1> QED
  BY <1>1, <1>2, OpenDurable, SyncingDurable, PromiseDurable, ReaderDurable, FailingDurable
  DEF Next

(* durableSeq never claims more than is on the medium, for any number of    *)
(* readings, any segment and batch size, and with every fault but a process *)
(* that dies without its shutdown sync (what that does, the runs show).     *)
THEOREM Durability ==
  ASSUME "process" \notin Faults  PROVE Spec => []DurableIsOnDisk
<1>1. DurabilityInv => DurableIsOnDisk
  BY DEF DurabilityInv
<1>2. DurabilityInv /\ [Next]_vars => DurabilityInv'
  BY NextDurable
<1> QED  BY <1>1, <1>2, InitDurable, PTL DEF Spec

-----------------------------------------------------------------------------
(* Order, with every fault.                                                *)

(* nextSeq() is not behind the clock either.                               *)
LEMMA NextSeqBounds ==
  ASSUME TypeOK
  PROVE  \A seq \in NextSeq : seq \in Nat /\ lastSeq < seq /\ clock <= seq
<1> DEFINE least == Max({lastSeq + 1, clock})
<1>1. lastSeq + 1 \in Int /\ clock \in Int /\ MaxGap \in Nat
  BY JournalAssumption DEF TypeOK, Seq0
<1>2. least \in Int /\ clock <= least
  BY <1>1, MaxOfTwo
<1>3. \A seq \in NextSeq : least <= seq
  <2>1. NextSeq = least .. least + MaxGap
    BY DEF NextSeq
  <2> HIDE DEF least
  <2> QED  BY <1>1, <1>2, <2>1
<1> HIDE DEF least
<1>4. \A seq \in NextSeq : seq \in Nat /\ lastSeq < seq
  BY NextSeqGrows
<1> QED  BY <1>1, <1>2, <1>3, <1>4

-----------------------------------------------------------------------------
(* A number belongs to one record, no lower than the number its file is     *)
(* named by; the file being appended to is the last, and when its          *)
(* descriptor is closed its name has been passed.                          *)
NumbersInv ==
  /\ FilesInOrder
  /\ \A r \in records : r.seg <= r.s
  /\ \A q, r \in records : q.s = r.s => q = r

ActiveIsLast ==
  /\ \A r \in records : r.s <= lastSeq /\ r.seg <= active
  /\ \A r \in records : r.seg < active => r.s < active
  /\ active <= lastSeq + 1 \/ active <= clock
  /\ ~fdOpen => active <= lastSeq

OrderInv == TypeOK /\ NumbersInv /\ (up => ActiveIsLast)

(* Records that leave, or a crash takes, leave the others in order.        *)
LEMMA FewerInOrder ==
  ASSUME OrderInv, TypeOK', records' \subseteq records,
         up' => /\ up /\ active' = active /\ fdOpen' = fdOpen
                /\ lastSeq' = lastSeq /\ clock' = clock
  PROVE  OrderInv'
<1>1. NumbersInv'
  BY DEF OrderInv, NumbersInv, FilesInOrder
<1>2. up' => ActiveIsLast'
  BY DEF OrderInv, ActiveIsLast
<1> QED  BY <1>1, <1>2 DEF OrderInv

(* open(): the new file is named above every number on disk.               *)
LEMMA OpenInOrder ==
  ASSUME OrderInv, Open  PROVE OrderInv'
<1>1. TypeOK'
  BY OpenTyped DEF OrderInv
<1>2. PICK gap \in 0..MaxGap : active' = FirstSeq + gap /\ clock' = active'
  BY DEF Open
<1>3. records' = records /\ lastSeq' = RecoveredSeq /\ fdOpen'
  BY DEF Open, diskVars
<1>4. RecoveredSeq \in Nat /\ \A r \in records : r.s <= RecoveredSeq
  BY RecoveredSeqBounds DEF OrderInv, Seq0
<1>5. FirstSeq \in Int /\ RecoveredSeq + 1 <= FirstSeq
  <2> DEFINE after == RecoveredSeq + 1
  <2>1. after \in Int /\ clock \in Int
    BY <1>4 DEF OrderInv, TypeOK
  <2>2. Max({after, clock}) \in {after, clock} /\ after <= Max({after, clock})
    <3> HIDE DEF after
    <3> QED  BY <2>1, MaxOfTwo
  <2> QED  BY <2>1, <2>2 DEF FirstSeq
<1>6. MaxGap \in Nat
  BY JournalAssumption
<1>7. RecoveredSeq < active' /\ active' \in Int
  BY <1>2, <1>4, <1>5, <1>6
<1>8. \A r \in records : r.seg \in Nat /\ r.s \in Nat /\ r.seg <= r.s
  BY DEF OrderInv, TypeOK, Record, NumbersInv
<1>9. ActiveIsLast'
  BY <1>2, <1>3, <1>4, <1>7, <1>8 DEF ActiveIsLast
<1>a. NumbersInv'
  BY <1>3 DEF OrderInv, NumbersInv, FilesInOrder
<1> QED  BY <1>1, <1>9, <1>a DEF OrderInv

(* A file that is due has been named below the number after the last.      *)
LEMMA DueIsBehind ==
  ASSUME OrderInv, up, NEW aged \in BOOLEAN, RotateDue(fdOpen, ActiveRecords, aged)
  PROVE  active <= lastSeq
<1>1. CASE ~fdOpen
  BY <1>1 DEF OrderInv, ActiveIsLast
<1>2. CASE fdOpen
  <2>1. ActiveRecords > 0
    BY <1>2 DEF RotateDue
  <2>2. InSegment(active) # {}
    BY <2>1, FS_EmptySet DEF ActiveRecords
  <2>3. PICK r \in records : r.seg = active
    BY <2>2 DEF InSegment
  <2>4. r.seg \in Nat /\ r.s \in Nat /\ lastSeq \in Nat
    BY DEF OrderInv, TypeOK, Record, Seq0
  <2> QED  BY <2>3, <2>4 DEF OrderInv, NumbersInv, ActiveIsLast
<1> QED  BY <1>1, <1>2

(* append(): a number above every other, in a file that comes after every  *)
(* other, the one it is in or one that it is named by.                     *)
LEMMA AppendInOrder ==
  ASSUME OrderInv, NEW rd \in Readings, NEW aged \in BOOLEAN, Append(rd, aged)
  PROVE  OrderInv'
<1> DEFINE due == RotateDue(fdOpen, ActiveRecords, aged)
           seg == IF due THEN lastSeq + 1 ELSE active
<1>1. PICK seq \in NextSeq :
        /\ Write(rd, seg, seq)
        /\ \/ active' = seg
           \/ active' = seq + 1 /\ fdOpen'
  BY DEF Append
<1>2. TypeOK /\ TypeOK' /\ up
  BY AppendTyped DEF OrderInv, Append
<1>3. seq \in Nat /\ lastSeq < seq /\ clock <= seq /\ lastSeq \in Nat /\ active \in Nat /\ clock \in Nat
  BY <1>2, NextSeqBounds DEF TypeOK, Seq0
<1> DEFINE new == [seg |-> seg, s |-> seq, rd |-> rd]
<1>4. records' = records \cup {new} /\ lastSeq' = seq /\ clock' = clock /\ up' = up
  BY <1>1 DEF Write
<1>5. new.seg = seg /\ new.s = seq
  OBVIOUS
<1>6. seg \in Nat /\ active <= seg /\ seg <= seq /\ (seg = active \/ lastSeq < seg)
  <2>1. CASE due
    BY <1>2, <1>3, <2>1, DueIsBehind
  <2>2. CASE ~due
    BY <1>2, <1>3, <2>2 DEF OrderInv, ActiveIsLast
  <2> QED  BY <2>1, <2>2
<1> HIDE DEF due, seg, new
<1>7. \A r \in records : /\ r.seg \in Nat /\ r.s \in Nat /\ r.s <= lastSeq /\ r.seg <= active
                         /\ r.seg <= r.s /\ (r.seg < active => r.s < active)
  BY <1>2 DEF OrderInv, ActiveIsLast, NumbersInv, TypeOK, Record
<1>8. \A r \in records : r.s < new.s /\ (r.seg < new.seg => r.s < new.seg) /\ r.seg <= new.seg
  BY <1>3, <1>5, <1>6, <1>7
<1>9. NumbersInv'
  <2>1. FilesInOrder'
    BY <1>3, <1>4, <1>5, <1>6, <1>7, <1>8 DEF OrderInv, NumbersInv, FilesInOrder
  <2>2. \A r \in records' : r.seg <= r.s
    BY <1>4, <1>5, <1>6, <1>7
  <2>3. \A q, r \in records' : q.s = r.s => q = r
    BY <1>3, <1>4, <1>5, <1>7, <1>8 DEF OrderInv, NumbersInv
  <2> QED  BY <2>1, <2>2, <2>3 DEF NumbersInv
<1>a. ActiveIsLast'
  <2>1. CASE active' = seg
    BY <1>3, <1>4, <1>5, <1>6, <1>7, <1>8, <2>1 DEF ActiveIsLast
  <2>2. CASE active' = seq + 1 /\ fdOpen'
    BY <1>3, <1>4, <1>5, <1>6, <1>7, <1>8, <2>2 DEF ActiveIsLast
  <2> QED  BY <1>1, <2>1, <2>2
<1> QED  BY <1>2, <1>9, <1>a DEF OrderInv

(* A refused append() uses a number up, and may leave the file.            *)
LEMMA AppendRefusedInOrder ==
  ASSUME OrderInv, NEW aged \in BOOLEAN, AppendRefused(aged)
  PROVE  OrderInv'
<1> DEFINE due == RotateDue(fdOpen, ActiveRecords, aged)
<1>1. /\ active' = IF due THEN lastSeq + 1 ELSE active
      /\ fdOpen' /\ up /\ records' = records /\ clock' = clock /\ lastSeq' \in NextSeq
  BY DEF AppendRefused
<1>2. TypeOK /\ TypeOK'
  BY AppendRefusedTyped DEF OrderInv
<1>3. lastSeq' \in Nat /\ lastSeq < lastSeq' /\ lastSeq \in Nat /\ active \in Nat /\ clock \in Nat
  BY <1>1, <1>2, NextSeqBounds DEF TypeOK, Seq0
<1>4. due => active <= lastSeq
  BY <1>1, DueIsBehind
<1> HIDE DEF due
<1>5. \A r \in records : /\ r.seg \in Nat /\ r.s \in Nat /\ r.s <= lastSeq /\ r.seg <= active
                         /\ (r.seg < active => r.s < active)
  BY <1>1, <1>2 DEF OrderInv, ActiveIsLast, TypeOK, Record
<1>6. active <= lastSeq + 1 \/ active <= clock
  BY <1>1 DEF OrderInv, ActiveIsLast
<1>7. /\ active' = active \/ (active' = lastSeq + 1 /\ active <= lastSeq)
      /\ clock' = clock
  BY <1>1, <1>4
<1>9. active' <= lastSeq' + 1 \/ active' <= clock'
  BY <1>3, <1>6, <1>7
<1>a. \A r \in records : /\ r.s <= lastSeq' /\ r.seg <= active'
                         /\ (r.seg < active' => r.s < active')
  BY <1>3, <1>5, <1>7
<1>b. ActiveIsLast'
  BY <1>1, <1>9, <1>a DEF ActiveIsLast
<1>8. NumbersInv'
  BY <1>1 DEF OrderInv, NumbersInv, FilesInOrder
<1> QED  BY <1>2, <1>8, <1>b DEF OrderInv

(* A rotation that fails writes nothing.                                   *)
LEMMA RotateFailsInOrder ==
  ASSUME OrderInv, NEW aged \in BOOLEAN, RotateFails(aged)
  PROVE  OrderInv'
<1>1. /\ up /\ records' = records /\ active' = active /\ lastSeq' = lastSeq /\ clock' = clock
  BY DEF RotateFails
<1>2. TypeOK'
  BY RotateFailsTyped DEF OrderInv
<1>3. active <= lastSeq
  BY <1>1, DueIsBehind DEF RotateFails
<1>4. ActiveIsLast'
  BY <1>1, <1>3 DEF OrderInv, ActiveIsLast
<1>5. NumbersInv'
  BY <1>1 DEF OrderInv, NumbersInv, FilesInOrder
<1> QED  BY <1>2, <1>4, <1>5 DEF OrderInv

(* Moving the cursor takes records away and changes nothing else here.     *)
LEMMA MoveCursorInOrder ==
  ASSUME OrderInv, TypeOK', up, NEW position, MoveCursor(position)
  PROVE  OrderInv'
<1>1. records' \subseteq records
  BY DEF MoveCursor, DropConsumed, diskVars
<1> QED  BY <1>1, FewerInOrder DEF MoveCursor

(* Every step of the journal, or of what is composed with it: its reader    *)
(* may acknowledge, and the process end at any time.                       *)
LEMMA StepInOrder ==
  ASSUME OrderInv, [Next]_vars \/ Ack \/ (Down /\ UNCHANGED <<records, stable>>)
  PROVE  OrderInv'
<1>1. CASE Open
  BY <1>1, OpenInOrder
<1>2. CASE Writer
  BY <1>2, AppendInOrder, AppendRefusedInOrder, RotateFailsInOrder DEF Writer
<1>3. CASE Ack \/ AckAdvance
  <2>1. TypeOK'
    BY <1>3, AckTyped, ReaderTyped DEF OrderInv, Reader
  <2> QED  BY <1>3, <2>1, MoveCursorInOrder DEF Ack, AckAdvance
<1>4. CASE Syncing \/ Promise \/ Read \/ Abandon
  <2>1. TypeOK'
    BY <1>4, NextTyped DEF OrderInv, Next, Reader
  <2> QED
    BY <1>4, <2>1, FewerInOrder
    DEF Syncing, TimerFires, TimerSyncEnds, SyncStarts, SyncEnds, Promise, Read, Abandon,
        diskVars, fileVars
<1>5. CASE Failing \/ (Down /\ UNCHANGED <<records, stable>>)
  <2>1. TypeOK'
    BY <1>5, FailingTyped, DownTyped DEF OrderInv, TypeOK
  <2>2. ~up' /\ records' \subseteq records
    BY <1>5 DEF Failing, Close, ProcessCrash, PowerLoss, Down, OrderInv, TypeOK
  <2> QED  BY <2>1, <2>2, FewerInOrder
<1>6. CASE UNCHANGED vars
  BY <1>6, NextTyped, FewerInOrder DEF vars, diskVars, fileVars, OrderInv
<1> QED  BY <1>1, <1>2, <1>3, <1>4, <1>5, <1>6 DEF Next, Reader, ReaderAcks

(* Before the first open() there is nothing to be out of order.            *)
LEMMA InitInOrder == Init => OrderInv
BY InitTyped DEF Init, OrderInv, NumbersInv, FilesInOrder

(* The order of the files is the order of the numbers, for any sizes and    *)
(* every fault: a clock that is set back, refused appends and deletions     *)
(* that fail included.                                                     *)
THEOREM Order == Spec => []FilesInOrder
<1>1. OrderInv => FilesInOrder
  BY DEF OrderInv, NumbersInv
<1>2. OrderInv /\ [Next]_vars => OrderInv'
  BY StepInOrder
<1> QED  BY <1>1, <1>2, InitInOrder, PTL DEF Spec

-----------------------------------------------------------------------------
(* No number given out so far is above both the last one and the clock.    *)
StampsInv ==
  /\ TypeOK
  /\ ~up => lastSeq = 0
  /\ \A rd \in Readings : stampOf[rd] <= lastSeq \/ stampOf[rd] < clock

(* Without a clock that is set back no step takes both behind a number.    *)
LEMMA StepStamps ==
  ASSUME StampsInv, [Next]_vars, "clock" \notin Faults
  PROVE  /\ StampsInv'
         /\ \A rd \in Readings : stampOf'[rd] # stampOf[rd] =>
              \A q \in Readings : stampOf[q] < stampOf'[rd]
<1>1. TypeOK /\ TypeOK'
  BY NextTyped DEF StampsInv
<1>2. /\ lastSeq \in Nat /\ clock \in Nat /\ lastSeq' \in Nat /\ clock' \in Nat
      /\ \A rd \in Readings : stampOf[rd] \in Nat
  BY <1>1 DEF TypeOK, Seq0
<1>3. CASE \E rd \in Readings, aged \in BOOLEAN : Append(rd, aged)
  <2>1. PICK rd \in Readings, seq \in NextSeq :
          /\ lastSeq' = seq /\ stampOf' = [stampOf EXCEPT ![rd] = seq]
          /\ clock' = clock /\ up' = up /\ up
    BY <1>3 DEF Append, Write
  <2>2. seq \in Nat /\ lastSeq < seq /\ clock <= seq
    BY <1>1, NextSeqBounds
  <2>3. \A q \in Readings : stampOf[q] < seq
    BY <1>2, <2>2 DEF StampsInv
  <2>4. \A q \in Readings : stampOf'[q] = IF q = rd THEN seq ELSE stampOf[q]
    BY <1>1, <2>1 DEF TypeOK
  <2>5. \A q \in Readings : stampOf'[q] <= lastSeq'
    BY <1>2, <2>1, <2>2, <2>3, <2>4
  <2> QED  BY <1>1, <2>1, <2>3, <2>4, <2>5 DEF StampsInv
<1>4. CASE Open
  <2>1. /\ up' /\ stampOf' = stampOf /\ ~up
        /\ \E gap \in 0..MaxGap : clock' = FirstSeq + gap
    BY <1>4 DEF Open, history
  <2>2. FirstSeq \in Int /\ clock <= FirstSeq
    <3> DEFINE after == RecoveredSeq + 1
    <3>1. after \in Int /\ clock \in Int
      BY <1>1, <1>2, RecoveredSeqBounds DEF Seq0
    <3>2. Max({after, clock}) \in {after, clock} /\ clock <= Max({after, clock})
      <4> HIDE DEF after
      <4> QED  BY <3>1, MaxOfTwo
    <3> QED  BY <3>1, <3>2 DEF FirstSeq
  <2>3. clock <= clock'
    BY <1>2, <2>1, <2>2, JournalAssumption
  <2>4. \A q \in Readings : stampOf[q] <= 0 \/ stampOf[q] < clock
    BY <2>1 DEF StampsInv
  <2>5. \A q \in Readings : stampOf[q] <= lastSeq' \/ stampOf[q] < clock'
    BY <1>2, <2>3, <2>4
  <2> QED  BY <1>1, <2>1, <2>5 DEF StampsInv
<1>5. CASE Failing
  <2>1. Down
    BY <1>5 DEF Failing, Close, ProcessCrash, PowerLoss
  <2> DEFINE after == lastSeq + 1
  <2>2. clock' = Max({clock, after}) /\ stampOf' = stampOf /\ lastSeq' = 0 /\ ~up'
    BY <2>1 DEF Down, history
  <2>3. clock <= clock' /\ after <= clock'
    <3>1. clock \in Int /\ after \in Int
      BY <1>2
    <3> HIDE DEF after
    <3> QED  BY <2>2, <3>1, MaxOfTwo
  <2>4. \A q \in Readings : stampOf[q] < clock'
    BY <1>2, <2>3 DEF StampsInv
  <2> QED  BY <1>1, <2>2, <2>4 DEF StampsInv
<1>6. CASE \E aged \in BOOLEAN : AppendRefused(aged) \/ RotateFails(aged)
  <2>0. PICK aged \in BOOLEAN : AppendRefused(aged) \/ RotateFails(aged)
    BY <1>6
  <2>1. /\ up /\ up' /\ stampOf' = stampOf /\ clock' = clock
        /\ lastSeq' = lastSeq \/ lastSeq' \in NextSeq
    <3>1. CASE AppendRefused(aged)
      BY <3>1 DEF AppendRefused, history
    <3>2. CASE RotateFails(aged)
      BY <3>2 DEF RotateFails, history
    <3> QED  BY <2>0, <3>1, <3>2
  <2>2. lastSeq <= lastSeq'
    BY <1>1, <1>2, <2>1, NextSeqBounds
  <2> QED  BY <1>1, <1>2, <2>1, <2>2 DEF StampsInv
<1>7. CASE Syncing \/ Promise \/ Reader \/ UNCHANGED vars
  <2>1. up' = up /\ stampOf' = stampOf /\ clock' = clock /\ lastSeq' = lastSeq
    BY <1>7
    DEF Syncing, TimerFires, TimerSyncEnds, SyncStarts, SyncEnds, Promise, Reader, Read,
        ReaderAcks, Ack, AckAdvance, MoveCursor, Abandon, vars, history
  <2> QED  BY <1>1, <2>1 DEF StampsInv
<1> QED  BY <1>3, <1>4, <1>5, <1>6, <1>7 DEF Next, Writer

(* The number of a record is above every number given out before, across    *)
(* restarts and lost files, for any sizes and every fault but a clock that  *)
(* is set back.                                                            *)
THEOREM StampsGrow == ASSUME "clock" \notin Faults  PROVE Spec => StampsOnlyGrow
<1>1. Init => StampsInv
  <2> SUFFICES ASSUME Init  PROVE StampsInv
    OBVIOUS
  <2>1. TypeOK
    BY InitTyped
  <2> QED  BY <2>1 DEF Init, StampsInv
<1>2. StampsInv /\ [Next]_vars => StampsInv'
  BY StepStamps
<1>3. StampsInv /\ [Next]_vars =>
        [\A rd \in Readings : stampOf'[rd] # stampOf[rd] =>
           \A q \in Readings : stampOf[q] < stampOf'[rd]]_vars
  BY StepStamps
<1> QED  BY <1>1, <1>2, <1>3, PTL DEF Spec, StampsOnlyGrow

-----------------------------------------------------------------------------
(* durableSeq is not ahead of the numbers, has them all while no file is    *)
(* open to append to, and has those of every file that was left.           *)
DurableBounds ==
  /\ durableSeq <= lastSeq
  /\ timerSync.through <= lastSeq /\ syncWork.through <= lastSeq
  /\ up /\ ~fdOpen => durableSeq = lastSeq
  /\ up => \A r \in records : r.seg < active => r.s <= durableSeq

BoundsInv ==
  /\ OrderInv /\ DurableBounds /\ SyncKeepsItsFile
  /\ ~up => timerSync = NoSync /\ syncWork = NoSync

(* The numbers these bounds are about.                                     *)
LEMMA BoundsAreNumbers ==
  ASSUME TypeOK
  PROVE  /\ lastSeq \in Nat /\ durableSeq \in Nat /\ active \in Nat
         /\ timerSync.through \in Nat /\ syncWork.through \in Nat
         /\ \A r \in records : r.s \in Nat /\ r.seg \in Nat
BY DEF TypeOK, Fsync, Seq0, Record

(* What leaving a file does to durableSeq.                                 *)
LEMMA CloseActiveBounds ==
  ASSUME TypeOK, DurableBounds, up, NEW due \in BOOLEAN
  PROVE  CloseActive(due).durableSeq = IF due THEN lastSeq ELSE durableSeq
BY DEF CloseActive, DurableBounds, TypeOK

(* append(), in terms of the file it writes to; while syncThrough() has an  *)
(* fsync in flight that is the one it had.                                 *)
LEMMA AppendParts ==
  ASSUME TypeOK, DurableBounds, NEW rd \in Readings, NEW aged \in BOOLEAN, Append(rd, aged)
  PROVE  \E due \in BOOLEAN, seq \in NextSeq :
           LET seg == IF due THEN lastSeq + 1 ELSE active
           IN  /\ Write(rd, seg, seq)
               /\ \/ active' = seg /\ durableSeq' = (IF due THEN lastSeq ELSE durableSeq) /\ fdOpen'
                  \/ active' \in {seg, seq + 1} /\ durableSeq' = seq
               /\ syncWork # NoSync => active' = active /\ fdOpen'
<1> DEFINE due == RotateDue(fdOpen, ActiveRecords, aged)
           seg == IF due THEN lastSeq + 1 ELSE active
           count == IF due THEN 1 ELSE ActiveRecords + 1
           again == RotateDue(TRUE, count, aged /\ ~due)
<1>1. due \in BOOLEAN /\ up /\ stampOf[rd] = 0
  BY DEF RotateDue, Append
<1>2. CloseActive(due).durableSeq = IF due THEN lastSeq ELSE durableSeq
  <2> HIDE DEF due
  <2> QED  BY <1>1, CloseActiveBounds
<1>3. PICK seq \in NextSeq :
        /\ Write(rd, seg, seq)
        /\ \/ active' = seg /\ durableSeq' = CloseActive(due).durableSeq /\ fdOpen'
           \/ again /\ active' \in {seg, seq + 1} /\ durableSeq' = seq
  BY DEF Append
<1>4. syncWork # NoSync => ~due /\ ~again
  BY DEF RotateDue
<1> HIDE DEF due, again
<1> QED  BY <1>1, <1>2, <1>3, <1>4

(* append() stays within the bounds.                                       *)
LEMMA AppendInBounds ==
  ASSUME BoundsInv, NEW rd \in Readings, NEW aged \in BOOLEAN, Append(rd, aged)
  PROVE  BoundsInv'
<1>1. TypeOK /\ DurableBounds /\ OrderInv /\ up /\ SyncKeepsItsFile
  BY DEF BoundsInv, OrderInv, Append
<1>2. PICK due \in BOOLEAN, seq \in NextSeq :
        LET seg == IF due THEN lastSeq + 1 ELSE active
        IN  /\ Write(rd, seg, seq)
            /\ \/ active' = seg /\ durableSeq' = (IF due THEN lastSeq ELSE durableSeq) /\ fdOpen'
               \/ active' \in {seg, seq + 1} /\ durableSeq' = seq
            /\ syncWork # NoSync => active' = active /\ fdOpen'
  BY <1>1, AppendParts
<1> DEFINE seg == IF due THEN lastSeq + 1 ELSE active
           new == [seg |-> seg, s |-> seq, rd |-> rd]
<1>3. /\ records' = records \cup {new} /\ lastSeq' = seq /\ up' = up
      /\ timerSync' = timerSync /\ syncWork' = syncWork
  BY <1>2 DEF Write
<1>4. \/ active' = seg /\ durableSeq' = (IF due THEN lastSeq ELSE durableSeq) /\ fdOpen'
      \/ active' \in {seg, seq + 1} /\ durableSeq' = seq
  BY <1>2
<1>5. new.seg = seg /\ new.s = seq
  OBVIOUS
<1>6. (seg = active /\ ~due) \/ (seg = lastSeq + 1 /\ due)
  OBVIOUS
<1> HIDE DEF seg, new
<1>7. OrderInv'
  BY <1>1, AppendInOrder
<1>8. /\ seq \in Nat /\ lastSeq < seq /\ lastSeq \in Nat /\ durableSeq \in Nat
      /\ active \in Nat /\ durableSeq <= lastSeq
      /\ timerSync.through \in Nat /\ syncWork.through \in Nat
  BY <1>1, NextSeqBounds, BoundsAreNumbers DEF DurableBounds
<1>9. \A r \in records : r.s \in Nat /\ r.seg \in Nat /\ r.s <= lastSeq /\ r.seg <= active
  BY <1>1, BoundsAreNumbers DEF OrderInv, ActiveIsLast
<1>a. DurableBounds'
  <2>1. durableSeq' <= lastSeq' /\ (~fdOpen' => durableSeq' = lastSeq')
    BY <1>3, <1>4, <1>8
  <2>2. timerSync'.through <= lastSeq' /\ syncWork'.through <= lastSeq'
    BY <1>1, <1>3, <1>8 DEF DurableBounds
  <2>3. ASSUME NEW r \in records', r.seg < active'  PROVE r.s <= durableSeq'
    <3>1. CASE durableSeq' = seq
      BY <1>3, <1>5, <1>8, <1>9, <3>1
    <3>2. CASE durableSeq' # seq
      <4>1. r \in records /\ active' = seg /\ durableSeq' = (IF due THEN lastSeq ELSE durableSeq)
        BY <1>3, <1>4, <1>5, <1>6, <1>8, <2>3, <3>2
      <4> QED  BY <1>1, <1>6, <1>8, <1>9, <2>3, <4>1 DEF DurableBounds
    <3> QED  BY <3>1, <3>2
  <2> QED  BY <2>1, <2>2, <2>3 DEF DurableBounds
<1>b. SyncKeepsItsFile'
  BY <1>1, <1>2, <1>3 DEF SyncKeepsItsFile, NoSync
<1> QED  BY <1>1, <1>3, <1>7, <1>a, <1>b DEF BoundsInv

(* A refused append() and a rotation that fails: the file is left, synced,  *)
(* or it is not; it is not while an fsync is in flight.                    *)
LEMMA RefusedParts ==
  ASSUME TypeOK, DurableBounds, NEW aged \in BOOLEAN, AppendRefused(aged) \/ RotateFails(aged)
  PROVE  /\ records' = records /\ up' = up /\ stateSeq' = stateSeq /\ snapshot' = snapshot
         /\ timerSync' = timerSync /\ syncWork' = syncWork
         /\ stampOf' = stampOf /\ promised' = promised
         /\ lastSeq' \in Nat /\ lastSeq <= lastSeq'
         /\ \/ /\ durableSeq' = durableSeq /\ active' = active
               /\ fdOpen' \/ (fdOpen' = fdOpen /\ lastSeq' = lastSeq)
            \/ durableSeq' = lastSeq /\ (fdOpen' \/ lastSeq' = lastSeq)
         /\ syncWork # NoSync => active' = active /\ fdOpen'
<1>1. /\ up /\ records' = records /\ up' = up /\ stateSeq' = stateSeq /\ snapshot' = snapshot
      /\ timerSync' = timerSync /\ syncWork' = syncWork
      /\ stampOf' = stampOf /\ promised' = promised
  BY DEF AppendRefused, RotateFails, syncVars, history
<1>2. CASE AppendRefused(aged)
  <2> DEFINE due == RotateDue(fdOpen, ActiveRecords, aged)
  <2>1. /\ active' = IF due THEN lastSeq + 1 ELSE active
        /\ durableSeq' = CloseActive(due).durableSeq
        /\ fdOpen' /\ lastSeq' \in NextSeq
    BY <1>2 DEF AppendRefused
  <2>2. due \in BOOLEAN /\ (syncWork # NoSync => ~due)
    BY DEF RotateDue
  <2>3. lastSeq' \in Nat /\ lastSeq <= lastSeq'
    BY <2>1, NextSeqBounds, BoundsAreNumbers
  <2> HIDE DEF due
  <2> QED  BY <1>1, <2>1, <2>2, <2>3, CloseActiveBounds
<1>3. CASE RotateFails(aged)
  <2>1. CloseActive(TRUE).durableSeq = lastSeq
    BY <1>1, CloseActiveBounds
  <2>2. active' = active /\ lastSeq' = lastSeq /\ syncWork = NoSync
    BY <1>3 DEF RotateFails, RotateDue
  <2>3. \/ durableSeq' = durableSeq /\ fdOpen' = fdOpen
        \/ durableSeq' = CloseActive(TRUE).durableSeq
    BY <1>3 DEF RotateFails
  <2>4. lastSeq' \in Nat /\ lastSeq <= lastSeq'
    BY <2>2, BoundsAreNumbers
  <2> QED  BY <1>1, <2>1, <2>2, <2>3, <2>4
<1> QED  BY <1>2, <1>3

(* A refused append() and a rotation that fails stay within the bounds.    *)
LEMMA RefusedInBounds ==
  ASSUME BoundsInv, NEW aged \in BOOLEAN, AppendRefused(aged) \/ RotateFails(aged)
  PROVE  BoundsInv'
<1>1. TypeOK /\ DurableBounds /\ OrderInv /\ up /\ SyncKeepsItsFile
  BY DEF BoundsInv, OrderInv, AppendRefused, RotateFails
<1>2. /\ records' = records /\ up' = up /\ timerSync' = timerSync /\ syncWork' = syncWork
      /\ lastSeq' \in Nat /\ lastSeq <= lastSeq'
      /\ \/ /\ durableSeq' = durableSeq /\ active' = active
            /\ fdOpen' \/ (fdOpen' = fdOpen /\ lastSeq' = lastSeq)
         \/ durableSeq' = lastSeq /\ (fdOpen' \/ lastSeq' = lastSeq)
      /\ syncWork # NoSync => active' = active /\ fdOpen'
  BY <1>1, RefusedParts
<1>3. /\ lastSeq \in Nat /\ durableSeq \in Nat /\ durableSeq <= lastSeq
      /\ timerSync.through \in Nat /\ syncWork.through \in Nat
      /\ timerSync.through <= lastSeq /\ syncWork.through <= lastSeq
      /\ \A r \in records : r.s \in Nat /\ r.s <= lastSeq
  BY <1>1, BoundsAreNumbers DEF DurableBounds, OrderInv, ActiveIsLast
<1>4. DurableBounds'
  BY <1>1, <1>2, <1>3 DEF DurableBounds
<1>5. SyncKeepsItsFile'
  BY <1>1, <1>2 DEF SyncKeepsItsFile, NoSync
<1>6. OrderInv'
  BY <1>1, AppendRefusedInOrder, RotateFailsInOrder
<1> QED  BY <1>1, <1>2, <1>4, <1>5, <1>6 DEF BoundsInv

(* A finished fsync moves durableSeq to no more than the last number; one   *)
(* that starts is of the active file, which is open: with none open there  *)
(* is no record above durableSeq.                                          *)
LEMMA SyncingParts ==
  ASSUME BoundsInv, Syncing
  PROVE  /\ durableSeq <= durableSeq' /\ durableSeq' <= lastSeq
         /\ timerSync' \in {timerSync, NoSync} \/ (up /\ timerSync' = SyncTarget)
         /\ syncWork' \in {syncWork, NoSync} \/ (up /\ fdOpen /\ syncWork' = SyncTarget)
<1>1. TypeOK /\ DurableBounds
  BY DEF BoundsInv, OrderInv
<1>2. /\ lastSeq \in Nat /\ durableSeq \in Nat /\ durableSeq <= lastSeq
      /\ timerSync.through \in Nat /\ syncWork.through \in Nat
      /\ timerSync.through <= lastSeq /\ syncWork.through <= lastSeq
  BY <1>1, BoundsAreNumbers DEF DurableBounds
<1>3. ASSUME NEW sync \in {timerSync, syncWork}, FsyncDone(sync)
      PROVE  durableSeq <= durableSeq' /\ durableSeq' <= lastSeq
  <2> DEFINE S == {durableSeq, sync.through}
  <2>1. S \in SUBSET (0..MaxSeq) /\ S # {} /\ MaxSeq \in Nat /\ durableSeq \in S
    BY <1>1, JournalAssumption DEF TypeOK, Fsync, Seq0
  <2>2. Max(S) \in S /\ \A x \in S : x <= Max(S)
    <3> HIDE DEF S
    <3> QED  BY <2>1, MaxIsGreatest
  <2>3. durableSeq' = Max(S)
    BY <1>3 DEF FsyncDone
  <2>4. \A x \in S : x \in Nat /\ x <= lastSeq
    BY <1>2
  <2> HIDE DEF S
  <2> QED  BY <2>1, <2>2, <2>3, <2>4
<1>4. durableSeq <= durableSeq' /\ durableSeq' <= lastSeq
  <2>1. \/ durableSeq' = durableSeq
        \/ \E sync \in {timerSync, syncWork} : FsyncDone(sync)
    BY DEF Syncing, TimerFires, TimerSyncEnds, SyncStarts, SyncEnds, FsyncFails
  <2> QED  BY <1>2, <1>3, <2>1
<1>5. SyncStarts => fdOpen
  <2> SUFFICES ASSUME SyncStarts, ~fdOpen  PROVE FALSE
    OBVIOUS
  <2>1. PICK r \in records : up /\ r.s > durableSeq
    BY DEF SyncStarts
  <2>2. durableSeq = lastSeq /\ r.s \in Nat /\ r.s <= lastSeq
    BY <1>1, <2>1, BoundsAreNumbers DEF DurableBounds, BoundsInv, OrderInv, ActiveIsLast
  <2> QED  BY <1>2, <2>1, <2>2
<1> QED
  BY <1>4, <1>5 DEF Syncing, TimerFires, TimerSyncEnds, SyncStarts, SyncEnds

(* Starting and finishing fsyncs stays within the bounds.                  *)
LEMMA SyncingInBounds ==
  ASSUME BoundsInv, Syncing  PROVE BoundsInv'
<1>1. TypeOK /\ DurableBounds /\ SyncKeepsItsFile
  BY DEF BoundsInv, OrderInv
<1>2. /\ records' = records /\ up' = up /\ lastSeq' = lastSeq /\ active' = active
      /\ fdOpen' = fdOpen
  BY DEF Syncing, TimerFires, TimerSyncEnds, SyncStarts, SyncEnds, diskVars, fileVars
<1>3. OrderInv'
  BY StepInOrder DEF BoundsInv, Next
<1>4. /\ durableSeq <= durableSeq' /\ durableSeq' <= lastSeq
      /\ timerSync' \in {timerSync, NoSync} \/ (up /\ timerSync' = SyncTarget)
      /\ syncWork' \in {syncWork, NoSync} \/ (up /\ fdOpen /\ syncWork' = SyncTarget)
  BY SyncingParts
<1>5. /\ NoSync.through = 0 /\ SyncTarget.through = lastSeq /\ SyncTarget.seg = active
  BY DEF NoSync, SyncTarget
<1>6. /\ lastSeq \in Nat /\ durableSeq \in Nat /\ durableSeq' \in Nat
      /\ \A r \in records : r.s \in Nat
  BY <1>1, <1>3, BoundsAreNumbers DEF OrderInv, TypeOK, Seq0
<1>7. timerSync'.through <= lastSeq /\ syncWork'.through <= lastSeq
  BY <1>1, <1>4, <1>5, <1>6 DEF DurableBounds
<1>8. up /\ ~fdOpen => durableSeq' = lastSeq
  BY <1>1, <1>4, <1>6 DEF DurableBounds
<1>9. up => \A r \in records : r.seg < active => r.s <= durableSeq'
  BY <1>1, <1>4, <1>6 DEF DurableBounds
<1>a. DurableBounds'
  BY <1>2, <1>4, <1>7, <1>8, <1>9 DEF DurableBounds
<1>b. SyncKeepsItsFile'
  BY <1>1, <1>2, <1>4, <1>5 DEF SyncKeepsItsFile
<1>c. ~up' => timerSync' = NoSync /\ syncWork' = NoSync
  BY <1>2, <1>4 DEF BoundsInv
<1> QED  BY <1>3, <1>a, <1>b, <1>c DEF BoundsInv

(* Every step stays within the bounds, whatever the faults.                *)
LEMMA StepInBounds ==
  ASSUME BoundsInv, [Next]_vars \/ Ack  PROVE BoundsInv'
<1>1. TypeOK /\ DurableBounds /\ SyncKeepsItsFile /\ OrderInv'
  BY StepInOrder DEF BoundsInv, OrderInv
<1>2. CASE Open
  <2>1. /\ records' = records /\ up' /\ fdOpen' /\ ~up
        /\ lastSeq' = RecoveredSeq /\ durableSeq' = RecoveredSeq
        /\ timerSync' = timerSync /\ syncWork' = syncWork
    BY <1>2 DEF Open, diskVars, syncVars
  <2>2. RecoveredSeq \in Nat /\ \A r \in records : r.s <= RecoveredSeq
    BY <1>1, RecoveredSeqBounds DEF Seq0
  <2>3. timerSync = NoSync /\ syncWork = NoSync /\ NoSync.through = 0
    BY <2>1 DEF BoundsInv, NoSync
  <2>4. DurableBounds' /\ SyncKeepsItsFile'
    BY <2>1, <2>2, <2>3 DEF DurableBounds, SyncKeepsItsFile
  <2> QED  BY <1>1, <2>1, <2>4 DEF BoundsInv
<1>3. CASE Writer
  BY <1>3, AppendInBounds, RefusedInBounds DEF Writer
<1>4. CASE Syncing
  BY <1>4, SyncingInBounds
<1>5. CASE Promise \/ Read \/ Ack \/ AckAdvance \/ Abandon \/ UNCHANGED vars
  <2>1. /\ up' = up /\ lastSeq' = lastSeq /\ durableSeq' = durableSeq /\ active' = active
        /\ fdOpen' = fdOpen /\ timerSync' = timerSync /\ syncWork' = syncWork
        /\ records' \subseteq records
    BY <1>5
    DEF Promise, Read, Ack, AckAdvance, MoveCursor, DropConsumed, Abandon, vars, diskVars,
        fileVars, syncVars
  <2>2. DurableBounds' /\ SyncKeepsItsFile'
    BY <1>1, <2>1 DEF DurableBounds, SyncKeepsItsFile, NoSync
  <2> QED  BY <1>1, <2>1, <2>2 DEF BoundsInv
<1>6. CASE Failing
  <2>1. /\ ~up' /\ lastSeq' = 0 /\ durableSeq' = 0 /\ timerSync' = NoSync /\ syncWork' = NoSync
    BY <1>6 DEF Failing, Close, ProcessCrash, PowerLoss, Down
  <2>2. NoSync.through = 0
    BY DEF NoSync
  <2>3. DurableBounds' /\ SyncKeepsItsFile'
    BY <2>1, <2>2 DEF DurableBounds, SyncKeepsItsFile, NoSync
  <2> QED  BY <1>1, <2>1, <2>3 DEF BoundsInv
<1> QED  BY <1>2, <1>3, <1>4, <1>5, <1>6 DEF Next, Reader, ReaderAcks

(* The bounds hold before the first open().                                *)
LEMMA InitInBounds == Init => BoundsInv
BY InitInOrder DEF Init, BoundsInv, DurableBounds, SyncKeepsItsFile, NoSync

(* syncThrough()'s fsync is never on a descriptor that a rotation closed,   *)
(* for any sizes and every fault: rotations that fail half way, fsyncs      *)
(* that fail and processes that die unsynced included.                     *)
THEOREM SyncFile == Spec => []SyncKeepsItsFile
<1>1. BoundsInv => SyncKeepsItsFile
  BY DEF BoundsInv
<1>2. BoundsInv /\ [Next]_vars => BoundsInv'
  BY StepInBounds
<1> QED  BY <1>1, <1>2, InitInBounds, PTL DEF Spec

-----------------------------------------------------------------------------
(* What is read from the journal again.                                    *)

(* What read() may return is finite: each record has a number of its own.  *)
LEMMA UnreadIsFinite ==
  ASSUME OrderInv, NEW S \in SUBSET records  PROVE IsFiniteSet(S)
<1> DEFINE number == [r \in S |-> r.s]
<1>1. IsFiniteSet(1..MaxSeq)
  BY FS_Interval, JournalAssumption
<1>2. \A r \in S : r.s \in 1..MaxSeq
  BY DEF OrderInv, TypeOK, Record
<1>3. number \in Injection(S, 1..MaxSeq)
  BY <1>2 DEF Injection, IsInjective, OrderInv, NumbersInv
<1> HIDE DEF number
<1> QED  BY <1>1, <1>3, FS_Injection

(* A batch is the first of what is unread, and all of it unless it is full. *)
LEMMA BatchIsFirst ==
  ASSUME OrderInv
  PROVE  /\ \A b \in Batch : \A r \in Unread : r.s <= b.s => r \in Batch
         /\ Cardinality(Batch) # BatchSize => Batch = Unread
<1> DEFINE Before(r) == {q \in Unread : q.s < r.s}
<1>1. Unread \subseteq records /\ Batch \subseteq Unread
  BY DEF Unread, Listed, Batch
<1>2. IsFiniteSet(Unread) /\ IsFiniteSet(Batch) /\ \A r \in Unread : IsFiniteSet(Before(r))
  BY <1>1, UnreadIsFinite
<1>3. \A r \in Unread : r.s \in Nat
  BY <1>1 DEF OrderInv, TypeOK, Record
<1>4. BatchSize \in Nat \ {0}
  BY JournalAssumption
<1>5. \A r \in Unread : r \in Batch <=> Cardinality(Before(r)) < BatchSize
  BY DEF Batch
<1>6. ASSUME NEW b \in Batch, NEW r \in Unread, r.s <= b.s  PROVE r \in Batch
  <2>1. Before(r) \in SUBSET Before(b) /\ IsFiniteSet(Before(b))
    BY <1>1, <1>2, <1>3, <1>6
  <2>2. Cardinality(Before(r)) <= Cardinality(Before(b))
    <3> HIDE DEF Before
    <3> QED  BY <2>1, FS_Subset
  <2>3. Cardinality(Before(r)) \in Nat /\ Cardinality(Before(b)) \in Nat
    BY <1>1, <1>2, FS_CardinalityType
  <2> HIDE DEF Before
  <2> QED  BY <1>1, <1>4, <1>5, <2>2, <2>3
<1>7. ASSUME Batch # Unread  PROVE Cardinality(Batch) = BatchSize
  <2> DEFINE Rest == Unread \ Batch
  <2>1. PICK r \in Rest : \A q \in Rest : r.s <= q.s
    <3> DEFINE S == Stamps(Rest)
    <3>1. S \in SUBSET Nat /\ S # {}
      BY <1>1, <1>3, <1>7 DEF Stamps
    <3>2. \E x \in S : \A y \in S : x <= y
      <4> HIDE DEF S
      <4> QED  BY <3>1, LeastExists
    <3> QED  BY <3>2 DEF Stamps
  <2>2. Before(r) \in SUBSET Batch
    <3>1. \A q \in Before(r) : q \in Unread /\ q.s < r.s /\ q.s \in Nat /\ r.s \in Nat
      BY <1>3, <2>1
    <3> QED  BY <2>1, <3>1
  <2>3. Cardinality(Before(r)) <= Cardinality(Batch)
    <3> HIDE DEF Before
    <3> QED  BY <1>2, <2>2, FS_Subset
  <2>4. Cardinality(Before(r)) \in Nat /\ Cardinality(Batch) \in Nat
    BY <1>2, <2>1, FS_CardinalityType
  <2>5. BatchSize <= Cardinality(Before(r))
    BY <1>4, <1>5, <2>1, <2>4
  <2>6. Batch # {}
    BY <1>4, <2>3, <2>4, <2>5, FS_EmptySet
  <2>7. PICK last \in Batch : \A q \in Batch : q.s <= last.s
    <3> DEFINE S == Stamps(Batch)
    <3>1. S \in SUBSET (0..MaxSeq) /\ S # {} /\ MaxSeq \in Nat
      BY <1>1, <2>6, JournalAssumption DEF Stamps, OrderInv, TypeOK, Record
    <3>2. \E m \in S : \A x \in S : x <= m
      <4> HIDE DEF S
      <4> QED  BY <3>1, GreatestExists
    <3> QED  BY <3>2 DEF Stamps
  <2>8. Batch \in SUBSET (Before(last) \cup {last})
    <3>1. \A q \in Batch : q.s = last.s => q = last
      BY <1>1 DEF OrderInv, NumbersInv
    <3>2. \A q \in Batch : q.s \in Nat
      BY <1>1, <1>3
    <3> QED  BY <1>1, <2>7, <3>1, <3>2
  <2>9. /\ IsFiniteSet(Before(last) \cup {last})
        /\ Cardinality(Before(last) \cup {last}) = Cardinality(Before(last)) + 1
    <3>1. last \notin Before(last)
      BY <1>1, <1>3
    <3>2. IsFiniteSet(Before(last))
      BY <1>1, <1>2
    <3> HIDE DEF Before
    <3> QED  BY <3>1, <3>2, FS_AddElement
  <2>a. Cardinality(Batch) <= Cardinality(Before(last)) + 1
    <3> HIDE DEF Before
    <3> QED  BY <2>8, <2>9, FS_Subset
  <2>b. Cardinality(Before(last)) \in Nat /\ Cardinality(Before(last)) < BatchSize
    BY <1>1, <1>2, <1>5, FS_CardinalityType
  <2> HIDE DEF Before
  <2> QED  BY <1>4, <2>3, <2>4, <2>5, <2>a, <2>b
<1> QED  BY <1>6, <1>7

(* A batch has a last record.                                              *)
LEMMA LastOfBatch ==
  ASSUME TypeOK, Batch # {}  PROVE LastOf(Batch) \in Batch
<1> DEFINE S == Stamps(Batch)
<1>1. S \in SUBSET (0..MaxSeq) /\ S # {} /\ MaxSeq \in Nat
  <2>1. Batch \subseteq records
    BY DEF Batch, Unread, Listed
  <2>2. MaxSeq \in Nat /\ \A r \in Batch : r.s \in 0..MaxSeq
    BY <2>1, JournalAssumption DEF TypeOK, Record
  <2> QED  BY <2>2 DEF Stamps
<1>2. \E m \in S : \A x \in S : x <= m
  <2> HIDE DEF S
  <2> QED  BY <1>1, GreatestExists
<1>3. \E r \in Batch : \A q \in Batch : q.s <= r.s
  BY <1>2 DEF Stamps
<1> QED  BY <1>3 DEF LastOf

-----------------------------------------------------------------------------
(* Files before a position hold only records at or below it, which are the  *)
(* ones that are deleted when the reader has got there.                    *)
Passed(position) == \A r \in Listed : r.seg < position.seg => r.s <= position.seq

(* A position is not beyond the records there are.                         *)
Reached(position) == position.seg <= active /\ position.seq <= lastSeq

ReaderInv ==
  /\ OrderInv
  /\ NothingSkipped
  /\ up => active \in segments /\ Reached(cursor) /\ Passed(cursor)
  /\ taken.busy => taken.recs \subseteq records /\ Reached(taken) /\ Passed(taken)
  /\ ~up => segments = {} /\ ~taken.busy

(* Before the first open() there is nothing to skip.                       *)
LEMMA InitReader == Init => ReaderInv
<1> SUFFICES ASSUME Init  PROVE ReaderInv
  OBVIOUS
<1>1. OrderInv
  BY InitInOrder
<1>2. /\ ~up /\ segments = {} /\ records = {}
  BY DEF Init
<1>3. ~taken.busy
  BY DEF Init, NoRead
<1>4. NothingSkipped
  BY <1>2 DEF NothingSkipped, Listed
<1> QED  BY <1>1, <1>2, <1>3, <1>4 DEF ReaderInv

(* A position in what is listed stays what it is while only records above   *)
(* it are added and only others taken away.                                *)
LEMMA PositionStays ==
  ASSUME ReaderInv, NEW position, position \in {cursor, taken}, Reached(position),
         Passed(position), lastSeq <= lastSeq', active <= active', TypeOK',
         \A r \in Listed' : r \in Listed \/ (lastSeq < r.s /\ active <= r.seg)
  PROVE  /\ position.seg <= active' /\ position.seq <= lastSeq'
         /\ \A r \in Listed' : r.seg < position.seg => r.s <= position.seq
         /\ \A r \in Listed' : r.s <= position.seq => r \in Listed
<1>1. /\ position.seg \in Nat /\ position.seq \in Nat
      /\ lastSeq \in Nat /\ active \in Nat /\ lastSeq' \in Nat /\ active' \in Nat
  BY DEF ReaderInv, OrderInv, TypeOK, Seq0
<1>2. \A r \in Listed' : r.s \in Nat /\ r.seg \in Nat
  BY DEF Listed, TypeOK, Record
<1> QED  BY <1>1, <1>2 DEF Reached, Passed

(* Steps of the others leave the reader where it is.                       *)
LEMMA OthersKeepReader ==
  ASSUME ReaderInv, OrderInv', up, up', cursor' = cursor, taken' = taken,
         consumed \subseteq consumed', lastSeq <= lastSeq', active <= active',
         records \subseteq records', active' \in segments',
         \A r \in Listed' : r \in Listed \/ (lastSeq < r.s /\ active <= r.seg)
  PROVE  ReaderInv'
<1>1. TypeOK' /\ Reached(cursor) /\ Passed(cursor)
  BY DEF OrderInv, ReaderInv
<1>2. /\ Reached(cursor)' /\ Passed(cursor)'
      /\ \A r \in Listed' : r.s <= cursor.seq => r \in Listed
  BY <1>1, PositionStays DEF Reached, Passed
<1>3. ASSUME taken.busy
      PROVE  /\ Reached(taken)' /\ Passed(taken)'
             /\ \A r \in Listed' : r.s <= taken.seq => r \in Listed
  BY <1>1, <1>3, PositionStays DEF Reached, Passed, ReaderInv
<1>4. NothingSkipped'
  BY <1>2, <1>3 DEF ReaderInv, NothingSkipped
<1> QED  BY <1>2, <1>3, <1>4 DEF ReaderInv

(* open(): the reader starts before everything.                            *)
LEMMA OpenReader ==
  ASSUME ReaderInv, Open  PROVE ReaderInv'
<1>1. OrderInv' /\ TypeOK' /\ TypeOK
  BY OpenInOrder DEF ReaderInv, OrderInv
<1>2. /\ up' /\ ~taken'.busy /\ active' \in segments'
      /\ segments' = {r.seg : r \in records} \cup {active'}
      /\ cursor' = [seg |-> Min(segments'), seq |-> 0]
  BY DEF Open, ReaderInv
<1>3. segments' \in SUBSET Nat
  BY <1>1 DEF TypeOK
<1>4. cursor'.seq = 0 /\ cursor'.seg <= active' /\ \A f \in segments' : cursor'.seg <= f
  BY <1>2, <1>3, MinIsLeast
<1>5. \A r \in Listed' : r.seg \in segments' /\ r.s \in Nat \ {0} /\ r.seg \in Nat
  BY <1>1 DEF Listed, TypeOK, Record
<1>6. cursor'.seg \in Nat /\ lastSeq' \in Nat
  BY <1>1 DEF TypeOK, Seq0
<1>7. Reached(cursor)' /\ Passed(cursor)'
  BY <1>4, <1>5, <1>6 DEF Reached, Passed
<1>8. NothingSkipped'
  BY <1>2, <1>4, <1>5 DEF NothingSkipped
<1> QED  BY <1>1, <1>2, <1>7, <1>8 DEF ReaderInv

(* append() adds above every position, in the last file or a later one.    *)
LEMMA AppendReader ==
  ASSUME ReaderInv, NEW rd \in Readings, NEW aged \in BOOLEAN, Append(rd, aged)
  PROVE  ReaderInv'
<1> DEFINE due == RotateDue(fdOpen, ActiveRecords, aged)
           seg == IF due THEN lastSeq + 1 ELSE active
<1>1. PICK seq \in NextSeq :
        /\ Write(rd, seg, seq)
        /\ \/ active' = seg /\ segments' = segments \cup {seg}
           \/ active' = seq + 1 /\ segments' = segments \cup {seg, seq + 1}
  BY DEF Append
<1>2. OrderInv' /\ OrderInv /\ TypeOK /\ up
  BY AppendInOrder DEF ReaderInv, OrderInv, Append
<1>3. seq \in Nat /\ lastSeq < seq /\ lastSeq \in Nat /\ active \in Nat
  BY <1>2, NextSeqBounds DEF TypeOK, Seq0
<1> DEFINE new == [seg |-> seg, s |-> seq, rd |-> rd]
<1>4. /\ records' = records \cup {new} /\ lastSeq' = seq /\ up' = up
      /\ cursor' = cursor /\ taken' = taken /\ consumed' = consumed
  BY <1>1 DEF Write, readVars
<1>5. new.seg = seg /\ new.s = seq
  OBVIOUS
<1>6. due => active <= lastSeq
  BY <1>2, DueIsBehind
<1>7. seg \in Nat /\ active <= seg /\ (seg = active \/ seg = lastSeq + 1)
  BY <1>3, <1>6
<1>8. active <= lastSeq + 1 \/ active <= clock
  BY <1>2 DEF OrderInv, ActiveIsLast
<1> HIDE DEF due, seg, new
<1>9. new.s \in Nat /\ new.seg <= new.s
  <2>1. \A r \in records' : r.s \in Nat /\ r.seg <= r.s
    BY <1>2 DEF OrderInv, NumbersInv, TypeOK, Record
  <2> QED  BY <1>4, <2>1
<1>a. active <= active' /\ active' \in segments' /\ lastSeq <= lastSeq'
  BY <1>1, <1>3, <1>4, <1>5, <1>7, <1>9
<1>b. \A r \in records : r.seg \in Nat /\ r.s \in Nat /\ r.seg <= r.s /\ r.s <= lastSeq
  BY <1>2 DEF OrderInv, NumbersInv, ActiveIsLast, TypeOK, Record
<1>c. \A r \in records : r.seg \in segments' => r.seg \in segments
  <2>1. active \in segments
    BY <1>2 DEF ReaderInv
  <2> QED  BY <1>1, <1>3, <1>7, <1>b, <2>1
<1>d. \A r \in Listed' : r \in Listed \/ (lastSeq < r.s /\ active <= r.seg)
  BY <1>3, <1>4, <1>5, <1>7, <1>c DEF Listed
<1> QED  BY <1>2, <1>4, <1>a, <1>d, OthersKeepReader

(* So does a refused append(), which adds a file at most.                  *)
LEMMA AppendRefusedReader ==
  ASSUME ReaderInv, NEW aged \in BOOLEAN, AppendRefused(aged)
  PROVE  ReaderInv'
<1> DEFINE due == RotateDue(fdOpen, ActiveRecords, aged)
<1>1. /\ active' = IF due THEN lastSeq + 1 ELSE active
      /\ segments' = segments \cup {active'} /\ lastSeq' \in NextSeq
      /\ up /\ up' = up /\ records' = records /\ consumed' = consumed
      /\ cursor' = cursor /\ taken' = taken
  BY DEF AppendRefused, readVars, history
<1>2. OrderInv' /\ OrderInv /\ TypeOK
  BY AppendRefusedInOrder DEF ReaderInv, OrderInv
<1>3. lastSeq' \in Nat /\ lastSeq < lastSeq' /\ lastSeq \in Nat /\ active \in Nat
  BY <1>1, <1>2, NextSeqBounds DEF TypeOK, Seq0
<1>4. due => active <= lastSeq
  BY <1>1, <1>2, DueIsBehind
<1> HIDE DEF due
<1>5. active' = active \/ (active' = lastSeq + 1 /\ active <= lastSeq)
  BY <1>1, <1>4
<1>6. \A r \in records : r.seg \in Nat /\ r.s \in Nat /\ r.seg <= r.s /\ r.s <= lastSeq
  BY <1>1, <1>2 DEF OrderInv, NumbersInv, ActiveIsLast, TypeOK, Record
<1>7. active \in segments
  BY <1>1 DEF ReaderInv
<1>8. \A r \in Listed' : r \in Listed
  BY <1>1, <1>3, <1>5, <1>6, <1>7 DEF Listed
<1>9. active <= active' /\ lastSeq <= lastSeq' /\ active' \in segments'
  BY <1>1, <1>3, <1>5
<1> QED  BY <1>1, <1>2, <1>8, <1>9, OthersKeepReader

(* read(): the batch is the first of what the cursor has not passed.       *)
LEMMA ReadReader ==
  ASSUME ReaderInv, Read  PROVE ReaderInv'
<1> DEFINE after == PositionAfter(Batch)
<1>1. /\ up /\ Batch # {} /\ up' = up /\ cursor' = cursor /\ records' = records
      /\ active' = active /\ lastSeq' = lastSeq /\ segments' = segments /\ consumed' = consumed
      /\ taken' = [busy |-> TRUE, recs |-> Batch, seg |-> after.seg, seq |-> after.seq]
  BY DEF Read, diskVars, fileVars, history
<1>2. OrderInv' /\ OrderInv /\ TypeOK
  BY StepInOrder DEF ReaderInv, OrderInv, Next, Reader
<1>3. Batch \subseteq records /\ Batch \subseteq Listed /\ Unread \subseteq Listed
  BY DEF Batch, Unread, Listed
<1>4. /\ after.seq \in Nat /\ \A r \in Batch : r.s <= after.seq
      /\ after.seq \in {cursor.seq} \cup Stamps(Batch) /\ cursor.seq <= after.seq
  <2> DEFINE S == {cursor.seq} \cup Stamps(Batch)
  <2>1. S \in SUBSET (0..MaxSeq) /\ S # {} /\ MaxSeq \in Nat
    BY <1>2, <1>3, JournalAssumption DEF Stamps, Record, TypeOK, Seq0
  <2>2. Max(S) \in S /\ \A x \in S : x <= Max(S)
    <3> HIDE DEF S
    <3> QED  BY <2>1, MaxIsGreatest
  <2>3. after.seq = Max(S)
    BY DEF PositionAfter
  <2>4. \A r \in Batch : r.s \in S
    BY DEF Stamps
  <2>5. cursor.seq \in S
    OBVIOUS
  <2>8. S \subseteq Nat
    BY <2>1
  <2>9. after.seq \in S /\ \A x \in S : x <= after.seq
    <3> HIDE DEF S
    <3> QED  BY <2>2, <2>3
  <2> HIDE DEF S, after
  <2>6. after.seq \in S /\ after.seq \in Nat /\ \A x \in S : x <= after.seq
    BY <2>8, <2>9
  <2>7. cursor.seq <= after.seq /\ \A r \in Batch : r.s <= after.seq
    BY <2>4, <2>5, <2>6
  <2> QED  BY <2>6, <2>7 DEF S
<1>5. \A r \in Listed : r.s \in Nat /\ r.seg \in Nat /\ r.s <= lastSeq /\ r.seg <= active
  BY <1>1, <1>2 DEF Listed, OrderInv, ActiveIsLast, TypeOK, Record
<1>6. cursor.seq \in Nat /\ cursor.seq <= lastSeq
  BY <1>1, <1>2 DEF ReaderInv, Reached, TypeOK, Seq0
<1>7. ASSUME NEW r \in Listed, r.s <= after.seq
      PROVE  r \in Batch \/ r.rd \in consumed
  <2>1. CASE r.s <= cursor.seq
    BY <2>1 DEF ReaderInv, NothingSkipped
  <2>2. CASE ~(r.s <= cursor.seq)
    <3>1. r \in Unread
      BY <1>5, <1>6, <2>2 DEF Unread
    <3>2. PICK b \in Batch : after.seq = b.s
      BY <1>4, <1>7, <2>2 DEF Stamps
    <3> QED  BY <1>2, <1>7, <3>1, <3>2, BatchIsFirst
  <2> QED  BY <2>1, <2>2
<1>8. NothingSkipped'
  BY <1>1, <1>7 DEF ReaderInv, NothingSkipped, Listed
<1>9. Reached(taken)'
  <2>1. after.seq <= lastSeq
    BY <1>3, <1>4, <1>5, <1>6 DEF Stamps
  <2>2. after.seg <= active
    <3>1. LastOf(Batch) \in Batch
      BY <1>1, <1>2, LastOfBatch
    <3>2. active \in Nat
      BY <1>2 DEF TypeOK
    <3> QED  BY <1>3, <1>5, <3>1, <3>2 DEF PositionAfter, SegmentAfter
  <2> HIDE DEF after
  <2> QED  BY <1>1, <2>1, <2>2 DEF Reached
<1>a. Passed(taken)'
  <2> SUFFICES ASSUME NEW r \in Listed, r.seg < after.seg  PROVE r.s <= after.seq
    BY <1>1 DEF Passed, Listed
  <2>1. CASE Cardinality(Batch) = BatchSize
    <3>1. /\ LastOf(Batch) \in Batch
      BY <1>1, <1>2, LastOfBatch
    <3>2. after.seg = LastOf(Batch).seg
      BY <2>1 DEF PositionAfter, SegmentAfter
    <3>3. r.s < LastOf(Batch).s
      BY <1>2, <1>3, <3>1, <3>2 DEF OrderInv, NumbersInv, FilesInOrder, Listed
    <3> QED  BY <1>3, <1>4, <1>5, <3>1, <3>3
  <2>2. CASE Cardinality(Batch) # BatchSize
    <3>1. Batch = Unread
      BY <1>2, <2>2, BatchIsFirst
    <3>2. r.s <= cursor.seq \/ r \in Batch
      BY <1>5, <1>6, <3>1 DEF Unread
    <3> QED  BY <1>4, <1>5, <1>6, <3>2
  <2> QED  BY <2>1, <2>2
<1>b. taken'.busy /\ taken'.recs \subseteq records'
  BY <1>1, <1>3
<1>c. up' /\ active' \in segments' /\ Reached(cursor)' /\ Passed(cursor)'
  BY <1>1 DEF ReaderInv, Reached, Passed, Listed
<1> QED  BY <1>2, <1>8, <1>9, <1>a, <1>b, <1>c DEF ReaderInv

(* Giving up on a batch.                                                   *)
LEMMA AbandonReader ==
  ASSUME ReaderInv, Abandon  PROVE ReaderInv'
<1>1. OrderInv'
  BY StepInOrder DEF ReaderInv, Next, Reader
<1>2. /\ up /\ up' = up /\ cursor' = cursor /\ records' = records /\ ~taken'.busy
      /\ active' = active /\ lastSeq' = lastSeq /\ segments' = segments /\ consumed' = consumed
  BY DEF Abandon, diskVars, fileVars, history, NoRead
<1> QED
  BY <1>1, <1>2 DEF ReaderInv, NothingSkipped, Listed, Reached, Passed

(* ack(): the cursor moves to a position it may move to, and what is gone  *)
(* afterwards is in files before it.                                       *)
LEMMA MoveCursorReader ==
  ASSUME ReaderInv, OrderInv', up, NEW position, MoveCursor(position),
         Reached(position), Passed(position), position.seg \in Nat,
         consumed \subseteq consumed', ~taken'.busy,
         \A r \in Listed : r.s <= position.seq => r.rd \in consumed'
  PROVE  ReaderInv'
<1>1. /\ cursor' = [seg |-> position.seg, seq |-> position.seq]
      /\ active' = active /\ lastSeq' = lastSeq /\ up' = up
  BY DEF MoveCursor
<1>2. /\ records' \subseteq records
      /\ segments' \subseteq segments /\ (active \in segments => active \in segments')
  <2>1. active \in Nat
    BY DEF ReaderInv, OrderInv, TypeOK
  <2>2. ~(active < position.seg)
    BY <2>1 DEF Reached
  <2> QED  BY <2>2 DEF MoveCursor, DropConsumed, diskVars
<1>3. Listed' \subseteq Listed
  BY <1>2 DEF Listed
<1>4. NothingSkipped'
  BY <1>1, <1>3 DEF NothingSkipped
<1>5. Reached(cursor)' /\ Passed(cursor)' /\ active' \in segments'
  BY <1>1, <1>2, <1>3 DEF Reached, Passed, ReaderInv
<1> QED  BY <1>1, <1>4, <1>5 DEF ReaderInv

(* The position of an acknowledgement is one it may move to: all at or     *)
(* below it has been consumed.                                             *)
LEMMA AckMovesOn ==
  ASSUME ReaderInv, Ack \/ AckAdvance
  PROVE  \E position :
           /\ MoveCursor(position) /\ position.seg \in Nat
           /\ Reached(position) /\ Passed(position)
           /\ \A r \in Listed : r.s <= position.seq => r.rd \in consumed'
<1>1. CASE Ack
  <2>1. MoveCursor(taken) /\ Reached(taken) /\ Passed(taken) /\ taken.seg \in Nat
    BY <1>1 DEF Ack, ReaderInv, OrderInv, TypeOK
  <2>2. \A r \in Listed : r.s <= taken.seq => r.rd \in consumed'
    BY <1>1 DEF Ack, ReaderInv, NothingSkipped, ReadingsOf
  <2> QED  BY <2>1, <2>2
<1>2. CASE AckAdvance
  <2> DEFINE position == [seg |-> active, seq |-> cursor.seq]
  <2>1. up /\ Batch = {} /\ MoveCursor(position) /\ consumed' = consumed
    BY <1>2 DEF AckAdvance
  <2>2. position.seg = active /\ position.seq = cursor.seq /\ active \in Nat /\ cursor.seq \in Nat
    BY DEF ReaderInv, OrderInv, TypeOK, Seq0
  <2>3. Unread = {}
    <3>1. Cardinality({}) = 0 /\ BatchSize # 0
      BY FS_EmptySet, JournalAssumption
    <3> QED  BY <2>1, <3>1, BatchIsFirst DEF ReaderInv
  <2> HIDE DEF position
  <2>4. \A r \in Listed : r.s \in Nat
    BY DEF Listed, ReaderInv, OrderInv, TypeOK, Record
  <2>5. \A r \in Listed : r.s <= cursor.seq
    BY <2>2, <2>3, <2>4 DEF Unread
  <2>6. Reached(position) /\ Passed(position)
    BY <2>1, <2>2, <2>5 DEF Reached, Passed, ReaderInv
  <2>7. \A r \in Listed : r.s <= position.seq => r.rd \in consumed'
    BY <2>1, <2>2 DEF ReaderInv, NothingSkipped
  <2> QED  BY <2>1, <2>2, <2>6, <2>7
<1> QED  BY <1>1, <1>2

(* So the acknowledgement keeps the reader's invariant.                    *)
LEMMA AckReader ==
  ASSUME ReaderInv, Ack \/ AckAdvance  PROVE ReaderInv'
<1>1. OrderInv'
  BY StepInOrder DEF ReaderInv, Next, Reader
<1>2. up /\ consumed \subseteq consumed' /\ ~taken'.busy
  BY DEF Ack, AckAdvance, NoRead
<1>3. PICK position :
        /\ MoveCursor(position) /\ position.seg \in Nat
        /\ Reached(position) /\ Passed(position)
        /\ \A r \in Listed : r.s <= position.seq => r.rd \in consumed'
  BY AckMovesOn
<1> QED  BY <1>1, <1>2, <1>3, MoveCursorReader

(* Every step, as before.                                                  *)
LEMMA StepReader ==
  ASSUME ReaderInv, [Next]_vars \/ Ack \/ (Down /\ UNCHANGED <<records, stable>>)
  PROVE  ReaderInv'
<1>0. OrderInv'
  BY StepInOrder DEF ReaderInv
<1>1. CASE Syncing \/ Promise \/ (\E aged \in BOOLEAN : RotateFails(aged)) \/ UNCHANGED vars
  <2>1. /\ up' = up /\ cursor' = cursor /\ taken' = taken /\ consumed' = consumed
        /\ lastSeq' = lastSeq /\ active' = active /\ records' = records /\ segments' = segments
    BY <1>1 DEF Syncing, TimerFires, TimerSyncEnds, SyncStarts, SyncEnds, Promise, RotateFails,
                vars, diskVars, fileVars, readVars, history
  <2> QED
    BY <1>0, <2>1 DEF ReaderInv, NothingSkipped, Listed, Reached, Passed
<1>2. CASE Failing \/ (Down /\ UNCHANGED <<records, stable>>)
  <2>1. ~up' /\ segments' = {} /\ taken' = NoRead
    BY <1>2 DEF Failing, Close, ProcessCrash, PowerLoss, Down
  <2> QED  BY <1>0, <2>1 DEF ReaderInv, NothingSkipped, Listed, NoRead
<1>3. CASE Writer
  BY <1>1, <1>3, AppendReader, AppendRefusedReader DEF Writer
<1> QED
  BY <1>1, <1>2, <1>3, OpenReader, ReadReader, AbandonReader, AckReader
  DEF Next, Reader, ReaderAcks

(* The reader skips nothing, for any sizes of files and batches and every   *)
(* fault: whatever a rotation, a refused append or a failed deletion puts   *)
(* between read() and ack().                                               *)
THEOREM NoneSkipped == Spec => []NothingSkipped
<1>1. ReaderInv => NothingSkipped
  BY DEF ReaderInv
<1>2. ReaderInv /\ [Next]_vars => ReaderInv'
  BY StepReader
<1> QED  BY <1>1, <1>2, InitReader, PTL DEF Spec
-----------------------------------------------------------------------------
(* What was accepted.  A file named before this process started is not the  *)
(* one being appended to, so its records have all been synced.             *)
AcceptedInv ==
  /\ ReaderInv
  /\ AcceptedIsKept
  /\ up => clock <= active
  /\ "process" \notin Faults => DurabilityInv

(* The end of a process that has appended nothing.                         *)
Leaves ==
  /\ Down /\ UNCHANGED <<records, stable>>
  /\ "process" \notin Faults => records \subseteq stable

(* The file being appended to is named no lower than the one before.       *)
LEMMA ActiveGrows ==
  ASSUME OrderInv, NEW aged \in BOOLEAN, up,
         AppendRefused(aged) \/ \E rd \in Readings : Append(rd, aged)
  PROVE  active <= active'
<1> DEFINE due == RotateDue(fdOpen, ActiveRecords, aged)
           seg == IF due THEN lastSeq + 1 ELSE active
<1>1. active' = seg \/ \E rd \in Readings, seq \in NextSeq :
                         active' = seq + 1 /\ Write(rd, seg, seq)
  BY DEF AppendRefused, Append
<1>2. due => active <= lastSeq
  BY DueIsBehind
<1>3. active \in Nat /\ lastSeq \in Nat /\ TypeOK
  BY DEF OrderInv, TypeOK, Seq0
<1>4. \A seq \in NextSeq : seq \in Nat /\ lastSeq < seq /\ clock <= seq
  BY <1>3, NextSeqBounds
<1>5. (active <= lastSeq + 1 \/ active <= clock) /\ clock \in Nat
  BY <1>3 DEF OrderInv, ActiveIsLast, TypeOK
<1>6. seg = active \/ (seg = lastSeq + 1 /\ active <= lastSeq)
  BY <1>2
<1> HIDE DEF due, seg
<1> QED  BY <1>1, <1>3, <1>4, <1>5, <1>6

(* Nothing that survives is taken away but by an acknowledgement.          *)
LEMMA SurvivingGrows ==
  ASSUME AcceptedInv, [Next]_vars \/ Leaves, ~Ack, ~AckAdvance,
         ~({"process", "power"} \subseteq Faults)
  PROVE  consumed' = consumed /\ Surviving \subseteq Surviving' /\ stable \subseteq stable'
<1>1. CASE Failing \/ Leaves
  <2>1. /\ stable \subseteq stable' /\ consumed' = consumed
        /\ "power" \notin Faults => records' = records
    BY <1>1 DEF Failing, Close, ProcessCrash, PowerLoss, Leaves, Down, history
  <2> QED  BY <2>1 DEF Surviving
<1>2. CASE Open \/ Syncing \/ Promise \/ Read \/ Abandon \/ UNCHANGED vars
  <2>1. records \subseteq records' /\ stable \subseteq stable' /\ consumed' = consumed
    BY <1>2
    DEF Open, Syncing, TimerFires, TimerSyncEnds, SyncStarts, SyncEnds, FsyncDone,
        FsyncFails, Promise, Read, Abandon, vars, diskVars, history
  <2> QED  BY <2>1 DEF Surviving
<1>3. CASE Writer
  <2>1. \A due : stable \subseteq CloseActive(due).stable
    BY DEF CloseActive
  <2>2. ASSUME NEW rd \in Readings, NEW aged \in BOOLEAN, Append(rd, aged)
        PROVE  records \subseteq records' /\ stable \subseteq stable' /\ consumed' = consumed
    <3> DEFINE closed == CloseActive(RotateDue(fdOpen, ActiveRecords, aged)).stable
    <3>1. \E seg, seq : Write(rd, seg, seq)
      BY <2>2 DEF Append
    <3>2. stable' = closed \/ \E more : stable' = closed \cup more
      BY <2>2 DEF Append
    <3>3. records \subseteq records' /\ consumed' = consumed
      BY <3>1 DEF Write
    <3>4. stable \subseteq closed
      BY <2>1
    <3> HIDE DEF closed
    <3> QED  BY <3>2, <3>3, <3>4
  <2>3. ASSUME NEW aged \in BOOLEAN, AppendRefused(aged) \/ RotateFails(aged)
        PROVE  records \subseteq records' /\ stable \subseteq stable' /\ consumed' = consumed
    <3>1. stable' = stable \/ \E due : stable' = CloseActive(due).stable
      BY <2>3 DEF AppendRefused, RotateFails
    <3>2. records' = records /\ consumed' = consumed
      BY <2>3 DEF AppendRefused, RotateFails, history
    <3> QED  BY <2>1, <3>1, <3>2
  <2> QED  BY <1>3, <2>2, <2>3 DEF Writer, Surviving
<1> QED  BY <1>1, <1>2, <1>3 DEF Next, Reader, ReaderAcks

(* A record goes only when the database has it, and a crash takes only what *)
(* was not to survive it.                                                  *)
LEMMA SurvivingStays ==
  ASSUME AcceptedInv, [Next]_vars \/ Ack \/ Leaves, ~({"process", "power"} \subseteq Faults)
  PROVE  /\ consumed \subseteq consumed'
         /\ \A r \in Surviving : r \in Surviving' \/ r.rd \in consumed'
         /\ \A r \in stable : r \in stable' \/ r.rd \in consumed'
<1>1. CASE Ack \/ AckAdvance
  <2>1. PICK position :
          /\ MoveCursor(position) /\ Passed(position)
          /\ \A r \in Listed : r.s <= position.seq => r.rd \in consumed'
    BY <1>1, AckMovesOn DEF AcceptedInv
  <2>2. \A r \in records :
          (r.seg \in segments => ~(r.seg < position.seg))
            => r \in records' /\ (r \in stable => r \in stable')
    BY <2>1 DEF MoveCursor, DropConsumed, diskVars
  <2>3. \A r \in records : r \in Listed /\ r.seg < position.seg => r.rd \in consumed'
    BY <2>1 DEF Passed
  <2>4. consumed \subseteq consumed' /\ stable \subseteq records
    BY <1>1 DEF Ack, AckAdvance, AcceptedInv, ReaderInv, OrderInv, TypeOK
  <2> QED  BY <2>2, <2>3, <2>4 DEF Listed, Surviving
<1>2. CASE ~Ack /\ ~AckAdvance
  BY <1>2, SurvivingGrows
<1> QED  BY <1>1, <1>2

(* The broker is told only of what survives: an fsync has covered it, or it *)
(* was found by open().                                                    *)
LEMMA PromiseSurvives ==
  ASSUME AcceptedInv, Promise, ~({"process", "power"} \subseteq Faults)
  PROVE  promised' \subseteq promised \cup ReadingsOf(Surviving)
<1> DEFINE owed == {r \in Listed : Admitted(r) \/ Duplicate(r)}
<1>1. promised' = promised \cup ReadingsOf(owed) /\ up
  BY DEF Promise
<1>2. owed \subseteq Surviving
  <2>1. owed \subseteq records
    BY DEF Listed
  <2>2. ASSUME "power" \in Faults, NEW r \in owed  PROVE r \in stable
    <3>1. CASE Admitted(r)
      BY <1>1, <2>1, <2>2, <3>1 DEF AcceptedInv, DurabilityInv, DurableIsOnDisk, Admitted
    <3>2. CASE Duplicate(r)
      <4>1. r.seg < clock /\ clock <= active /\ r.seg \in Nat /\ clock \in Nat /\ active \in Nat
        BY <1>1, <2>1, <3>2
        DEF Duplicate, AcceptedInv, ReaderInv, OrderInv, TypeOK, Record
      <4>2. r.seg # active
        BY <4>1
      <4> QED  BY <2>1, <2>2, <4>2 DEF AcceptedInv, DurabilityInv, InSegment
    <3> QED  BY <3>1, <3>2
  <2> QED  BY <2>1, <2>2 DEF Surviving
<1> QED  BY <1>1, <1>2 DEF ReadingsOf

(* Every step keeps what was accepted.                                     *)
LEMMA StepAccepted ==
  ASSUME AcceptedInv, [Next]_vars \/ Ack \/ Leaves, ~({"process", "power"} \subseteq Faults)
  PROVE  AcceptedInv'
<1>1. ReaderInv'
  BY StepReader DEF AcceptedInv, Leaves
<1>2. ASSUME "process" \notin Faults  PROVE DurabilityInv'
  <2>1. CASE [Next]_vars
    BY <1>2, <2>1, NextDurable DEF AcceptedInv
  <2>2. CASE Ack
    BY <1>2, <2>2, AckDurable DEF AcceptedInv
  <2>3. CASE Leaves
    <3>1. /\ Down /\ DurabilityInv /\ records' = records /\ stable' = stable
          /\ records \subseteq stable
      BY <1>2, <2>3 DEF AcceptedInv, Leaves
    <3>2. stable \subseteq records
      BY <3>1 DEF DurabilityInv, TypeOK
    <3> QED  BY <3>1, <3>2, DownDurable
  <2> QED  BY <2>1, <2>2, <2>3
<1>3. up' => clock' <= active'
  <2>1. CASE Open
    <3>1. clock' = active' /\ active' \in Nat
      BY <1>1, <2>1 DEF Open, ReaderInv, OrderInv, TypeOK
    <3> QED  BY <3>1
  <2>2. CASE Writer
    <3>1. clock' = clock /\ up
      BY <2>2 DEF Writer, Append, Write, AppendRefused, RotateFails
    <3>2. active <= active'
      <4>1. active' = active \/ \E aged \in BOOLEAN :
              AppendRefused(aged) \/ \E rd \in Readings : Append(rd, aged)
        BY <2>2 DEF Writer, RotateFails
      <4>2. active \in Nat /\ OrderInv
        BY DEF AcceptedInv, ReaderInv, OrderInv, TypeOK
      <4> QED  BY <3>1, <4>1, <4>2, ActiveGrows
    <3>3. clock \in Nat /\ active \in Nat /\ active' \in Nat
      BY <1>1 DEF AcceptedInv, ReaderInv, OrderInv, TypeOK
    <3> QED  BY <3>1, <3>2, <3>3 DEF AcceptedInv
  <2>3. CASE Failing \/ Leaves
    BY <2>3 DEF Failing, Close, ProcessCrash, PowerLoss, Leaves, Down
  <2>4. CASE Syncing \/ Promise \/ Reader \/ Ack \/ UNCHANGED vars
    <3>1. up' = up /\ clock' = clock /\ active' = active
      BY <2>4
      DEF Syncing, TimerFires, TimerSyncEnds, SyncStarts, SyncEnds, Promise, Reader, Read,
          ReaderAcks, Ack, AckAdvance, MoveCursor, Abandon, vars, fileVars
    <3> QED  BY <3>1 DEF AcceptedInv
  <2> QED  BY <2>1, <2>2, <2>3, <2>4 DEF Next
<1>4. AcceptedIsKept'
  <2>1. promised' \subseteq promised \cup ReadingsOf(Surviving)
    <3>1. CASE Writer
      <4>1. ASSUME NEW rd \in Readings, NEW aged \in BOOLEAN, Append(rd, aged)
            PROVE  promised' = promised
        BY <4>1 DEF Append, Write
      <4>2. promised' = promised
        BY <3>1, <4>1 DEF Writer, AppendRefused, RotateFails, history
      <4> QED  BY <4>2
    <3>2. CASE Failing \/ Leaves \/ Open \/ UNCHANGED vars
      BY <3>2
      DEF Failing, Close, ProcessCrash, PowerLoss, Leaves, Down, Open, vars, history
    <3>3. CASE Syncing \/ Reader \/ Ack
      BY <3>3
      DEF Syncing, TimerFires, TimerSyncEnds, SyncStarts, SyncEnds, Reader, Read, ReaderAcks,
          Ack, AckAdvance, MoveCursor, Abandon, history
    <3> QED  BY <3>1, <3>2, <3>3, PromiseSurvives DEF Next
  <2>2. promised \subseteq ReadingsOf(Surviving) \cup consumed
    BY DEF AcceptedInv, AcceptedIsKept
  <2>3. /\ consumed \subseteq consumed'
        /\ \A r \in Surviving : r \in Surviving' \/ r.rd \in consumed'
    BY SurvivingStays
  <2>4. ReadingsOf(Surviving) \subseteq ReadingsOf(Surviving') \cup consumed'
    BY <2>3 DEF ReadingsOf
  <2> QED  BY <2>1, <2>2, <2>3, <2>4 DEF AcceptedIsKept, ReadingsOf
<1> QED  BY <1>1, <1>2, <1>3, <1>4 DEF AcceptedInv

(* Nothing has been accepted before the first open().                      *)
LEMMA InitAccepted == Init => AcceptedInv
<1> SUFFICES ASSUME Init  PROVE AcceptedInv
  OBVIOUS
<1>1. ReaderInv /\ DurabilityInv
  BY InitReader, InitDurable
<1> QED  BY <1>1 DEF Init, AcceptedInv, AcceptedIsKept

(* What the broker was told is accepted can be read back after any crash    *)
(* until the reader has said that the database has it, for any sizes and    *)
(* every fault, as long as processes do not die unsynced and power is not   *)
(* lost too (journal_unsynced shows why not both).                         *)
THEOREM Accepted ==
  ASSUME ~({"process", "power"} \subseteq Faults)  PROVE Spec => []AcceptedIsKept
<1>1. AcceptedInv => AcceptedIsKept
  BY DEF AcceptedInv
<1>2. AcceptedInv /\ [Next]_vars => AcceptedInv'
  BY StepAccepted
<1> QED  BY <1>1, <1>2, InitAccepted, PTL DEF Spec

-----------------------------------------------------------------------------
(* A machine's state in memory is the newest there is of it; one that is    *)
(* not durable yet has its line in the file being appended to, which is    *)
(* not deleted.                                                            *)
StatesKnown ==
  \A m \in Machines :
    /\ stateSeq[m] <= lastSeq
    /\ \A r \in records : StateOf[r.rd] = m => r.s <= stateSeq[m]
    /\ \/ stateSeq[m] <= durableSeq
       \/ \E r \in records : StateOf[r.rd] = m /\ r.s = stateSeq[m] /\ r.seg = active

(* What was accepted of a machine is found by the next open().             *)
StatesOnDisk ==
  \A rd \in promised : StateOf[rd] \in Machines =>
    \/ stampOf[rd] <= snapshot[StateOf[rd]]
    \/ \E r \in records : StateOf[r.rd] = StateOf[rd] /\ stampOf[rd] <= r.s

StateInv ==
  /\ ReaderInv /\ BoundsInv /\ StatesOnDisk
  /\ up => StatesKnown /\ BaselineKept
  /\ \A r \in records : stampOf[r.rd] = r.s
  /\ \A rd \in promised : stampOf[rd] # 0

-----------------------------------------------------------------------------
(* append() remembers the newest state, and a file that is left is durable. *)
LEMMA AppendKeepsStates ==
  ASSUME StateInv, NEW rd \in Readings, NEW aged \in BOOLEAN, Append(rd, aged)
  PROVE  StateInv'
<1>1. /\ TypeOK /\ DurableBounds /\ OrderInv /\ up /\ stampOf[rd] = 0
      /\ StatesKnown /\ BaselineKept
  BY DEF StateInv, BoundsInv, OrderInv, Append
<1>2. PICK due \in BOOLEAN, seq \in NextSeq :
        LET seg == IF due THEN lastSeq + 1 ELSE active
        IN  /\ Write(rd, seg, seq)
            /\ \/ active' = seg /\ durableSeq' = (IF due THEN lastSeq ELSE durableSeq) /\ fdOpen'
               \/ active' \in {seg, seq + 1} /\ durableSeq' = seq
  BY <1>1, AppendParts
<1> DEFINE seg == IF due THEN lastSeq + 1 ELSE active
           new == [seg |-> seg, s |-> seq, rd |-> rd]
<1>3. /\ records' = records \cup {new} /\ lastSeq' = seq /\ up' = up
      /\ stampOf' = [stampOf EXCEPT ![rd] = seq]
      /\ stateSeq' = [m \in Machines |-> IF m = StateOf[rd] THEN seq ELSE stateSeq[m]]
      /\ timerSync' = timerSync /\ syncWork' = syncWork
      /\ snapshot' = snapshot /\ promised' = promised
  BY <1>2 DEF Write
<1>4. \/ active' = seg /\ durableSeq' = (IF due THEN lastSeq ELSE durableSeq) /\ fdOpen'
      \/ active' \in {seg, seq + 1} /\ durableSeq' = seq
  BY <1>2
<1>5. new.seg = seg /\ new.s = seq /\ new.rd = rd
  OBVIOUS
<1>6. (seg = active /\ ~due) \/ (seg = lastSeq + 1 /\ due)
  OBVIOUS
<1> HIDE DEF seg, new
<1>7. ReaderInv' /\ TypeOK'
  BY AppendReader DEF StateInv, ReaderInv, OrderInv
<1>8. /\ seq \in Nat /\ lastSeq < seq /\ lastSeq \in Nat /\ durableSeq \in Nat
      /\ active \in Nat /\ durableSeq <= lastSeq
      /\ timerSync.through \in Nat /\ syncWork.through \in Nat
      /\ \A m \in Machines : stateSeq[m] \in Nat
  BY <1>1, NextSeqBounds DEF TypeOK, Fsync, Seq0, DurableBounds
<1>9. \A r \in records : r.s \in Nat /\ r.seg \in Nat /\ r.s <= lastSeq /\ r.seg <= active /\ r.rd \in Readings
  BY <1>1 DEF OrderInv, ActiveIsLast, TypeOK, Record
<1>a. BoundsInv'
  BY AppendInBounds DEF StateInv
<1>b. StatesKnown'
  <2> SUFFICES ASSUME NEW m \in Machines
               PROVE  /\ stateSeq'[m] <= lastSeq'
                      /\ \A r \in records' : StateOf[r.rd] = m => r.s <= stateSeq'[m]
                      /\ \/ stateSeq'[m] <= durableSeq'
                         \/ \E r \in records' : /\ StateOf[r.rd] = m /\ r.s = stateSeq'[m]
                                                /\ r.seg = active'
    BY DEF StatesKnown
  <2>1. CASE m = StateOf[rd]
    <3>1. stateSeq'[m] = seq
      BY <1>3, <2>1
    <3>2. \A r \in records' : r.s <= seq
      BY <1>3, <1>5, <1>8, <1>9
    <3>3. \/ seq <= durableSeq'
          \/ new \in records' /\ StateOf[new.rd] = m /\ new.s = seq /\ new.seg = active'
      BY <1>3, <1>4, <1>5, <1>8, <2>1
    <3> QED  BY <1>3, <1>8, <3>1, <3>2, <3>3
  <2>2. CASE m # StateOf[rd]
    <3>1. stateSeq'[m] = stateSeq[m]
      BY <1>3, <2>2
    <3>2. \A r \in records' : StateOf[r.rd] = m => r \in records
      BY <1>3, <1>5, <2>2
    <3>3. /\ stateSeq[m] <= lastSeq /\ stateSeq[m] \in Nat
          /\ \A r \in records : StateOf[r.rd] = m => r.s <= stateSeq[m]
          /\ \/ stateSeq[m] <= durableSeq
             \/ \E r \in records : StateOf[r.rd] = m /\ r.s = stateSeq[m] /\ r.seg = active
      BY <1>1, <1>8 DEF StatesKnown
    <3>4. /\ durableSeq <= durableSeq'
          /\ \/ durableSeq' = durableSeq /\ active' = active
             \/ lastSeq <= durableSeq'
      BY <1>4, <1>6, <1>8
    <3>5. durableSeq' \in Nat
      BY <1>7 DEF TypeOK, Seq0
    <3>6. \/ stateSeq[m] <= durableSeq'
          \/ \E r \in records' : StateOf[r.rd] = m /\ r.s = stateSeq[m] /\ r.seg = active'
      BY <1>3, <1>8, <3>3, <3>4, <3>5
    <3> QED  BY <1>3, <1>8, <3>1, <3>2, <3>3, <3>6
  <2> QED  BY <2>1, <2>2
<1>c. \A q \in promised : q # rd /\ q \in Readings
  BY <1>1 DEF StateInv, TypeOK
<1>d. \A q \in promised : stampOf'[q] = stampOf[q]
  BY <1>1, <1>3, <1>c DEF TypeOK
<1>e. BaselineKept'
  <2> SUFFICES ASSUME NEW q \in promised, StateOf[q] # NoMachine
               PROVE  stateSeq'[StateOf[q]] >= stampOf'[q]
    BY <1>3 DEF BaselineKept
  <2>1. StateOf[q] \in Machines /\ stampOf[q] \in Nat
    BY <1>1, <1>c, JournalAssumption DEF TypeOK, Seq0
  <2>2. stateSeq[StateOf[q]] >= stampOf[q] /\ stateSeq[StateOf[q]] <= lastSeq
    BY <1>1, <2>1, JournalAssumption DEF BaselineKept, StatesKnown
  <2>3. stateSeq'[StateOf[q]] \in {seq, stateSeq[StateOf[q]]}
    BY <1>3, <2>1
  <2>4. stateSeq[StateOf[q]] \in Nat
    BY <1>8, <2>1
  <2> QED  BY <1>8, <1>d, <2>1, <2>2, <2>3, <2>4
<1>f. StatesOnDisk'
  BY <1>3, <1>d DEF StateInv, StatesOnDisk
<1>g. /\ \A r \in records' : stampOf'[r.rd] = r.s
      /\ \A q \in promised' : stampOf'[q] # 0
  <2>1. stampOf'[rd] = seq
    BY <1>1, <1>3 DEF TypeOK
  <2>2. ASSUME NEW r \in records  PROVE stampOf'[r.rd] = r.s
    <3>1. r.rd # rd
      <4>1. stampOf[r.rd] = r.s /\ r.s # 0
        BY <1>1 DEF StateInv, TypeOK, Record
      <4> QED  BY <1>1, <4>1
    <3> QED  BY <1>1, <1>3, <1>9, <3>1 DEF StateInv, TypeOK
  <2> QED  BY <1>3, <1>5, <1>d, <2>1, <2>2 DEF StateInv
<1> QED  BY <1>3, <1>7, <1>a, <1>b, <1>e, <1>f, <1>g DEF StateInv

(* A refused append() and a rotation that fails remember nothing new.      *)
LEMMA RefusedKeepsStates ==
  ASSUME StateInv, NEW aged \in BOOLEAN, AppendRefused(aged) \/ RotateFails(aged)
  PROVE  StateInv'
<1>1. /\ TypeOK /\ DurableBounds /\ OrderInv /\ up /\ StatesKnown /\ BaselineKept
  BY DEF StateInv, BoundsInv, OrderInv, AppendRefused, RotateFails
<1>2. ReaderInv' /\ BoundsInv'
  BY StepReader, RefusedInBounds DEF StateInv, Next, Writer
<1>3. /\ records' = records /\ up' = up /\ stateSeq' = stateSeq /\ snapshot' = snapshot
      /\ stampOf' = stampOf /\ promised' = promised
      /\ lastSeq' \in Nat /\ lastSeq <= lastSeq'
      /\ (durableSeq' = durableSeq /\ active' = active) \/ durableSeq' = lastSeq
  BY <1>1, RefusedParts
<1>4. lastSeq \in Nat /\ \A m \in Machines : stateSeq[m] \in Nat
  BY <1>1 DEF TypeOK, Seq0
<1>5. StatesKnown'
  BY <1>1, <1>3, <1>4 DEF StatesKnown
<1>6. BaselineKept' /\ StatesOnDisk'
  BY <1>1, <1>3 DEF BaselineKept, StatesOnDisk, StateInv
<1> QED  BY <1>2, <1>3, <1>5, <1>6 DEF StateInv

(* The newest state open() restores is not ahead of the last number.       *)
LEMMA RecoveredTogether ==
  ASSUME TypeOK, NEW m \in Machines  PROVE RecoveredStates[m] <= RecoveredSeq
<1> DEFINE S == {snapshot[m]} \cup StateStamps(records, m)
<1>1. S \in SUBSET (0..MaxSeq) /\ S # {} /\ MaxSeq \in Nat
  BY JournalAssumption DEF TypeOK, StateStamps, Record, Seq0
<1>2. Max(S) \in S
  <2> HIDE DEF S
  <2> QED  BY <1>1, MaxIsGreatest
<1>3. \A x \in S : x <= RecoveredSeq
  BY RecoveredSeqBounds DEF StateStamps
<1>4. RecoveredStates[m] = Max(S)
  BY DEF RecoveredStates
<1> HIDE DEF S
<1> QED  BY <1>2, <1>3, <1>4

(* open() finds again what was accepted of each machine.                   *)
LEMMA OpenFindsStates ==
  ASSUME StateInv, Open  PROVE StateInv'
<1>1. TypeOK /\ StatesOnDisk /\ ReaderInv'
  BY OpenReader DEF StateInv, ReaderInv, OrderInv
<1>2. /\ records' = records /\ snapshot' = snapshot /\ up' /\ fdOpen'
      /\ lastSeq' = RecoveredSeq /\ durableSeq' = RecoveredSeq /\ stateSeq' = RecoveredStates
      /\ timerSync' = timerSync /\ syncWork' = syncWork
      /\ stampOf' = stampOf /\ promised' = promised
  BY DEF Open, diskVars, syncVars, history
<1>3. RecoveredSeq \in Nat /\ \A r \in records : r.s <= RecoveredSeq
  BY <1>1, RecoveredSeqBounds DEF Seq0
<1>5. BoundsInv'
  BY StepInBounds DEF StateInv, Next
<1>6. StatesKnown'
  BY <1>1, <1>2, RecoveredTogether, RecoveredStatesBounds DEF StatesKnown
<1>7. BaselineKept'
  <2> SUFFICES ASSUME NEW rd \in promised, StateOf[rd] # NoMachine
               PROVE  stateSeq'[StateOf[rd]] >= stampOf[rd]
    BY <1>2 DEF BaselineKept
  <2> DEFINE m == StateOf[rd]
  <2>1. m \in Machines /\ stampOf[rd] \in Nat
    BY <1>1, JournalAssumption DEF TypeOK, Seq0
  <2>2. /\ RecoveredStates[m] \in Nat /\ snapshot[m] \in Nat /\ snapshot[m] <= RecoveredStates[m]
        /\ \A r \in records : StateOf[r.rd] = m => r.s <= RecoveredStates[m] /\ r.s \in Nat
    BY <1>1, <2>1, RecoveredStatesBounds DEF TypeOK, Record, Seq0
  <2>3. \/ stampOf[rd] <= snapshot[m]
        \/ \E r \in records : StateOf[r.rd] = m /\ stampOf[rd] <= r.s
    BY <1>1, <2>1 DEF StatesOnDisk
  <2> HIDE DEF m
  <2>4. RecoveredStates[m] >= stampOf[rd]
    BY <2>1, <2>2, <2>3
  <2> QED  BY <1>2, <2>4 DEF m
<1>8. StatesOnDisk'
  BY <1>1, <1>2 DEF StatesOnDisk
<1> QED  BY <1>1, <1>2, <1>5, <1>6, <1>7, <1>8 DEF StateInv

(* A finished fsync moves durableSeq to no more than the last number.      *)
LEMMA SyncingKeepsStates ==
  ASSUME StateInv, Syncing  PROVE StateInv'
<1>1. TypeOK /\ (up => StatesKnown /\ BaselineKept)
  BY DEF StateInv, ReaderInv, OrderInv
<1>2. ReaderInv' /\ BoundsInv' /\ TypeOK'
  BY StepReader, SyncingInBounds DEF StateInv, Next, ReaderInv, OrderInv
<1>3. /\ records' = records /\ up' = up /\ stateSeq' = stateSeq /\ snapshot' = snapshot
      /\ lastSeq' = lastSeq /\ active' = active /\ stampOf' = stampOf /\ promised' = promised
  BY DEF Syncing, TimerFires, TimerSyncEnds, SyncStarts, SyncEnds, diskVars, fileVars, history
<1>4. /\ durableSeq \in Nat /\ durableSeq' \in Nat /\ durableSeq <= durableSeq'
      /\ \A m \in Machines : stateSeq[m] \in Nat
  BY <1>1, <1>2, SyncingParts DEF StateInv, TypeOK, Seq0
<1>b. up => StatesKnown'
  <2> SUFFICES ASSUME up, NEW m \in Machines
               PROVE  /\ stateSeq[m] <= lastSeq
                      /\ \A r \in records : StateOf[r.rd] = m => r.s <= stateSeq[m]
                      /\ \/ stateSeq[m] <= durableSeq'
                         \/ \E r \in records : /\ StateOf[r.rd] = m /\ r.s = stateSeq[m]
                                               /\ r.seg = active
    BY <1>3 DEF StatesKnown
  <2> QED  BY <1>1, <1>4 DEF StatesKnown
<1>c. (up => BaselineKept') /\ StatesOnDisk'
  BY <1>1, <1>3 DEF BaselineKept, StatesOnDisk, StateInv
<1> QED  BY <1>2, <1>3, <1>b, <1>c DEF StateInv

(* What is promised now is listed, so its machine's state is known and its *)
(* line is on disk.                                                        *)
LEMMA PromiseKeepsStates ==
  ASSUME StateInv, Promise  PROVE StateInv'
<1>1. /\ TypeOK /\ up /\ StatesKnown /\ BaselineKept
      /\ \A r \in records : stampOf[r.rd] = r.s
  BY DEF StateInv, ReaderInv, OrderInv, Promise
<1>2. ReaderInv' /\ BoundsInv'
  BY StepReader, StepInBounds DEF StateInv, Next
<1>3. /\ records' = records /\ up' = up /\ stateSeq' = stateSeq /\ snapshot' = snapshot
      /\ lastSeq' = lastSeq /\ active' = active /\ durableSeq' = durableSeq /\ stampOf' = stampOf
  BY DEF Promise, diskVars, fileVars
<1>4. \A rd \in promised' : rd \in promised \/ \E r \in records : r.rd = rd
  BY DEF Promise, ReadingsOf, Listed
<1>5. ASSUME NEW r \in records
      PROVE  /\ r.s \in Nat \ {0} /\ stampOf[r.rd] = r.s
             /\ r.rd \in Readings
             /\ StateOf[r.rd] \in Machines => r.s <= stateSeq[StateOf[r.rd]]
  BY <1>1 DEF TypeOK, Record, StatesKnown
<1>6. ASSUME NEW rd \in promised'
      PROVE  /\ stampOf[rd] # 0
             /\ StateOf[rd] # NoMachine => stateSeq[StateOf[rd]] >= stampOf[rd]
             /\ StateOf[rd] \in Machines =>
                  \/ stampOf[rd] <= snapshot[StateOf[rd]]
                  \/ \E r \in records : StateOf[r.rd] = StateOf[rd] /\ stampOf[rd] <= r.s
  <2>1. CASE rd \in promised
    BY <1>1, <2>1 DEF StateInv, BaselineKept, StatesOnDisk
  <2>2. CASE \E r \in records : r.rd = rd
    <3>1. PICK r \in records : r.rd = rd
      BY <2>2
    <3>2. /\ r.s \in Nat \ {0} /\ stampOf[rd] = r.s /\ rd \in Readings
          /\ StateOf[rd] \in Machines => r.s <= stateSeq[StateOf[rd]]
      BY <1>5, <3>1
    <3>3. StateOf[rd] # NoMachine => StateOf[rd] \in Machines
      BY <3>2, JournalAssumption
    <3>4. StateOf[rd] \in Machines => stateSeq[StateOf[rd]] \in Nat
      BY <1>1 DEF TypeOK, Seq0
    <3>5. stampOf[rd] <= r.s /\ StateOf[r.rd] = StateOf[rd]
      BY <3>1, <3>2
    <3> QED  BY <3>2, <3>3, <3>4, <3>5
  <2> QED  BY <1>4, <2>1, <2>2
<1>7. StatesKnown'
  BY <1>1, <1>3 DEF StatesKnown
<1>8. BaselineKept' /\ StatesOnDisk'
  BY <1>3, <1>6 DEF BaselineKept, StatesOnDisk
<1> QED  BY <1>1, <1>2, <1>3, <1>6, <1>7, <1>8 DEF StateInv

(* Deleting files saves the durable states first, and leaves the file with *)
(* the others.                                                             *)
LEMMA AckKeepsStates ==
  ASSUME StateInv, Ack \/ AckAdvance  PROVE StateInv'
<1>1. /\ TypeOK /\ up /\ StatesKnown /\ BaselineKept /\ ReaderInv
      /\ \A r \in records : stampOf[r.rd] = r.s
  BY DEF StateInv, ReaderInv, OrderInv, Ack, AckAdvance
<1>2. ReaderInv' /\ BoundsInv'
  BY <1>1, AckReader, StepInBounds DEF StateInv, Next, Reader
<1>3. PICK position : MoveCursor(position) /\ position.seg \in Nat /\ Reached(position)
  BY <1>1, AckMovesOn
<1>4. /\ up' = up /\ stateSeq' = stateSeq /\ lastSeq' = lastSeq /\ active' = active
      /\ durableSeq' = durableSeq /\ stampOf' = stampOf /\ promised' = promised
  BY <1>3 DEF MoveCursor
<1>5. /\ records' \subseteq records
      /\ \A r \in records : r.seg = active => r \in records'
      /\ (snapshot' = snapshot /\ records' = records) \/ snapshot' = SavedStates
  <2>1. ~(active < position.seg)
    BY <1>1, <1>3 DEF Reached, TypeOK
  <2> QED  BY <1>3, <2>1 DEF MoveCursor, DropConsumed, diskVars
<1>7. StatesKnown'
  <2> SUFFICES ASSUME NEW m \in Machines
               PROVE  /\ stateSeq[m] <= lastSeq
                      /\ \A r \in records' : StateOf[r.rd] = m => r.s <= stateSeq[m]
                      /\ \/ stateSeq[m] <= durableSeq
                         \/ \E r \in records' : /\ StateOf[r.rd] = m /\ r.s = stateSeq[m]
                                                /\ r.seg = active
    BY <1>4 DEF StatesKnown
  <2> QED  BY <1>1, <1>5 DEF StatesKnown
<1>8. BaselineKept'
  BY <1>1, <1>4 DEF BaselineKept
<1>9. StatesOnDisk'
  <2> SUFFICES ASSUME NEW rd \in promised, StateOf[rd] \in Machines
               PROVE  \/ stampOf[rd] <= snapshot'[StateOf[rd]]
                      \/ \E r \in records' : StateOf[r.rd] = StateOf[rd] /\ stampOf[rd] <= r.s
    BY <1>4 DEF StatesOnDisk
  <2>1. CASE snapshot' = snapshot /\ records' = records
    BY <2>1 DEF StateInv, StatesOnDisk
  <2>2. CASE snapshot' = SavedStates
    <3>1. stateSeq[StateOf[rd]] >= stampOf[rd] /\ StateOf[rd] # NoMachine
      BY <1>1, JournalAssumption DEF BaselineKept
    <3>2. stateSeq[StateOf[rd]] \in Nat /\ stampOf[rd] \in Nat
      BY <1>1 DEF TypeOK, Seq0
    <3>3. CASE stateSeq[StateOf[rd]] <= durableSeq
      BY <2>2, <3>1, <3>2, <3>3 DEF SavedStates
    <3>4. CASE \E r \in records : /\ StateOf[r.rd] = StateOf[rd]
                                  /\ r.s = stateSeq[StateOf[rd]] /\ r.seg = active
      <4>1. PICK r \in records' : StateOf[r.rd] = StateOf[rd] /\ r.s = stateSeq[StateOf[rd]]
        BY <1>5, <3>4
      <4> QED  BY <3>1, <3>2, <4>1
    <3> QED  BY <1>1, <3>3, <3>4 DEF StatesKnown
  <2> QED  BY <1>5, <2>1, <2>2
<1> QED  BY <1>1, <1>2, <1>4, <1>5, <1>7, <1>8, <1>9 DEF StateInv

(* A process that ends leaves the files, and nothing in memory to be old.  *)
LEMMA FailingKeepsStates ==
  ASSUME StateInv, "power" \notin Faults, Failing  PROVE StateInv'
<1>1. ReaderInv' /\ BoundsInv'
  BY StepReader, StepInBounds DEF StateInv, Next
<1>2. /\ ~up' /\ records' = records /\ snapshot' = snapshot
      /\ stampOf' = stampOf /\ promised' = promised
  BY DEF Failing, Close, ProcessCrash, PowerLoss, Down, history
<1>3. StatesOnDisk'
  BY <1>2 DEF StatesOnDisk, StateInv
<1> QED  BY <1>1, <1>2, <1>3 DEF StateInv

(* Nothing is known, or accepted, before the first open().                 *)
LEMMA InitStates == Init => StateInv
<1> SUFFICES ASSUME Init  PROVE StateInv
  OBVIOUS
<1>1. ReaderInv /\ BoundsInv
  BY InitReader, InitInBounds
<1>3. ~up /\ records = {} /\ promised = {}
  BY DEF Init
<1> QED  BY <1>1, <1>3 DEF StateInv, StatesOnDisk

(* Every step keeps the states, unless the power is lost.                  *)
LEMMA StepKeepsStates ==
  ASSUME StateInv, "power" \notin Faults, [Next]_vars  PROVE StateInv'
<1>1. CASE Read \/ Abandon \/ UNCHANGED vars
  <2>1. ReaderInv' /\ BoundsInv'
    BY StepReader, StepInBounds DEF StateInv
  <2>2. /\ records' = records /\ up' = up /\ stateSeq' = stateSeq /\ snapshot' = snapshot
        /\ lastSeq' = lastSeq /\ active' = active /\ durableSeq' = durableSeq
        /\ stampOf' = stampOf /\ promised' = promised
    BY <1>1 DEF Read, Abandon, vars, diskVars, fileVars, history
  <2>3. (up => StatesKnown') /\ (up => BaselineKept') /\ StatesOnDisk'
    BY <2>2 DEF StateInv, StatesKnown, BaselineKept, StatesOnDisk
  <2> QED  BY <2>1, <2>2, <2>3 DEF StateInv
<1>2. CASE Writer
  BY <1>2, AppendKeepsStates, RefusedKeepsStates DEF Writer
<1> QED
  BY <1>1, <1>2, OpenFindsStates, SyncingKeepsStates, PromiseKeepsStates, AckKeepsStates,
     FailingKeepsStates
  DEF Next, Reader, ReaderAcks

(* A machine's counters and clock are never older after a restart than the  *)
(* last reading of it that was accepted, for any sizes and every fault but  *)
(* a loss of power.                                                        *)
THEOREM StatesSurvive == ASSUME "power" \notin Faults  PROVE Spec => []BaselineKept
<1>1. StateInv => BaselineKept
  BY DEF StateInv, BaselineKept
<1>2. StateInv /\ [Next]_vars => StateInv'
  BY StepKeepsStates
<1> QED  BY <1>1, <1>2, InitStates, PTL DEF Spec

=============================================================================
