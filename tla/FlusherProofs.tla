--------------------------- MODULE FlusherProofs ---------------------------
(***************************************************************************)
(* Proofs about the writer, the database and the journal together, for     *)
(* every value of the constants: nothing is written twice, the checkpoint  *)
(* passes only what is done with, and what the broker was told is accepted *)
(* is not lost on its way; and together they implement Delivery.           *)
(***************************************************************************)
EXTENDS Flusher, JournalProofs

(* What a step of the composition is for the journal: one of its own, an   *)
(* acknowledgement, or the end of the process.                             *)
JournalStep == [Next]_vars \/ Ack \/ (Down /\ UNCHANGED <<records, stable>>)

(* Every step of the writer, the process or the database is such a step.   *)
LEMMA StepsOfJournal ==
  ASSUME [FlusherNext]_allVars  PROVE JournalStep
BY DEF FlusherNext, OpenJournal, StartWriter, Admission, JournalSyncing, Pass,
       PassReads, PassAdvances, PassSynced, SyncRejected, PassThrows, PassAcks,
       ApplyTx, Apply, DataError, QuarantineFirst, TxFails, CommitAnswered,
       CommitFails, OrphanEnds, ProcessEnds, StartFails, allVars,
       JournalStep, Next, Reader

(* It keeps the journal's types.                                           *)
LEMMA JournalStepTyped ==
  ASSUME TypeOK, JournalStep  PROVE TypeOK'
<1>1. CASE Down /\ UNCHANGED <<records, stable>>
  BY <1>1, DownTyped DEF TypeOK
<1> QED  BY <1>1, NextTyped, AckTyped DEF JournalStep

-----------------------------------------------------------------------------
(* Types.                                                                  *)

(* The records of a transaction, and the checkpoint it moves to.           *)
LEMMA GroupBounds ==
  ASSUME FlusherTypeOK
  PROVE  /\ Group \subseteq Record /\ GroupFresh \subseteq Record
         /\ CheckpointAfter \in Seq0 /\ dbCheckpoint <= CheckpointAfter
         /\ \A r \in Group : r.s <= CheckpointAfter
<1>1. Group \subseteq Record /\ GroupFresh \subseteq Record
  BY DEF Group, GroupFresh, Fresh, FlusherTypeOK
<1> DEFINE S == {dbCheckpoint} \cup Stamps(Group)
<1>2. S \in SUBSET (0..MaxSeq) /\ S # {} /\ MaxSeq \in Nat
  BY <1>1, JournalAssumption DEF Stamps, Record, FlusherTypeOK, Seq0
<1>3. Max(S) \in S /\ \A x \in S : x <= Max(S)
  <2> HIDE DEF S
  <2> QED  BY <1>2, MaxIsGreatest
<1> QED  BY <1>1, <1>2, <1>3 DEF CheckpointAfter, Stamps, Seq0

(* The first state has its types.                                          *)
LEMMA FlusherInitTyped == FlusherInit => FlusherTypeOK
<1> SUFFICES ASSUME FlusherInit PROVE FlusherTypeOK
  OBVIOUS
<1>1. 0 \in Seq0
  BY JournalAssumption DEF Seq0
<1>2. TypeOK
  BY InitTyped DEF FlusherInit
<1>3. NoTx \in Transaction
  BY <1>1 DEF NoTx, Transaction
<1> QED  BY <1>1, <1>2, <1>3 DEF FlusherInit, FlusherTypeOK

(* COMMIT.                                                                 *)
LEMMA CommitTyped ==
  ASSUME FlusherTypeOK, CommitEffect
  PROVE  dbCheckpoint' \in Seq0 /\ rows' \in [Readings -> Nat] /\ tx' \in Transaction
<1>1. dbCheckpoint \in Int /\ tx.to \in Int /\ dbCheckpoint \in Seq0 /\ tx.to \in Seq0
  BY DEF FlusherTypeOK, Transaction, Seq0
<1>2. dbCheckpoint' \in {dbCheckpoint, tx.to}
  BY <1>1, MaxOfTwo DEF CommitEffect
<1>3. NoTx \in Transaction
  BY JournalAssumption DEF NoTx, Transaction, Seq0
<1> QED  BY <1>1, <1>2, <1>3 DEF CommitEffect, FlusherTypeOK

(* pass() keeps the types,                                                 *)
LEMMA PassTyped ==
  ASSUME FlusherTypeOK, Pass  PROVE FlusherTypeOK'
<1>1. TypeOK'
  BY StepsOfJournal, JournalStepTyped DEF FlusherNext, FlusherTypeOK
<1>2. CASE PassReads
  BY <1>1, <1>2 DEF PassReads, FlusherTypeOK, dbVars
<1>3. CASE PassAdvances
  BY <1>1, <1>3 DEF PassAdvances, FlusherTypeOK, flusherVars, dbVars
<1>4. CASE PassSynced
  <2>1. todo' \subseteq Record
    BY <1>4 DEF PassSynced, Fresh, FlusherTypeOK, TypeOK
  <2> QED  BY <1>1, <1>4, <2>1 DEF PassSynced, FlusherTypeOK, dbVars
<1>5. CASE SyncRejected
  BY <1>1, <1>5 DEF SyncRejected, PassThrows, FlusherTypeOK, dbVars
<1>6. CASE PassAcks
  BY <1>1, <1>6 DEF PassAcks, FlusherTypeOK, dbVars
<1> QED  BY <1>2, <1>3, <1>4, <1>5, <1>6 DEF Pass

(* and so does applyTx(), answered or not.                                 *)
LEMMA ApplyTxTyped ==
  ASSUME FlusherTypeOK, ApplyTx  PROVE FlusherTypeOK'
<1>1. TypeOK'
  BY StepsOfJournal, JournalStepTyped DEF FlusherNext, FlusherTypeOK
<1>2. NoTx \in Transaction /\ tx \in Transaction
  BY JournalAssumption DEF NoTx, Transaction, Seq0, FlusherTypeOK
<1>3. CASE Apply
  <2>1. tx' \in Transaction
    BY <1>3, GroupBounds DEF Apply, Transaction
  <2> QED  BY <1>1, <1>3, <2>1 DEF Apply, FlusherTypeOK
<1>4. CASE DataError
  BY <1>1, <1>4 DEF DataError, FlusherTypeOK, dbVars
<1>5. CASE QuarantineFirst
  <2>1. Rejected \subseteq Readings
    BY GroupBounds DEF Rejected, ReadingsOf, Record
  <2> QED  BY <1>1, <1>5, <2>1 DEF QuarantineFirst, PassThrows, FlusherTypeOK, dbVars
<1>6. CASE TxFails
  <2>1. tx' \in Transaction
    BY <1>2, <1>6 DEF TxFails, Transaction
  <2> QED  BY <1>1, <1>6, <2>1 DEF TxFails, PassThrows, FlusherTypeOK
<1>7. CASE CommitAnswered
  <2>1. dbCheckpoint' \in Seq0 /\ rows' \in [Readings -> Nat] /\ tx' \in Transaction
    BY <1>7, CommitTyped DEF CommitAnswered
  <2>2. checkpoint' \in Seq0
    <3>1. checkpoint \in Int /\ tx.to \in Int /\ checkpoint \in Seq0 /\ tx.to \in Seq0
      BY DEF FlusherTypeOK, Transaction, Seq0
    <3> QED  BY <1>7, <3>1, MaxOfTwo DEF CommitAnswered
  <2> QED  BY <1>1, <1>7, <2>1, <2>2 DEF CommitAnswered, FlusherTypeOK
<1>8. CASE CommitFails
  <2>1. [tx EXCEPT !.client = FALSE, !.sent = TRUE] \in Transaction
    BY <1>2 DEF Transaction
  <2>2. dbCheckpoint' \in Seq0 /\ rows' \in [Readings -> Nat] /\ tx' \in Transaction
    BY <1>2, <1>8, <2>1, CommitTyped DEF CommitFails, FlusherTypeOK
  <2> QED  BY <1>1, <1>8, <2>2 DEF CommitFails, PassThrows, FlusherTypeOK
<1> QED  BY <1>3, <1>4, <1>5, <1>6, <1>7, <1>8 DEF ApplyTx

(* Every step keeps the types.                                             *)
LEMMA FlusherNextTyped ==
  ASSUME FlusherTypeOK, [FlusherNext]_allVars  PROVE FlusherTypeOK'
<1>1. TypeOK'
  BY StepsOfJournal, JournalStepTyped DEF FlusherTypeOK
<1>2. CASE OpenJournal \/ Admission \/ JournalSyncing \/ UNCHANGED allVars
  BY <1>1, <1>2
  DEF OpenJournal, Admission, JournalSyncing, allVars, flusherVars, dbVars, FlusherTypeOK
<1>3. CASE StartWriter
  BY <1>1, <1>3 DEF StartWriter, FlusherTypeOK, dbVars
<1>4. CASE OrphanEnds
  <2>1. dbCheckpoint' \in Seq0 /\ rows' \in [Readings -> Nat] /\ tx' \in Transaction
    <3>1. NoTx \in Transaction
      BY JournalAssumption DEF NoTx, Transaction, Seq0
    <3>2. CASE CommitEffect
      BY <3>2, CommitTyped
    <3>3. CASE tx' = NoTx /\ UNCHANGED <<dbCheckpoint, rows>>
      BY <3>1, <3>3 DEF FlusherTypeOK
    <3> QED  BY <1>4, <3>2, <3>3 DEF OrphanEnds
  <2> QED  BY <1>1, <1>4, <2>1 DEF OrphanEnds, flusherVars, FlusherTypeOK
<1>5. CASE ProcessEnds
  <2>1. tx' \in Transaction
    <3>1. tx' = tx \/ \E sent \in BOOLEAN : tx' = [tx EXCEPT !.client = FALSE, !.sent = sent]
      BY <1>5 DEF ProcessEnds
    <3> QED  BY <3>1 DEF FlusherTypeOK, Transaction
  <2>2. checkpoint' \in Seq0
    <3>1. 0 \in Seq0
      BY JournalAssumption DEF Seq0
    <3> QED  BY <1>5, <3>1 DEF ProcessEnds
  <2> QED  BY <1>1, <1>5, <2>1, <2>2 DEF ProcessEnds, FlusherTypeOK
<1> QED
  BY <1>2, <1>3, <1>4, <1>5, PassTyped, ApplyTxTyped DEF FlusherNext

(* Every reachable state of the writer has its types, whatever the faults.  *)
THEOREM FlusherTyping == FlusherSpec => []FlusherTypeOK
<1> QED  BY FlusherInitTyped, FlusherNextTyped, PTL DEF FlusherSpec

-----------------------------------------------------------------------------
(* Nothing is written twice.  A number belongs to one reading for good ...  *)
Carried == records \cup taken.recs \cup todo \cup tx.write

(* ... a reading in the database is at or below the checkpoint, and a       *)
(* transaction writes only what is above it.                                *)
WriteInv ==
  /\ FlusherTypeOK
  /\ \A r \in Carried : stampOf[r.rd] = r.s
  /\ \A rd \in Readings : rows[rd] > 0 => rows[rd] = 1 /\ stampOf[rd] \in 1..dbCheckpoint
  /\ \A r \in tx.write : dbCheckpoint < r.s /\ r.s <= tx.to

(* Nothing is written at first.                                            *)
LEMMA InitWrite == FlusherInit => WriteInv
BY FlusherInitTyped DEF FlusherInit, Init, WriteInv, Carried, NoRead, NoTx

(* The journal gives a number once, to a reading that had none.             *)
LEMMA StampsStay ==
  ASSUME TypeOK, JournalStep, \A r \in records \cup taken.recs : stampOf[r.rd] = r.s
  PROVE  /\ \A rd \in Readings : stampOf[rd] # 0 => stampOf'[rd] = stampOf[rd]
         /\ \A r \in records' \cup taken.recs' : stampOf'[r.rd] = r.s
<1>1. CASE \E rd \in Readings, aged \in BOOLEAN : Append(rd, aged)
  <2>0. PICK rd \in Readings, aged \in BOOLEAN : Append(rd, aged)
    BY <1>1
  <2>1. PICK seg, seq :
          /\ records' = records \cup {[seg |-> seg, s |-> seq, rd |-> rd]}
          /\ stampOf' = [stampOf EXCEPT ![rd] = seq]
          /\ taken' = taken /\ stampOf[rd] = 0
    <3>1. \E seg, seq : Write(rd, seg, seq)
      BY <2>0 DEF Append
    <3> QED  BY <2>0, <3>1 DEF Append, Write, readVars
  <2>2. \A r \in records \cup taken.recs : r.rd \in Readings /\ r.s # 0 /\ r.rd # rd
    BY <2>1 DEF TypeOK, Record
  <2> QED  BY <2>1, <2>2 DEF TypeOK
<1>2. CASE stampOf' = stampOf /\ records' \cup taken.recs' \subseteq records \cup taken.recs
  BY <1>2
<1>3. CASE ~\E rd \in Readings, aged \in BOOLEAN : Append(rd, aged)
  <2>1. stampOf' = stampOf
    BY <1>3 DEF JournalStep, Next, Writer, Open, AppendRefused, RotateFails, Syncing,
      TimerFires, TimerSyncEnds, SyncStarts, SyncEnds, Promise, Reader, Read, ReaderAcks,
      Ack, AckAdvance, MoveCursor, Abandon, Failing, Close, ProcessCrash, PowerLoss,
      Down, history, vars
  <2>2. records' \subseteq records
    BY <1>3 DEF JournalStep, Next, Writer, Open, AppendRefused, RotateFails, Syncing,
      TimerFires, TimerSyncEnds, SyncStarts, SyncEnds, Promise, Reader, Read, ReaderAcks,
      Ack, AckAdvance, MoveCursor, DropConsumed, Abandon, Failing, Close, ProcessCrash,
      PowerLoss, diskVars, vars, TypeOK
  <2>3. taken' = taken \/ taken' = NoRead \/ Read
    BY <1>3 DEF JournalStep, Next, Writer, Open, AppendRefused, RotateFails, Syncing,
      TimerFires, TimerSyncEnds, SyncStarts, SyncEnds, Promise, Reader, Read, ReaderAcks,
      Ack, AckAdvance, MoveCursor, Abandon, Failing, Close, ProcessCrash, PowerLoss,
      Down, readVars, vars
  <2>4. ASSUME Read  PROVE taken'.recs \subseteq records
    BY <2>4 DEF Read, Batch, Unread, Listed
  <2> QED  BY <1>2, <2>1, <2>2, <2>3, <2>4 DEF NoRead
<1> QED  BY <1>1, <1>3

(* What is on disk or in hand keeps its number, whoever hands it on.       *)
LEMMA CarriedStays ==
  ASSUME WriteInv, [FlusherNext]_allVars, todo' \subseteq Carried, tx'.write \subseteq Carried
  PROVE  /\ FlusherTypeOK'
         /\ \A r \in Carried' : stampOf'[r.rd] = r.s
         /\ \A rd \in Readings : rows[rd] > 0 => stampOf'[rd] = stampOf[rd]
<1>1. FlusherTypeOK'
  BY FlusherNextTyped DEF WriteInv
<1>2. /\ \A rd \in Readings : stampOf[rd] # 0 => stampOf'[rd] = stampOf[rd]
      /\ \A r \in records' \cup taken.recs' : stampOf'[r.rd] = r.s
  BY StepsOfJournal, StampsStay DEF WriteInv, Carried, FlusherTypeOK
<1>3. \A r \in Carried : r.rd \in Readings /\ stampOf[r.rd] = r.s /\ r.s # 0
  BY DEF WriteInv, Carried, FlusherTypeOK, TypeOK, Transaction, Record
<1>4. \A r \in Carried' : stampOf'[r.rd] = r.s
  BY <1>2, <1>3 DEF Carried
<1>5. \A rd \in Readings : rows[rd] > 0 => stampOf[rd] # 0
  <2>1. dbCheckpoint \in Nat
    BY DEF WriteInv, FlusherTypeOK, Seq0
  <2> QED  BY <2>1 DEF WriteInv
<1> QED  BY <1>1, <1>2, <1>4, <1>5

(* Only a COMMIT changes what the database holds; otherwise a transaction   *)
(* begins, goes on as it is, or is gone.                                   *)
LEMMA TransactionSteps ==
  ASSUME FlusherTypeOK, [FlusherNext]_allVars, ~CommitEffect
  PROVE  /\ rows' = rows /\ dbCheckpoint' = dbCheckpoint
         /\ \/ tx'.write = {} /\ tx'.to = 0
            \/ tx'.write = tx.write /\ tx'.to = tx.to
            \/ Apply
<1>1. rows' = rows /\ dbCheckpoint' = dbCheckpoint
  BY DEF FlusherNext, OpenJournal, StartWriter, Admission, JournalSyncing, Pass,
     PassReads, PassAdvances, PassSynced, SyncRejected, PassAcks,
     ApplyTx, Apply, DataError, QuarantineFirst, TxFails, CommitAnswered,
     CommitFails, OrphanEnds, ProcessEnds, allVars, dbVars
<1>2. \/ tx' \in {tx, NoTx, [NoTx EXCEPT !.open = TRUE]}
      \/ \E sent \in BOOLEAN : tx' = [tx EXCEPT !.client = FALSE, !.sent = sent]
      \/ Apply
  BY DEF FlusherNext, OpenJournal, StartWriter, Admission, JournalSyncing, Pass,
     PassReads, PassAdvances, PassSynced, SyncRejected, PassAcks,
     ApplyTx, DataError, QuarantineFirst, TxFails, CommitAnswered,
     CommitFails, OrphanEnds, ProcessEnds, allVars, dbVars
<1>3. tx \in Transaction
  BY DEF FlusherTypeOK
<1>4. CASE tx' \in {tx, NoTx, [NoTx EXCEPT !.open = TRUE]}
  BY <1>1, <1>4 DEF NoTx
<1>5. CASE \E sent \in BOOLEAN : tx' = [tx EXCEPT !.client = FALSE, !.sent = sent]
  BY <1>1, <1>3, <1>5 DEF Transaction
<1> QED  BY <1>1, <1>2, <1>4, <1>5

(* A step that commits nothing; it may open a transaction of its own.       *)
LEMMA WithoutCommit ==
  ASSUME WriteInv, [FlusherNext]_allVars, todo' \subseteq Carried,
         rows' = rows, dbCheckpoint' = dbCheckpoint,
         \/ tx'.write = {}
         \/ tx'.write = tx.write /\ tx'.to = tx.to
         \/ Apply
  PROVE  WriteInv'
<1>1. tx'.write \subseteq Carried /\ \A r \in tx'.write : dbCheckpoint < r.s /\ r.s <= tx'.to
  <2>1. CASE tx'.write = {}
    BY <2>1
  <2>2. CASE tx'.write = tx.write /\ tx'.to = tx.to
    BY <2>2 DEF WriteInv, Carried
  <2>3. CASE Apply
    <3>1. tx'.write \subseteq GroupFresh /\ tx'.to = CheckpointAfter
      BY <2>3 DEF Apply
    <3>2. \A r \in GroupFresh : r \in todo /\ dbCheckpoint < r.s /\ r.s <= CheckpointAfter
      <4>1. \A r \in Group : r.s <= CheckpointAfter /\ r.s \in Nat
        BY GroupBounds DEF WriteInv, Record
      <4>2. dbCheckpoint \in Nat /\ Group \subseteq todo
        BY DEF WriteInv, FlusherTypeOK, Seq0, Group
      <4> QED  BY <4>1, <4>2 DEF GroupFresh, Fresh
    <3> QED  BY <3>1, <3>2 DEF Carried
  <2> QED  BY <2>1, <2>2, <2>3
<1>2. /\ FlusherTypeOK'
      /\ \A r \in Carried' : stampOf'[r.rd] = r.s
      /\ \A rd \in Readings : rows[rd] > 0 => stampOf'[rd] = stampOf[rd]
  BY <1>1, CarriedStays
<1>3. \A rd \in Readings : rows'[rd] > 0 => rows'[rd] = 1 /\ stampOf'[rd] \in 1..dbCheckpoint'
  BY <1>2 DEF WriteInv
<1> QED  BY <1>1, <1>2, <1>3 DEF WriteInv

(* COMMIT: what it writes was above the checkpoint, so not in the database. *)
LEMMA WithCommit ==
  ASSUME WriteInv, [FlusherNext]_allVars, todo' \subseteq Carried, CommitEffect
  PROVE  WriteInv'
<1>1. tx'.write = {}
  BY DEF CommitEffect, NoTx
<1>2. /\ FlusherTypeOK'
      /\ \A r \in Carried' : stampOf'[r.rd] = r.s
      /\ \A rd \in Readings : rows[rd] > 0 => stampOf'[rd] = stampOf[rd]
  BY <1>1, CarriedStays
<1>3. dbCheckpoint \in Nat /\ tx.to \in Nat /\ dbCheckpoint' \in Nat
      /\ dbCheckpoint <= dbCheckpoint' /\ tx.to <= dbCheckpoint'
  <2>1. dbCheckpoint \in Nat /\ tx.to \in Nat
    BY DEF WriteInv, FlusherTypeOK, Transaction, Seq0
  <2>2. dbCheckpoint \in Int /\ tx.to \in Int
    BY <2>1
  <2>3. /\ dbCheckpoint' \in {dbCheckpoint, tx.to}
        /\ dbCheckpoint <= dbCheckpoint' /\ tx.to <= dbCheckpoint'
    BY <2>2, MaxOfTwo DEF CommitEffect
  <2> QED  BY <2>1, <2>3
<1>4. ASSUME NEW rd \in Readings, rows'[rd] > 0
      PROVE  rows'[rd] = 1 /\ stampOf'[rd] \in 1..dbCheckpoint'
  <2>1. rows[rd] \in Nat
    BY DEF WriteInv, FlusherTypeOK
  <2>2. CASE rd \in ReadingsOf(tx.write)
    <3>1. PICK r \in tx.write : r.rd = rd
      BY <2>2 DEF ReadingsOf
    <3>2. /\ r.s \in Nat \ {0} /\ stampOf[rd] = r.s
          /\ dbCheckpoint < r.s /\ r.s <= tx.to
      BY <3>1 DEF WriteInv, Carried, FlusherTypeOK, Transaction, Record
    <3>3. rows[rd] = 0
      BY <1>3, <2>1, <3>2 DEF WriteInv
    <3>4. rows'[rd] = 1
      BY <2>2, <3>3 DEF CommitEffect
    <3>5. stampOf'[rd] = stampOf[rd]
      BY <3>2, StepsOfJournal, StampsStay DEF WriteInv, Carried, FlusherTypeOK
    <3> QED  BY <1>3, <3>2, <3>4, <3>5
  <2>3. CASE rd \notin ReadingsOf(tx.write)
    <3>1. rows'[rd] = rows[rd]
      BY <2>3 DEF CommitEffect
    <3> QED  BY <1>2, <1>3, <1>4, <3>1 DEF WriteInv
  <2> QED  BY <2>2, <2>3
<1> QED  BY <1>1, <1>2, <1>4 DEF WriteInv

(* Every step keeps the invariant.                                         *)
LEMMA NextWrite ==
  ASSUME WriteInv, [FlusherNext]_allVars  PROVE WriteInv'
<1>1. todo' \subseteq Carried
  BY DEF FlusherNext, OpenJournal, StartWriter, Admission, JournalSyncing, Pass,
       PassReads, PassAdvances, PassSynced, Fresh, SyncRejected, PassThrows, PassAcks,
       ApplyTx, Apply, DataError, QuarantineFirst, TxFails, CommitAnswered,
       CommitFails, OrphanEnds, ProcessEnds, allVars, flusherVars, Carried
<1>2. CASE CommitEffect
  BY <1>1, <1>2, WithCommit
<1>3. CASE ~CommitEffect
  BY <1>1, <1>3, TransactionSteps, WithoutCommit DEF WriteInv
<1> QED  BY <1>2, <1>3

(* Nothing is written twice, whatever is retried and whatever fails: for    *)
(* every number of readings, batch size, segment size and set of faults,    *)
(* clock steps and lost COMMIT answers included.                            *)
THEOREM ExactlyOnce == FlusherSpec => []WrittenOnce
<1>1. WriteInv => WrittenOnce
  <2> SUFFICES ASSUME WriteInv, NEW rd \in Readings  PROVE rows[rd] <= 1
    BY DEF WrittenOnce
  <2>1. rows[rd] \in Nat
    BY DEF WriteInv, FlusherTypeOK
  <2> QED  BY <2>1 DEF WriteInv
<1>2. WriteInv /\ [FlusherNext]_allVars => WriteInv'
  BY NextWrite
<1> QED  BY <1>1, <1>2, InitWrite, PTL DEF FlusherSpec

-----------------------------------------------------------------------------
(* The journal knows of every file with records the database lacks.        *)
Located ==
  /\ ReaderInv
  /\ up => \A r \in records : r \in Listed \/ r.rd \in consumed
  /\ taken.busy => \A r \in taken.recs : r.s <= taken.seq
  /\ ~up => lastSeq = 0

(* A number that every later record will be above.                         *)
Behind(n) == n <= lastSeq \/ n < clock

(* The checkpoint, and the one a transaction moves it to, pass only records *)
(* that are done with or that the same COMMIT writes.                      *)
Passing ==
  /\ Behind(dbCheckpoint) /\ Behind(tx.to)
  /\ \A r \in records : r.s <= dbCheckpoint => Settled(r.rd)
  /\ \A r \in records : r.s <= tx.to => r \in tx.write \/ Settled(r.rd)

(* What a pass has taken is still to do or done with.                      *)
Applying ==
  /\ up <=> pc # "down"
  /\ taken.busy <=> pc \in {"sync", "begin", "commit", "quarantine", "ack"}
  /\ checkpoint <= dbCheckpoint
  /\ pc \in {"begin", "commit", "quarantine"} =>
       /\ todo \subseteq taken.recs
       /\ \A r \in taken.recs : r \in todo \/ Settled(r.rd)
  /\ pc = "ack" => \A r \in taken.recs : Settled(r.rd)
  /\ pc \in {"begin", "commit"} /\ mode = "skip" => Rejected \subseteq quarantined
  /\ pc = "quarantine" => mode = "one"
  /\ pc = "commit" => /\ tx.open /\ tx.client
                      /\ \A r \in Group : r \in tx.write \/ Settled(r.rd)

SettledInv ==
  /\ WriteInv /\ Located /\ Passing /\ Applying
  /\ \A rd \in consumed : Settled(rd)

-----------------------------------------------------------------------------
(* The journal's part.  A deleted file's records are in the database, also  *)
(* those of a file whose deletion failed.                                  *)
LEMMA AckLocated ==
  ASSUME Located, Ack \/ AckAdvance  PROVE Located'
<1>1. ReaderInv'
  BY AckReader DEF Located
<1>2. PICK position :
        /\ MoveCursor(position) /\ Passed(position)
        /\ \A r \in Listed : r.s <= position.seq => r.rd \in consumed'
  BY AckMovesOn DEF Located
<1>3. \A r \in records' : r \in records /\ (r.seg \in segments => r.seg \in segments' \/ r.seg < position.seg)
  BY <1>2 DEF MoveCursor, DropConsumed, diskVars
<1>4. consumed \subseteq consumed' /\ ~taken'.busy /\ up /\ up' = up
  BY DEF Ack, AckAdvance, NoRead, MoveCursor, Located, ReaderInv
<1>5. ASSUME NEW r \in records'  PROVE r \in Listed' \/ r.rd \in consumed'
  <2>1. CASE r \in Listed
    BY <1>2, <1>3, <2>1 DEF Passed, Listed
  <2>2. CASE r \notin Listed
    BY <1>3, <1>4, <2>2 DEF Located
  <2> QED  BY <2>1, <2>2
<1> QED  BY <1>1, <1>4, <1>5 DEF Located

(* append() writes to a file that is in the list.                          *)
LEMMA WriterLocated ==
  ASSUME Located, Writer  PROVE Located'
<1>1. ReaderInv'
  BY StepReader DEF Located, Next
<1>2. up /\ up' = up /\ taken' = taken /\ consumed' = consumed
  BY DEF Writer, Append, Write, AppendRefused, RotateFails, readVars, history
<1>3. \A r \in records' : r \in records \/ r.seg \in segments'
  <2>1. ASSUME NEW rd \in Readings, NEW aged \in BOOLEAN, Append(rd, aged)
        PROVE  \A r \in records' : r \in records \/ r.seg \in segments'
    <3>1. PICK seg, seq : /\ records' = records \cup {[seg |-> seg, s |-> seq, rd |-> rd]}
                          /\ seg \in segments'
      BY <2>1 DEF Append, Write
    <3> QED  BY <3>1
  <2>2. ASSUME NEW aged \in BOOLEAN, AppendRefused(aged) \/ RotateFails(aged)
        PROVE  records' = records
    BY <2>2 DEF AppendRefused, RotateFails
  <2> QED  BY <2>1, <2>2 DEF Writer
<1>4. segments \subseteq segments'
  BY DEF Writer, Append, AppendRefused, RotateFails
<1>5. \A r \in records' : r \in Listed' \/ r.rd \in consumed'
  BY <1>2, <1>3, <1>4 DEF Located, Listed
<1> QED  BY <1>1, <1>2, <1>5 DEF Located

(* Every step, as the journal sees it.                                     *)
LEMMA StepLocated ==
  ASSUME Located, JournalStep  PROVE Located'
<1>1. ReaderInv' /\ TypeOK
  BY StepReader DEF Located, JournalStep, ReaderInv, OrderInv
<1>2. CASE Open
  <2>1. /\ records' = records /\ up' /\ ~taken'.busy
        /\ segments' = {r.seg : r \in records} \cup {active'}
    BY <1>1, <1>2 DEF Open, diskVars, Located, ReaderInv
  <2>2. \A r \in records' : r \in Listed'
    BY <2>1 DEF Listed
  <2> QED  BY <1>1, <2>1, <2>2 DEF Located
<1>3. CASE Failing \/ (Down /\ UNCHANGED <<records, stable>>)
  <2>1. ~up' /\ ~taken'.busy /\ lastSeq' = 0
    BY <1>3 DEF Failing, Close, ProcessCrash, PowerLoss, Down, NoRead
  <2> QED  BY <1>1, <2>1 DEF Located
<1>4. CASE Read
  <2>1. /\ up' = up /\ records' = records /\ segments' = segments /\ consumed' = consumed
        /\ lastSeq' = lastSeq
        /\ taken'.recs = Batch /\ taken'.seq = PositionAfter(Batch).seq
    BY <1>4 DEF Read, diskVars, fileVars, history
  <2>2. \A r \in Batch : r.s <= PositionAfter(Batch).seq
    BY <1>1, <1>4, PositionBounds DEF Read
  <2> QED  BY <1>1, <2>1, <2>2 DEF Located, Listed
<1>5. CASE Syncing \/ Promise \/ Abandon \/ UNCHANGED vars
  <2>1. /\ up' = up /\ records' = records /\ segments' = segments /\ consumed' = consumed
        /\ lastSeq' = lastSeq /\ (taken' = taken \/ taken' = NoRead)
    BY <1>5 DEF Syncing, TimerFires, TimerSyncEnds, SyncStarts, SyncEnds, Promise, Abandon,
                vars, diskVars, fileVars, readVars, history
  <2> QED  BY <1>1, <2>1 DEF Located, Listed, NoRead
<1> QED
  BY <1>2, <1>3, <1>4, <1>5, AckLocated, WriterLocated
  DEF JournalStep, Next, Reader, ReaderAcks

(* Numbers move on: unless the clock is set back, what a number is behind   *)
(* stays ahead of it, and a new record is ahead of all of them.            *)
LEMMA NumbersMoveOn ==
  ASSUME Located, JournalStep, "clock" \notin Faults, NEW n \in Nat, Behind(n)
  PROVE  /\ Behind(n)'
         /\ \A r \in records' : r \in records \/ n < r.s
<1>1. TypeOK /\ lastSeq \in Nat /\ clock \in Nat /\ (~up => lastSeq = 0)
  BY DEF Located, ReaderInv, OrderInv, TypeOK, Seq0
<1>2. TypeOK' /\ lastSeq' \in Nat /\ clock' \in Nat
  <2>1. TypeOK'
    BY <1>1, JournalStepTyped
  <2> QED  BY <2>1 DEF TypeOK, Seq0
<1>3. CASE Open
  <2>1. clock <= clock'
    <3>1. PICK gap \in 0..MaxGap : clock' = FirstSeq + gap
      BY <1>3 DEF Open
    <3>2. RecoveredSeq + 1 \in Int /\ clock \in Int
      BY <1>1, RecoveredSeqBounds DEF Seq0
    <3>3. FirstSeq \in Int /\ clock <= FirstSeq
      BY <1>1, <3>2, MaxOfTwo DEF FirstSeq
    <3>4. gap \in Nat
      BY JournalAssumption
    <3> QED  BY <1>1, <3>1, <3>3, <3>4
  <2>2. records' = records /\ ~up
    BY <1>3 DEF Open, diskVars
  <2> QED  BY <1>1, <1>2, <2>1, <2>2 DEF Behind
<1>4. CASE Writer
  <2>1. clock' = clock /\ lastSeq <= lastSeq'
    <3>1. ASSUME NEW rd \in Readings, NEW aged \in BOOLEAN, Append(rd, aged)
          PROVE  clock' = clock /\ lastSeq' \in NextSeq
      BY <3>1 DEF Append, Write
    <3>2. ASSUME NEW aged \in BOOLEAN, AppendRefused(aged)
          PROVE  clock' = clock /\ lastSeq' \in NextSeq
      BY <3>2 DEF AppendRefused
    <3>3. ASSUME NEW aged \in BOOLEAN, RotateFails(aged)
          PROVE  clock' = clock /\ lastSeq' = lastSeq
      BY <3>3 DEF RotateFails
    <3>4. clock' = clock /\ (lastSeq' = lastSeq \/ lastSeq' \in NextSeq)
      BY <1>4, <3>1, <3>2, <3>3 DEF Writer
    <3> QED  BY <1>1, <3>4, NextSeqBounds
  <2>2. \A r \in records' : r \in records \/ r.s \in NextSeq
    <3>1. ASSUME NEW rd \in Readings, NEW aged \in BOOLEAN, Append(rd, aged)
          PROVE  \A r \in records' : r \in records \/ r.s \in NextSeq
      <4>1. PICK seg, seq : /\ records' = records \cup {[seg |-> seg, s |-> seq, rd |-> rd]}
                            /\ seq \in NextSeq
        BY <3>1 DEF Append, Write
      <4> QED  BY <4>1
    <3>2. ASSUME NEW aged \in BOOLEAN, AppendRefused(aged) \/ RotateFails(aged)
          PROVE  records' = records
      BY <3>2 DEF AppendRefused, RotateFails
    <3> QED  BY <1>4, <3>1, <3>2 DEF Writer
  <2>3. \A seq \in NextSeq : seq \in Nat /\ lastSeq < seq /\ clock <= seq
    BY <1>1, NextSeqBounds
  <2> QED  BY <1>1, <1>2, <2>1, <2>2, <2>3 DEF Behind
<1>5. CASE Failing \/ (Down /\ UNCHANGED <<records, stable>>)
  <2>1. Down /\ records' \subseteq records
    BY <1>1, <1>5 DEF Failing, Close, ProcessCrash, PowerLoss, TypeOK
  <2>2. clock' = Max({clock, lastSeq + 1})
    BY <2>1 DEF Down
  <2>3. clock <= clock' /\ lastSeq + 1 <= clock'
    <3>1. clock \in Int /\ lastSeq + 1 \in Int
      BY <1>1
    <3> QED  BY <2>2, <3>1, MaxOfTwo
  <2> QED  BY <1>1, <1>2, <2>1, <2>3 DEF Behind
<1>6. CASE Syncing \/ Promise \/ Reader \/ Ack \/ UNCHANGED vars
  <2>1. clock' = clock /\ lastSeq' = lastSeq /\ records' \subseteq records
    BY <1>6
    DEF Syncing, TimerFires, TimerSyncEnds, SyncStarts, SyncEnds, Promise, Reader, Read,
        ReaderAcks, Ack, AckAdvance, MoveCursor, DropConsumed, Abandon, vars, diskVars
  <2> QED  BY <2>1 DEF Behind
<1> QED  BY <1>3, <1>4, <1>5, <1>6 DEF JournalStep, Next

-----------------------------------------------------------------------------
(* The writer's part.  What is done with stays done with.                  *)
LEMMA SettledStays ==
  ASSUME FlusherTypeOK, [FlusherNext]_allVars
  PROVE  /\ quarantined \subseteq quarantined'
         /\ \A rd \in Readings : Settled(rd) => Settled(rd)'
<1>1. quarantined \subseteq quarantined'
  BY DEF FlusherNext, OpenJournal, StartWriter, Admission, JournalSyncing, Pass,
     PassReads, PassAdvances, PassSynced, SyncRejected, PassThrows, PassAcks,
     ApplyTx, Apply, DataError, QuarantineFirst, TxFails, CommitAnswered,
     CommitFails, OrphanEnds, ProcessEnds, allVars, flusherVars
<1>2. \A rd \in Readings : rows[rd] > 0 => rows'[rd] > 0
  <2>1. \A rd \in Readings : rows[rd] \in Nat
    BY DEF FlusherTypeOK
  <2>2. CASE CommitEffect
    BY <2>1, <2>2 DEF CommitEffect
  <2>3. CASE ~CommitEffect
    BY <2>3, TransactionSteps
  <2> QED  BY <2>2, <2>3
<1> QED  BY <1>1, <1>2 DEF Settled

(* COMMIT writes what its transaction holds.                               *)
LEMMA CommitSettles ==
  ASSUME FlusherTypeOK, CommitEffect
  PROVE  /\ \A r \in tx.write : Settled(r.rd)'
         /\ dbCheckpoint' \in {dbCheckpoint, tx.to} /\ tx' = NoTx
         /\ dbCheckpoint <= dbCheckpoint' /\ tx.to <= dbCheckpoint'
<1>1. \A r \in tx.write : r.rd \in Readings /\ rows[r.rd] \in Nat
  BY DEF FlusherTypeOK, Transaction, Record
<1>2. \A r \in tx.write : rows'[r.rd] > 0
  BY <1>1 DEF CommitEffect, ReadingsOf
<1>3. dbCheckpoint \in Int /\ tx.to \in Int
  BY DEF FlusherTypeOK, Transaction, Seq0
<1> QED  BY <1>2, <1>3, MaxOfTwo DEF CommitEffect, Settled

(* Apply: of what is on disk up to the new checkpoint, all is done with or  *)
(* in the transaction.                                                     *)
LEMMA ApplyCovers ==
  ASSUME SettledInv, Apply
  PROVE  /\ \A r \in Group : r \in tx'.write \/ Settled(r.rd)
         /\ \A r \in records : r.s <= tx'.to => r \in tx'.write \/ Settled(r.rd)
         /\ Behind(tx'.to)
<1>1. /\ tx'.write = IF mode = "skip" THEN {} ELSE GroupFresh
      /\ tx'.to = CheckpointAfter /\ pc = "begin"
  BY DEF Apply
<1>2. /\ FlusherTypeOK /\ ReaderInv /\ OrderInv /\ dbCheckpoint \in Nat
  BY DEF SettledInv, WriteInv, Located, ReaderInv, FlusherTypeOK, Seq0
<1>3. /\ up /\ taken.busy /\ todo \subseteq taken.recs /\ taken.recs \subseteq records
      /\ \A r \in taken.recs : r.s <= taken.seq
  BY <1>1 DEF SettledInv, Applying, Located, ReaderInv
<1>4. Group \subseteq todo /\ \A r \in records : r.s \in Nat
  BY <1>2 DEF Group, OrderInv, TypeOK, Record
<1>5. ASSUME NEW r \in Group  PROVE r \in tx'.write \/ Settled(r.rd)
  <2>1. CASE mode = "skip"
    <3>1. r.rd \in quarantined
      BY <1>1, <1>5, <2>1 DEF SettledInv, Applying, Rejected, ReadingsOf
    <3> QED  BY <3>1 DEF Settled
  <2>2. CASE mode # "skip" /\ r.s > dbCheckpoint
    BY <1>1, <1>5, <2>2 DEF GroupFresh, Fresh
  <2>3. CASE ~(r.s > dbCheckpoint)
    <3>1. r \in records /\ r.s <= dbCheckpoint
      BY <1>2, <1>3, <1>4, <1>5, <2>3
    <3> QED  BY <3>1 DEF SettledInv, Passing
  <2> QED  BY <2>1, <2>2, <2>3
<1>6. CheckpointAfter = dbCheckpoint \/ \E g \in Group : CheckpointAfter = g.s
  <2> DEFINE S == {dbCheckpoint} \cup Stamps(Group)
  <2>1. S \in SUBSET (0..MaxSeq) /\ S # {} /\ MaxSeq \in Nat
    <3>1. Group \subseteq Record
      BY <1>2, GroupBounds
    <3> QED  BY <1>2, <3>1, JournalAssumption DEF Stamps, Record, FlusherTypeOK, Seq0
  <2>2. Max(S) \in S
    <3> HIDE DEF S
    <3> QED  BY <2>1, MaxIsGreatest
  <2> QED  BY <2>2 DEF CheckpointAfter, Stamps
<1>7. ASSUME NEW r \in records, r.s <= CheckpointAfter
      PROVE  r \in tx'.write \/ Settled(r.rd)
  <2>1. CASE CheckpointAfter = dbCheckpoint
    BY <1>7, <2>1 DEF SettledInv, Passing
  <2>2. CASE CheckpointAfter # dbCheckpoint
    <3>1. PICK g \in Group : CheckpointAfter = g.s
      BY <1>6, <2>2
    <3>2. g \in todo /\ g \in taken.recs /\ g \in records /\ r.s <= g.s
      BY <1>3, <1>4, <1>7, <3>1
    <3>3. r.s <= taken.seq
      <4>1. g.s <= taken.seq /\ taken.seq \in Nat
        BY <1>2, <1>3, <3>2 DEF OrderInv, TypeOK, Seq0
      <4> QED  BY <1>4, <3>2, <4>1
    <3>4. r \in taken.recs \/ r.rd \in consumed
      <4>1. r \in Listed \/ r.rd \in consumed
        BY <1>3 DEF SettledInv, Located
      <4> QED  BY <1>2, <1>3, <3>3, <4>1 DEF ReaderInv, NothingSkipped
    <3>5. r \in todo \/ Settled(r.rd)
      BY <1>1, <3>4 DEF SettledInv, Applying
    <3>6. r \in todo => r \in Group
      <4>1. CASE mode = "batch"
        BY <4>1 DEF Group
      <4>2. CASE mode # "batch"
        <5>1. \A q \in todo : g.s <= q.s /\ g.s \in Nat /\ q.s \in Nat /\ r.s \in Nat
          BY <1>3, <1>4, <3>1, <4>2 DEF Group
        <5>2. \A q \in todo : r.s <= q.s
          BY <3>2, <5>1
        <5> QED  BY <4>2, <5>2 DEF Group
      <4> QED  BY <4>1, <4>2
    <3> QED  BY <1>5, <3>5, <3>6
  <2> QED  BY <2>1, <2>2
<1>8. Behind(CheckpointAfter)
  <2>1. \A g \in Group : g.s <= lastSeq
    BY <1>2, <1>3, <1>4 DEF OrderInv, ActiveIsLast
  <2> QED  BY <1>6, <2>1 DEF Behind, SettledInv, Passing
<1> QED  BY <1>1, <1>5, <1>7, <1>8

(* Every step keeps the checkpoints from passing what is not done with.    *)
LEMMA NextPassing ==
  ASSUME SettledInv, [FlusherNext]_allVars, "clock" \notin Faults  PROVE Passing'
<1>1. FlusherTypeOK /\ Located /\ JournalStep /\ Passing
  BY StepsOfJournal DEF SettledInv, WriteInv
<1>2. dbCheckpoint \in Nat /\ tx.to \in Nat
  BY <1>1 DEF FlusherTypeOK, Transaction, Seq0
<1>3. /\ Behind(dbCheckpoint) => (dbCheckpoint <= lastSeq' \/ dbCheckpoint < clock')
      /\ Behind(tx.to) => (tx.to <= lastSeq' \/ tx.to < clock')
  BY <1>1, <1>2, NumbersMoveOn DEF Behind
<1>4. \A r \in records' : r \in records \/ (dbCheckpoint < r.s /\ tx.to < r.s)
  BY <1>1, <1>2, NumbersMoveOn DEF Passing
<1>5. \A r \in records' : r.s \in Nat /\ r.s # 0
  <2>1. TypeOK'
    BY <1>1, JournalStepTyped DEF FlusherTypeOK
  <2> QED  BY <2>1 DEF TypeOK, Record
<1>6. \A r \in records : r.rd \in Readings
  BY <1>1 DEF FlusherTypeOK, TypeOK, Record
<1>7. \A rd \in Readings : Settled(rd) => Settled(rd)'
  BY <1>1, SettledStays
<1>8. CASE CommitEffect
  <2>1. /\ \A r \in tx.write : Settled(r.rd)'
        /\ dbCheckpoint' \in {dbCheckpoint, tx.to} /\ tx' = NoTx
    BY <1>1, <1>8, CommitSettles
  <2>2. Behind(dbCheckpoint)' /\ Behind(tx.to)'
    <3>1. tx'.to = 0 /\ lastSeq' \in Nat
      <4>1. TypeOK'
        BY <1>1, JournalStepTyped DEF FlusherTypeOK
      <4> QED  BY <2>1, <4>1 DEF NoTx, TypeOK, Seq0
    <3> QED  BY <1>1, <1>3, <2>1, <3>1 DEF Passing, Behind
  <2>3. ASSUME NEW r \in records', r.s <= dbCheckpoint'  PROVE Settled(r.rd)'
    <3>1. r \in records
      BY <1>2, <1>4, <1>5, <2>1, <2>3
    <3>2. r \in tx.write \/ Settled(r.rd)
      BY <1>1, <2>1, <2>3, <3>1 DEF Passing
    <3> QED  BY <1>6, <1>7, <2>1, <3>1, <3>2
  <2>4. \A r \in records' : ~(r.s <= tx'.to)
    BY <1>5, <2>1 DEF NoTx
  <2> QED  BY <2>2, <2>3, <2>4 DEF Passing
<1>9. CASE ~CommitEffect
  <2>1. rows' = rows /\ dbCheckpoint' = dbCheckpoint
    BY <1>1, <1>9, TransactionSteps
  <2>2. ASSUME NEW r \in records', r.s <= dbCheckpoint'  PROVE Settled(r.rd)'
    <3>1. r \in records /\ r.s <= dbCheckpoint
      BY <1>2, <1>4, <1>5, <2>1, <2>2
    <3>2. Settled(r.rd)
      BY <1>1, <3>1 DEF Passing
    <3> QED  BY <1>6, <1>7, <3>1, <3>2
  <2>3. Behind(dbCheckpoint)'
    BY <1>1, <1>3, <2>1 DEF Passing, Behind
  <2>4. CASE tx'.write = {} /\ tx'.to = 0
    <3>1. lastSeq' \in Nat
      <4>1. TypeOK'
        BY <1>1, JournalStepTyped DEF FlusherTypeOK
      <4> QED  BY <4>1 DEF TypeOK, Seq0
    <3>2. \A r \in records' : ~(r.s <= tx'.to)
      BY <1>5, <2>4
    <3> QED  BY <2>2, <2>3, <2>4, <3>1, <3>2 DEF Passing, Behind
  <2>5. CASE tx'.write = tx.write /\ tx'.to = tx.to
    <3>1. ASSUME NEW r \in records', r.s <= tx'.to  PROVE r \in tx'.write \/ Settled(r.rd)'
      <4>1. r \in records /\ r.s <= tx.to
        BY <1>2, <1>4, <1>5, <2>5, <3>1
      <4>2. r \in tx.write \/ Settled(r.rd)
        BY <1>1, <4>1 DEF Passing
      <4> QED  BY <1>6, <1>7, <2>5, <4>1, <4>2
    <3>2. Behind(tx.to)'
      BY <1>1, <1>3, <2>5 DEF Passing, Behind
    <3> QED  BY <2>2, <2>3, <3>1, <3>2 DEF Passing
  <2>6. CASE Apply
    <3>1. records' = records /\ lastSeq' = lastSeq /\ clock' = clock
      BY <2>6 DEF Apply, vars, diskVars
    <3>2. ASSUME NEW r \in records', r.s <= tx'.to  PROVE r \in tx'.write \/ Settled(r.rd)'
      <4>1. r \in records /\ (r \in tx'.write \/ Settled(r.rd))
        BY <2>6, <3>1, <3>2, ApplyCovers
      <4> QED  BY <1>6, <1>7, <4>1
    <3>3. Behind(tx.to)'
      BY <2>6, <3>1, ApplyCovers DEF Behind
    <3> QED  BY <2>2, <2>3, <3>2, <3>3 DEF Passing
  <2> QED  BY <1>1, <1>9, <2>4, <2>5, <2>6, TransactionSteps
<1> QED  BY <1>8, <1>9

(* Outside a pass there is nothing taken.                                  *)
LEMMA IdleApplying ==
  ASSUME pc' \in {"down", "start", "idle"}, up' <=> pc' # "down", ~taken'.busy,
         checkpoint' <= dbCheckpoint'
  PROVE  Applying'
BY DEF Applying

(* While others act, a pass stays where it is.                             *)
LEMMA OthersKeepApplying ==
  ASSUME SettledInv, [FlusherNext]_allVars, UNCHANGED flusherVars, up' = up, taken' = taken,
         (pc = "commit" => tx' = tx), dbCheckpoint <= dbCheckpoint'
  PROVE  Applying'
<1>1. FlusherTypeOK /\ FlusherTypeOK' /\ Applying
  BY FlusherNextTyped DEF SettledInv, WriteInv
<1>2. /\ pc' = pc /\ mode' = mode /\ todo' = todo /\ checkpoint' = checkpoint
      /\ quarantined' = quarantined /\ Group' = Group /\ Rejected' = Rejected
  BY DEF flusherVars, Group, Rejected
<1>3. \A rd \in Readings : Settled(rd) => Settled(rd)'
  BY <1>1, SettledStays
<1>4. checkpoint' <= dbCheckpoint'
  <2>1. checkpoint \in Nat /\ dbCheckpoint \in Nat /\ dbCheckpoint' \in Nat
    BY <1>1 DEF FlusherTypeOK, Seq0
  <2> QED  BY <1>1, <1>2, <2>1 DEF Applying
<1>5. \A r \in taken.recs \cup Group : r.rd \in Readings
  BY <1>1 DEF FlusherTypeOK, TypeOK, Record, Group
<1> QED  BY <1>1, <1>2, <1>3, <1>4, <1>5 DEF Applying

(* read() and the wait for its fsync.                                      *)
LEMMA PassApplying ==
  ASSUME SettledInv, Pass  PROVE Applying'
<1>1. FlusherTypeOK /\ FlusherTypeOK' /\ Applying /\ [FlusherNext]_allVars
  BY PassTyped DEF SettledInv, WriteInv, FlusherNext
<1>2. CASE PassReads
  <2>1. /\ pc' = "sync" /\ up' = up /\ taken'.busy /\ pc = "idle"
        /\ checkpoint' = checkpoint /\ dbCheckpoint' = dbCheckpoint
    BY <1>2 DEF PassReads, Read, dbVars
  <2> QED  BY <1>1, <2>1 DEF Applying
<1>3. CASE PassAdvances
  <2>1. /\ pc' = "idle" /\ up' = up /\ taken' = taken /\ pc = "idle"
        /\ checkpoint' = checkpoint /\ dbCheckpoint' = dbCheckpoint
    BY <1>3 DEF PassAdvances, AckAdvance, MoveCursor, flusherVars, dbVars
  <2> QED  BY <1>1, <2>1 DEF Applying
<1>4. CASE PassSynced
  <2>1. /\ todo' = Fresh(taken.recs, checkpoint) /\ mode' = "batch"
        /\ pc' = IF todo' = {} THEN "ack" ELSE "begin"
        /\ up' = up /\ taken' = taken /\ pc = "sync"
        /\ checkpoint' = checkpoint /\ dbCheckpoint' = dbCheckpoint
        /\ rows' = rows /\ quarantined' = quarantined
    BY <1>4 DEF PassSynced, dbVars, vars, readVars
  <2>2. ASSUME NEW r \in taken.recs, r \notin todo'  PROVE Settled(r.rd)'
    <3>1. r \in records
      BY <1>1, <2>1 DEF Applying, SettledInv, Located, ReaderInv
    <3>2. r.s <= dbCheckpoint
      <4>1. r.s \in Nat /\ checkpoint \in Nat /\ dbCheckpoint \in Nat
        BY <1>1, <3>1 DEF FlusherTypeOK, TypeOK, Record, Seq0
      <4> QED  BY <1>1, <2>1, <2>2, <4>1 DEF Fresh, Applying
    <3> QED  BY <2>1, <3>1, <3>2 DEF SettledInv, Passing, Settled
  <2>3. todo' \subseteq taken.recs
    BY <2>1 DEF Fresh
  <2>4. taken'.busy /\ (up' <=> pc' # "down") /\ checkpoint' <= dbCheckpoint'
    BY <1>1, <2>1 DEF Applying
  <2>5. CASE todo' = {}
    BY <2>1, <2>2, <2>4, <2>5 DEF Applying
  <2>6. CASE todo' # {}
    BY <2>1, <2>2, <2>3, <2>4, <2>6 DEF Applying
  <2> QED  BY <2>5, <2>6
<1>5. CASE SyncRejected
  BY <1>1, <1>5, IdleApplying
  DEF SyncRejected, PassThrows, Abandon, NoRead, Applying, dbVars
<1>6. CASE PassAcks
  BY <1>1, <1>6, IdleApplying
  DEF PassAcks, Ack, MoveCursor, NoRead, Applying, dbVars
<1> QED  BY <1>2, <1>3, <1>4, <1>5, <1>6 DEF Pass

(* applyTx() that throws goes back to where a pass starts.                 *)
LEMMA ThrowsApplying ==
  ASSUME SettledInv, FlusherTypeOK', PassThrows, dbCheckpoint <= dbCheckpoint'
  PROVE  Applying'
<1>1. /\ pc' = "idle" /\ checkpoint' = checkpoint /\ up' /\ ~taken'.busy
  BY DEF PassThrows, Abandon, NoRead, SettledInv, Located, ReaderInv
<1>2. checkpoint' <= dbCheckpoint'
  <2>1. checkpoint \in Nat /\ dbCheckpoint \in Nat /\ dbCheckpoint' \in Nat
    BY DEF SettledInv, WriteInv, FlusherTypeOK, Seq0
  <2> QED  BY <1>1, <2>1 DEF SettledInv, Applying
<1> QED  BY <1>1, <1>2, IdleApplying

(* applyTx(), the record-by-record mode and the quarantine.                *)
LEMMA ApplyTxApplying ==
  ASSUME SettledInv, ApplyTx  PROVE Applying'
<1>1. FlusherTypeOK /\ FlusherTypeOK' /\ Applying /\ [FlusherNext]_allVars
  BY ApplyTxTyped DEF SettledInv, WriteInv, FlusherNext
<1>2. \A rd \in Readings : Settled(rd) => Settled(rd)'
  BY <1>1, SettledStays
<1>3. \A r \in taken.recs \cup todo : r.rd \in Readings
  BY <1>1 DEF FlusherTypeOK, TypeOK, Record
<1>4. CASE Apply
  <2>1. /\ pc' = "commit" /\ mode' = mode /\ todo' = todo /\ checkpoint' = checkpoint
        /\ dbCheckpoint' = dbCheckpoint /\ quarantined' = quarantined /\ rows' = rows
        /\ up' = up /\ taken' = taken /\ pc = "begin" /\ tx'.open /\ tx'.client
    BY <1>4 DEF Apply, vars, readVars
  <2>2. Group' = Group /\ Rejected' = Rejected
    BY <2>1 DEF Group, Rejected
  <2>3. \A r \in Group : r \in tx'.write \/ Settled(r.rd)'
    BY <1>4, <2>1, ApplyCovers DEF Settled
  <2> QED  BY <1>1, <1>2, <1>3, <2>1, <2>2, <2>3 DEF Applying
<1>5. CASE DataError
  <2>1. /\ todo' = todo /\ checkpoint' = checkpoint /\ dbCheckpoint' = dbCheckpoint
        /\ up' = up /\ taken' = taken /\ pc = "begin"
        /\ \/ pc' = "begin" /\ mode' = "one"
           \/ pc' = "quarantine" /\ mode' = mode /\ mode # "batch" /\ mode # "skip"
    BY <1>5 DEF DataError, vars, readVars, dbVars
  <2>2. mode \in {"batch", "one", "skip"}
    BY <1>1 DEF FlusherTypeOK
  <2> QED  BY <1>1, <1>2, <1>3, <2>1, <2>2 DEF Applying
<1>6. CASE QuarantineFirst
  <2>1. CASE PassThrows
    <3>1. dbCheckpoint' = dbCheckpoint /\ dbCheckpoint \in Nat
      BY <1>1, <1>6 DEF QuarantineFirst, dbVars, FlusherTypeOK, Seq0
    <3> QED  BY <1>1, <2>1, <3>1, ThrowsApplying
  <2>2. CASE ~PassThrows
    <3>1. /\ todo' = todo /\ checkpoint' = checkpoint /\ dbCheckpoint' = dbCheckpoint
          /\ up' = up /\ taken' = taken /\ pc = "quarantine" /\ pc' = "begin"
          /\ mode' = "skip" /\ quarantined' = quarantined \cup Rejected
      BY <1>6, <2>2 DEF QuarantineFirst, vars, readVars, dbVars
    <3>2. mode = "one"
      BY <1>1, <3>1 DEF Applying
    <3>3. Rejected' = Rejected
      BY <3>1, <3>2 DEF Rejected, Group
    <3> QED  BY <1>1, <1>2, <1>3, <3>1, <3>3 DEF Applying
  <2> QED  BY <2>1, <2>2
<1>7. CASE TxFails \/ CommitFails
  <2>1. PassThrows /\ dbCheckpoint <= dbCheckpoint'
    <3>1. CASE CommitEffect
      BY <1>1, <1>7, <3>1, CommitSettles DEF TxFails, CommitFails
    <3>2. CASE ~CommitEffect
      <4>1. dbCheckpoint' = dbCheckpoint /\ dbCheckpoint \in Nat
        BY <1>1, <3>2, TransactionSteps DEF FlusherTypeOK, Seq0
      <4> QED  BY <1>7, <4>1 DEF TxFails, CommitFails
    <3> QED  BY <3>1, <3>2
  <2> QED  BY <1>1, <2>1, ThrowsApplying
<1>8. CASE CommitAnswered
  <2>1. /\ todo' = todo \ Group /\ CommitEffect /\ checkpoint' = Max({checkpoint, tx.to})
        /\ pc' = IF todo' = {} THEN "ack" ELSE "begin"
        /\ mode' = IF todo' = {} THEN "batch" ELSE "one"
        /\ up' = up /\ taken' = taken /\ pc = "commit" /\ quarantined' = quarantined
    BY <1>8 DEF CommitAnswered, vars, readVars
  <2>2. \A r \in Group : Settled(r.rd)'
    <3>1. \A r \in tx.write : Settled(r.rd)'
      BY <1>1, <2>1, CommitSettles
    <3>2. \A r \in Group : r \in tx.write \/ Settled(r.rd)
      BY <1>1, <2>1 DEF Applying
    <3>3. \A r \in Group : r.rd \in Readings
      BY <1>3 DEF Group
    <3> QED  BY <1>2, <3>1, <3>2, <3>3
  <2>3. checkpoint' <= dbCheckpoint'
    <3>1. checkpoint \in Int /\ tx.to \in Int /\ dbCheckpoint \in Int /\ dbCheckpoint' \in Int
      BY <1>1 DEF FlusherTypeOK, Transaction, Seq0
    <3>2. checkpoint' \in {checkpoint, tx.to}
      BY <2>1, <3>1, MaxOfTwo
    <3>3. dbCheckpoint <= dbCheckpoint' /\ tx.to <= dbCheckpoint'
      BY <1>1, <2>1, CommitSettles
    <3>4. checkpoint <= dbCheckpoint
      BY <1>1 DEF Applying
    <3> QED  BY <3>1, <3>2, <3>3, <3>4
  <2>4. todo' \subseteq taken.recs /\ \A r \in taken.recs : r \in todo' \/ Settled(r.rd)'
    BY <1>1, <1>2, <1>3, <2>1, <2>2 DEF Applying
  <2>5. taken'.busy /\ (up' <=> pc' # "down")
    BY <1>1, <2>1 DEF Applying
  <2>6. CASE todo' = {}
    BY <2>1, <2>3, <2>4, <2>5, <2>6 DEF Applying
  <2>7. CASE todo' # {}
    BY <2>1, <2>3, <2>4, <2>5, <2>7 DEF Applying
  <2> QED  BY <2>6, <2>7
<1> QED  BY <1>4, <1>5, <1>6, <1>7, <1>8 DEF ApplyTx

(* Every step, of the writer or beside it.                                 *)
LEMMA NextApplying ==
  ASSUME SettledInv, [FlusherNext]_allVars  PROVE Applying'
<1>1. FlusherTypeOK /\ FlusherTypeOK' /\ Applying /\ Located /\ dbCheckpoint \in Nat
  BY FlusherNextTyped DEF SettledInv, WriteInv, FlusherTypeOK, Seq0
<1>2. CASE OpenJournal
  <2>1. /\ pc' = "start" /\ up' /\ taken' = taken /\ ~up
        /\ checkpoint' = checkpoint /\ dbCheckpoint' = dbCheckpoint
    BY <1>2 DEF OpenJournal, Open, dbVars
  <2>2. ~taken.busy
    BY <1>1, <2>1 DEF Located, ReaderInv
  <2> QED  BY <1>1, <2>1, <2>2, IdleApplying DEF Applying
<1>3. CASE StartWriter
  <2>1. /\ pc' = "idle" /\ up' = up /\ taken' = taken /\ pc = "start"
        /\ checkpoint' = dbCheckpoint /\ dbCheckpoint' = dbCheckpoint
    BY <1>3 DEF StartWriter, vars, readVars, dbVars
  <2> QED  BY <1>1, <2>1, IdleApplying DEF Applying
<1>4. CASE Admission \/ JournalSyncing \/ UNCHANGED allVars
  <2>1. UNCHANGED flusherVars /\ up' = up /\ taken' = taken /\ tx' = tx /\ dbCheckpoint' = dbCheckpoint
    BY <1>4 DEF Admission, Writer, Append, Write, AppendRefused, RotateFails, Promise,
                JournalSyncing, Syncing, TimerFires, TimerSyncEnds, SyncStarts, SyncEnds,
                allVars, vars, readVars, dbVars
  <2> QED  BY <1>1, <2>1, OthersKeepApplying
<1>5. CASE OrphanEnds
  <2>1. UNCHANGED flusherVars /\ up' = up /\ taken' = taken /\ pc # "commit"
    BY <1>1, <1>5 DEF OrphanEnds, vars, readVars, Applying
  <2>2. dbCheckpoint <= dbCheckpoint'
    <3>1. CASE CommitEffect
      BY <1>1, <3>1, CommitSettles
    <3>2. CASE ~CommitEffect
      BY <1>1, <1>5, <3>2 DEF OrphanEnds
    <3> QED  BY <3>1, <3>2
  <2> QED  BY <2>1, <2>2, OthersKeepApplying
<1>6. CASE ProcessEnds
  <2>1. /\ pc' = "down" /\ ~up' /\ ~taken'.busy /\ checkpoint' = 0
        /\ dbCheckpoint' = dbCheckpoint
    <3>1. Down
      BY <1>6 DEF ProcessEnds, Failing, StartFails, Close, ProcessCrash, PowerLoss
    <3> QED  BY <1>6, <3>1 DEF ProcessEnds, Down, NoRead
  <2> QED  BY <1>1, <2>1, IdleApplying
<1> QED
  BY <1>2, <1>3, <1>4, <1>5, <1>6, PassApplying, ApplyTxApplying DEF FlusherNext

(* The reader consumes only what is done with.                             *)
LEMMA NextConsumed ==
  ASSUME SettledInv, [FlusherNext]_allVars  PROVE \A rd \in consumed' : Settled(rd)'
<1>1. FlusherTypeOK /\ \A rd \in Readings : Settled(rd) => Settled(rd)'
  BY SettledStays DEF SettledInv, WriteInv
<1>2. consumed \subseteq Readings /\ \A r \in taken.recs : r.rd \in Readings
  BY <1>1 DEF FlusherTypeOK, TypeOK, Record
<1>3. CASE PassAcks
  <2>1. consumed' = consumed \cup ReadingsOf(taken.recs) /\ pc = "ack"
    BY <1>3 DEF PassAcks, Ack
  <2>2. \A r \in taken.recs : Settled(r.rd)
    BY <2>1 DEF SettledInv, Applying
  <2> QED  BY <1>1, <1>2, <2>1, <2>2 DEF SettledInv, ReadingsOf
<1>4. CASE ~PassAcks
  <2>1. consumed' = consumed
    <3>1. CASE OpenJournal \/ JournalSyncing \/ ProcessEnds
      BY <3>1
      DEF OpenJournal, Open, JournalSyncing, Syncing, TimerFires, TimerSyncEnds, SyncStarts,
          SyncEnds, ProcessEnds, StartFails, Failing, Close, ProcessCrash, PowerLoss, Down,
          history
    <3>4. CASE Admission
      <4>1. ASSUME NEW rd \in Readings, NEW aged \in BOOLEAN, Append(rd, aged)
            PROVE  consumed' = consumed
        BY <4>1 DEF Append, Write
      <4> QED  BY <3>4, <4>1 DEF Admission, Writer, AppendRefused, RotateFails, Promise, history
    <3>2. CASE Pass
      BY <1>4, <3>2
      DEF Pass, PassReads, Read, PassAdvances, AckAdvance, PassSynced, SyncRejected,
          PassThrows, Abandon, vars, history
    <3>3. CASE StartWriter \/ ApplyTx \/ OrphanEnds \/ UNCHANGED allVars
      BY <3>3
      DEF StartWriter, ApplyTx, Apply, DataError, QuarantineFirst, TxFails, CommitAnswered,
          CommitFails, OrphanEnds, PassThrows, Abandon, allVars, vars, history
    <3> QED  BY <3>1, <3>2, <3>3, <3>4 DEF FlusherNext
  <2> QED  BY <1>1, <1>2, <2>1 DEF SettledInv
<1> QED  BY <1>3, <1>4

(* Every step, with a clock that is not set back.                          *)
LEMMA NextSettled ==
  ASSUME SettledInv, [FlusherNext]_allVars, "clock" \notin Faults  PROVE SettledInv'
<1>1. WriteInv'
  BY NextWrite DEF SettledInv
<1>2. Located'
  BY StepsOfJournal, StepLocated DEF SettledInv
<1> QED  BY <1>1, <1>2, NextPassing, NextApplying, NextConsumed DEF SettledInv

(* At first the checkpoint has passed nothing.                             *)
LEMMA InitSettled == FlusherInit => SettledInv
<1> SUFFICES ASSUME FlusherInit  PROVE SettledInv
  OBVIOUS
<1>1. WriteInv /\ ReaderInv
  BY InitWrite, InitReader DEF FlusherInit
<1>2. /\ records = {} /\ ~up /\ ~taken.busy /\ consumed = {} /\ pc = "down"
      /\ checkpoint = 0 /\ dbCheckpoint = 0 /\ tx.to = 0 /\ lastSeq = 0
  BY DEF FlusherInit, Init, NoRead, NoTx
<1>3. Located /\ Passing
  BY <1>1, <1>2 DEF Located, Passing, Behind
<1>4. Applying
  BY <1>2 DEF Applying
<1> QED  BY <1>1, <1>2, <1>3, <1>4 DEF SettledInv

(* The checkpoint passes a record only once it is written or quarantined:   *)
(* for any batches, faults and answers that are lost, and with transactions *)
(* that commit after their client is gone, unless the clock is set back     *)
(* (flusher_clock shows why not).                                          *)
THEOREM PassedIsSettled ==
  ASSUME "clock" \notin Faults  PROVE FlusherSpec => []CheckpointCoversSettled
<1>1. SettledInv => CheckpointCoversSettled
  <2> SUFFICES ASSUME SettledInv, NEW rd \in Readings,
                      stampOf[rd] \in 1..dbCheckpoint, rd \in ReadingsOf(records)
               PROVE  Settled(rd)
    BY DEF CheckpointCoversSettled
  <2>1. PICK r \in records : r.rd = rd
    BY DEF ReadingsOf
  <2>2. stampOf[r.rd] = r.s
    BY <2>1 DEF SettledInv, WriteInv, Carried
  <2>3. r.s <= dbCheckpoint
    <3>1. dbCheckpoint \in Nat
      BY DEF SettledInv, WriteInv, FlusherTypeOK, Seq0
    <3> QED  BY <2>1, <2>2, <3>1
  <2> QED  BY <2>1, <2>3 DEF SettledInv, Passing
<1>2. SettledInv /\ [FlusherNext]_allVars => SettledInv'
  BY NextSettled
<1> QED  BY <1>1, <1>2, InitSettled, PTL DEF FlusherSpec

-----------------------------------------------------------------------------
(* What was accepted, with the writer as the reader.  A start that fails    *)
(* has appended nothing.                                                   *)
OnDiskInv ==
  /\ FlusherTypeOK /\ AcceptedInv
  /\ pc = "start" /\ "process" \notin Faults => records \subseteq stable

(* Every step of the writer keeps what was accepted.                       *)
LEMMA NextOnDisk ==
  ASSUME OnDiskInv, [FlusherNext]_allVars, ~({"process", "power"} \subseteq Faults)
  PROVE  OnDiskInv' /\ ([Next]_vars \/ Ack \/ Leaves)
<1>1. FlusherTypeOK'
  BY FlusherNextTyped DEF OnDiskInv
<1>2. [Next]_vars \/ Ack \/ Leaves
  <2>1. CASE StartFails
    BY <2>1 DEF StartFails, OnDiskInv, Leaves
  <2>2. CASE ~StartFails
    BY <2>2
    DEF FlusherNext, OpenJournal, StartWriter, Admission, JournalSyncing, Pass, PassReads,
        PassAdvances, PassSynced, SyncRejected, PassThrows, PassAcks, ApplyTx, Apply,
        DataError, QuarantineFirst, TxFails, CommitAnswered, CommitFails, OrphanEnds,
        ProcessEnds, allVars, Next, Reader
  <2> QED  BY <2>1, <2>2
<1>3. AcceptedInv'
  BY <1>2, StepAccepted DEF OnDiskInv
<1>4. ASSUME pc' = "start", "process" \notin Faults  PROVE records' \subseteq stable'
  <2>1. CASE OpenJournal
    <3>1. records' = records /\ stable' = stable /\ ~up
      BY <2>1 DEF OpenJournal, Open, diskVars
    <3> QED  BY <1>4, <3>1 DEF OnDiskInv, AcceptedInv, DurabilityInv
  <2>2. CASE JournalSyncing
    <3>1. pc = "start" /\ records' = records /\ stable \subseteq stable'
      BY <1>4, <2>2
      DEF JournalSyncing, Syncing, TimerFires, TimerSyncEnds, SyncStarts, SyncEnds,
          FsyncDone, FsyncFails, flusherVars, diskVars
    <3> QED  BY <1>4, <3>1 DEF OnDiskInv
  <2>3. CASE OrphanEnds \/ UNCHANGED allVars
    <3>1. pc = "start" /\ records' = records /\ stable' = stable
      BY <1>4, <2>3 DEF OrphanEnds, allVars, vars, diskVars, flusherVars
    <3> QED  BY <1>4, <3>1 DEF OnDiskInv
  <2>4. CASE StartWriter \/ Admission \/ Pass \/ ApplyTx \/ ProcessEnds
    BY <1>4, <2>4
    DEF StartWriter, Admission, Pass, PassReads, PassAdvances, PassSynced, SyncRejected,
        PassThrows, PassAcks, ApplyTx, Apply, DataError, QuarantineFirst, TxFails,
        CommitAnswered, CommitFails, ProcessEnds, flusherVars
  <2> QED  BY <2>1, <2>2, <2>3, <2>4 DEF FlusherNext
<1> QED  BY <1>1, <1>2, <1>3, <1>4 DEF OnDiskInv

(* Nothing is accepted at first.                                           *)
LEMMA InitOnDisk == FlusherInit => OnDiskInv
<1> SUFFICES ASSUME FlusherInit  PROVE OnDiskInv
  OBVIOUS
<1>1. FlusherTypeOK /\ AcceptedInv
  BY FlusherInitTyped, InitAccepted DEF FlusherInit
<1> QED  BY <1>1 DEF FlusherInit, OnDiskInv

(* Nothing accepted is lost between the journal and the database: for any   *)
(* number of readings and machines, any segment and batch size and every    *)
(* other fault, if power is not lost where processes die unsynced and the   *)
(* clock is not set back (journal_unsynced and flusher_clock show why).    *)
THEOREM NeverLost ==
  ASSUME "clock" \notin Faults, ~({"process", "power"} \subseteq Faults)
  PROVE  FlusherSpec => []NothingLost
<1>1. OnDiskInv /\ SettledInv => NothingLost
  <2> SUFFICES ASSUME OnDiskInv, SettledInv, NEW rd \in promised
               PROVE  \/ Settled(rd)
                      \/ \E r \in Surviving : r.rd = rd /\ r.s > dbCheckpoint
    BY DEF NothingLost
  <2>1. CASE rd \in consumed
    BY <2>1 DEF SettledInv
  <2>2. CASE rd \in ReadingsOf(Surviving)
    <3>1. PICK r \in Surviving : r.rd = rd
      BY <2>2 DEF ReadingsOf
    <3>2. r \in records /\ r.s \in Nat /\ dbCheckpoint \in Nat
      BY <3>1 DEF Surviving, OnDiskInv, FlusherTypeOK, TypeOK, Record, Seq0
    <3>3. r.s <= dbCheckpoint => Settled(rd)
      BY <3>1, <3>2 DEF SettledInv, Passing
    <3> QED  BY <3>1, <3>2, <3>3
  <2> QED  BY <2>1, <2>2 DEF OnDiskInv, AcceptedInv, AcceptedIsKept
<1>2. SettledInv /\ [FlusherNext]_allVars => SettledInv'
  BY NextSettled
<1>3. OnDiskInv /\ [FlusherNext]_allVars => OnDiskInv'
  BY NextOnDisk
<1> QED  BY <1>1, <1>2, <1>3, InitSettled, InitOnDisk, PTL DEF FlusherSpec

-----------------------------------------------------------------------------
(* Where a reading is once an fsync has covered it, until it is consumed.  *)
OnMedium(rd) == rd \in consumed \/ rd \in ReadingsOf(stable)

(* The writer has in hand only what an fsync has covered.                  *)
SyncedInv ==
  /\ OnDiskInv
  /\ pc = "sync" => up /\ taken.busy
  /\ \A r \in todo \cup tx.write : OnMedium(r.rd)
  /\ \A rd \in Readings : rows[rd] > 0 => OnMedium(rd)

(* Every step keeps it so.                                                 *)
LEMMA NextSynced ==
  ASSUME SyncedInv, [FlusherNext]_allVars, "process" \notin Faults  PROVE SyncedInv'
<1>1. OnDiskInv' /\ ([Next]_vars \/ Ack \/ Leaves)
  BY NextOnDisk DEF SyncedInv
<1>2. FlusherTypeOK /\ AcceptedInv /\ DurabilityInv /\ ReaderInv
  BY DEF SyncedInv, OnDiskInv, AcceptedInv
<1>3. ASSUME NEW rd, OnMedium(rd)  PROVE OnMedium(rd)'
  <2>1. /\ consumed \subseteq consumed'
        /\ \A r \in stable : r \in stable' \/ r.rd \in consumed'
    BY <1>1, <1>2, SurvivingStays
  <2> QED  BY <1>3, <2>1 DEF OnMedium, ReadingsOf
<1>4. \A r \in todo' : OnMedium(r.rd)'
  <2>1. CASE PassSynced
    <3>1. /\ pc = "sync" /\ BatchDurable(taken.recs) /\ todo' \subseteq taken.recs
          /\ consumed' = consumed /\ stable' = stable
      BY <2>1 DEF PassSynced, Fresh, vars, history, diskVars
    <3>2. up /\ taken.recs \subseteq records
      BY <1>2, <3>1 DEF SyncedInv, ReaderInv
    <3>3. taken.recs \subseteq stable
      BY <1>2, <3>1, <3>2 DEF BatchDurable, DurabilityInv, DurableIsOnDisk
    <3> QED  BY <3>1, <3>3 DEF OnMedium, ReadingsOf
  <2>2. CASE ~PassSynced
    <3>1. todo' \subseteq todo
      BY <2>2
      DEF FlusherNext, OpenJournal, StartWriter, Admission, JournalSyncing, Pass,
          PassReads, PassAdvances, SyncRejected, PassThrows, PassAcks, ApplyTx, Apply,
          DataError, QuarantineFirst, TxFails, CommitAnswered, CommitFails, OrphanEnds,
          ProcessEnds, allVars, flusherVars
    <3> QED  BY <1>3, <3>1 DEF SyncedInv
  <2> QED  BY <2>1, <2>2
<1>5. /\ \A r \in tx'.write : OnMedium(r.rd)'
      /\ \A rd \in Readings : rows'[rd] > 0 => OnMedium(rd)'
  <2>1. CASE CommitEffect
    <3>1. tx'.write = {}
      BY <2>1 DEF CommitEffect, NoTx
    <3>2. ASSUME NEW rd \in Readings, rows'[rd] > 0  PROVE OnMedium(rd)
      <4>1. rows[rd] > 0 \/ rd \in ReadingsOf(tx.write)
        BY <2>1, <3>2 DEF CommitEffect
      <4> QED  BY <4>1 DEF SyncedInv, ReadingsOf
    <3> QED  BY <1>3, <3>1, <3>2
  <2>2. CASE ~CommitEffect
    <3>1. rows' = rows /\ (tx'.write \subseteq tx.write \/ Apply)
      BY <1>2, <2>2, TransactionSteps
    <3>2. Apply => tx'.write \subseteq todo
      BY DEF Apply, GroupFresh, Fresh, Group
    <3> QED  BY <1>3, <3>1, <3>2 DEF SyncedInv
  <2> QED  BY <2>1, <2>2
<1>6. pc' = "sync" => up' /\ taken'.busy
  <2>1. CASE Pass
    BY <2>1
    DEF Pass, PassReads, Read, PassAdvances, PassSynced, SyncRejected, PassThrows,
        PassAcks, flusherVars, SyncedInv
  <2>2. CASE Admission \/ JournalSyncing \/ OrphanEnds \/ UNCHANGED allVars
    <3>1. pc' = pc /\ up' = up /\ taken' = taken
      BY <2>2
      DEF Admission, Writer, Append, Write, AppendRefused, RotateFails, Promise,
          JournalSyncing, Syncing, TimerFires, TimerSyncEnds, SyncStarts, SyncEnds,
          OrphanEnds, allVars, vars, readVars, flusherVars
    <3> QED  BY <3>1 DEF SyncedInv
  <2>3. CASE OpenJournal \/ StartWriter \/ ApplyTx \/ ProcessEnds
    BY <2>3
    DEF OpenJournal, StartWriter, ApplyTx, Apply, DataError, QuarantineFirst, TxFails,
        CommitAnswered, CommitFails, PassThrows, ProcessEnds
  <2> QED  BY <2>1, <2>2, <2>3 DEF FlusherNext
<1> QED  BY <1>1, <1>4, <1>5, <1>6 DEF SyncedInv

(* The database never moves beyond what the journal has on the medium, for  *)
(* any sizes and every fault but a process that dies unsynced.             *)
THEOREM WrittenIsSynced ==
  ASSUME "process" \notin Faults  PROVE FlusherSpec => []NothingWrittenUnsynced
<1>1. SyncedInv => NothingWrittenUnsynced
  BY DEF SyncedInv, OnMedium, NothingWrittenUnsynced
<1>2. FlusherInit => SyncedInv
  <2> SUFFICES ASSUME FlusherInit  PROVE SyncedInv
    OBVIOUS
  <2>1. OnDiskInv
    BY InitOnDisk
  <2> QED  BY <2>1 DEF FlusherInit, SyncedInv, NoTx
<1>3. SyncedInv /\ [FlusherNext]_allVars => SyncedInv'
  BY NextSynced
<1> QED  BY <1>1, <1>2, <1>3, PTL DEF FlusherSpec

-----------------------------------------------------------------------------
(* Record by record, the one that is refused is the one that is set aside:  *)
(* a number belongs to one record.                                         *)
PoisonInv ==
  /\ FlusherTypeOK /\ ReaderInv
  /\ pc \in {"sync", "begin", "commit", "quarantine"} => taken.busy
  /\ pc \in {"begin", "commit", "quarantine"} => todo \subseteq taken.recs
  /\ quarantined \subseteq Poison
  /\ pc = "quarantine" => Rejected \subseteq Poison

(* A pass that goes on keeps what it has taken.                            *)
LEMMA PoisonHeld ==
  ASSUME PoisonInv, [FlusherNext]_allVars
  PROVE  /\ pc' \in {"sync", "begin", "commit", "quarantine"} => taken'.busy
         /\ pc' \in {"begin", "commit", "quarantine"} => todo' \subseteq taken'.recs
<1>1. CASE Pass
  BY <1>1
  DEF Pass, PassReads, Read, PassAdvances, AckAdvance, PassSynced, Fresh, SyncRejected,
      PassThrows, PassAcks, flusherVars, vars, readVars, PoisonInv
<1>2. CASE ApplyTx
  BY <1>2
  DEF ApplyTx, Apply, DataError, QuarantineFirst, TxFails, CommitAnswered, CommitFails,
      PassThrows, vars, readVars, PoisonInv
<1>3. CASE Admission \/ JournalSyncing \/ OrphanEnds \/ UNCHANGED allVars
  <2>1. pc' = pc /\ todo' = todo /\ taken' = taken
    BY <1>3
    DEF Admission, Writer, Append, Write, AppendRefused, RotateFails, Promise,
        JournalSyncing, Syncing, TimerFires, TimerSyncEnds, SyncStarts, SyncEnds,
        OrphanEnds, allVars, vars, readVars, flusherVars
  <2> QED  BY <2>1 DEF PoisonInv
<1>4. CASE OpenJournal \/ StartWriter \/ ProcessEnds
  BY <1>4 DEF OpenJournal, StartWriter, ProcessEnds
<1> QED  BY <1>1, <1>2, <1>3, <1>4 DEF FlusherNext

(* Every step.                                                             *)
LEMMA NextPoison ==
  ASSUME PoisonInv, [FlusherNext]_allVars  PROVE PoisonInv'
<1>1. FlusherTypeOK' /\ ReaderInv'
  <2>1. ReaderInv'
    BY StepsOfJournal, StepReader DEF JournalStep, PoisonInv
  <2> QED  BY <2>1, FlusherNextTyped DEF PoisonInv
<1>2. CASE DataError
  <2>1. /\ todo' = todo /\ quarantined' = quarantined /\ pc = "begin"
        /\ \/ pc' = "begin"
           \/ /\ pc' = "quarantine" /\ mode' = mode /\ mode # "batch"
              /\ ReadingsOf(GroupFresh) \cap Poison # {}
    BY <1>2 DEF DataError
  <2>2. ASSUME pc' = "quarantine"  PROVE Rejected' \subseteq Poison
    <3>1. Rejected' = Rejected /\ mode # "batch"
      BY <2>1, <2>2 DEF Rejected, Group
    <3>2. PICK g \in GroupFresh : g.rd \in Poison
      BY <2>1, <2>2 DEF ReadingsOf
    <3>3. g \in Group
      BY <3>2 DEF GroupFresh, Fresh
    <3>4. Group \subseteq todo /\ todo \subseteq records /\ \A r \in records : r.s \in Nat
      BY <2>1 DEF Group, PoisonInv, ReaderInv, OrderInv, TypeOK, Record
    <3>5. ASSUME NEW r \in Group  PROVE r = g
      <4>1. r.s <= g.s /\ g.s <= r.s
        BY <3>1, <3>3, <3>5 DEF Group
      <4>2. r.s = g.s
        BY <3>3, <3>4, <3>5, <4>1
      <4> QED  BY <3>3, <3>4, <3>5, <4>2 DEF PoisonInv, ReaderInv, OrderInv, NumbersInv
    <3> QED  BY <3>1, <3>2, <3>5 DEF Rejected, ReadingsOf
  <2> QED  BY <1>1, <2>1, <2>2, PoisonHeld DEF PoisonInv
<1>3. CASE QuarantineFirst
  <2>1. /\ pc' # "quarantine" /\ pc = "quarantine"
        /\ quarantined' \in {quarantined, quarantined \cup Rejected}
    BY <1>3 DEF QuarantineFirst, PassThrows
  <2> QED  BY <1>1, <2>1, PoisonHeld DEF PoisonInv
<1>4. CASE ~DataError /\ ~QuarantineFirst
  <2>1. /\ quarantined' = quarantined
        /\ pc' = "quarantine" => pc = "quarantine" /\ todo' = todo /\ mode' = mode
    BY <1>4
    DEF FlusherNext, OpenJournal, StartWriter, Admission, JournalSyncing, Pass,
        PassReads, PassAdvances, PassSynced, SyncRejected, PassThrows, PassAcks, ApplyTx,
        Apply, TxFails, CommitAnswered, CommitFails, OrphanEnds, ProcessEnds, allVars,
        flusherVars
  <2>2. pc' = "quarantine" => pc = "quarantine" /\ Rejected' = Rejected
    BY <2>1 DEF Rejected, Group
  <2> QED  BY <1>1, <2>1, <2>2, PoisonHeld DEF PoisonInv
<1> QED  BY <1>2, <1>3, <1>4

(* Only a record the database refuses is set aside instead of written, for  *)
(* any batch and every fault: a batch that is refused is done again record  *)
(* by record before anything is set aside.                                 *)
THEOREM OnlyPoisonAside == FlusherSpec => []OnlyPoisonQuarantined
<1>1. PoisonInv => OnlyPoisonQuarantined
  BY DEF PoisonInv, OnlyPoisonQuarantined
<1>2. FlusherInit => PoisonInv
  <2> SUFFICES ASSUME FlusherInit  PROVE PoisonInv
    OBVIOUS
  <2>1. FlusherTypeOK /\ ReaderInv
    BY FlusherInitTyped, InitReader DEF FlusherInit
  <2> QED  BY <2>1 DEF FlusherInit, PoisonInv
<1>3. PoisonInv /\ [FlusherNext]_allVars => PoisonInv'
  BY NextPoison
<1> QED  BY <1>1, <1>2, <1>3, PTL DEF FlusherSpec

-----------------------------------------------------------------------------
(* The collector implements Delivery: what survives in the journal leaves  *)
(* it only when it is done with, each COMMIT writes what was held and not  *)
(* done with, and so does the quarantine file.                             *)

(* What the collector is answerable for, or was.                           *)
Ours(rd) == rd \in consumed \/ rd \in ReadingsOf(Surviving)

(* The writer has in hand only what the collector is answerable for, writes *)
(* nothing the database refuses, and is done with no record that a crash   *)
(* could still take.                                                       *)
DeliveryInv ==
  /\ SettledInv /\ OnDiskInv /\ PoisonInv
  /\ "process" \notin Faults => SyncedInv
  /\ \A r \in todo \cup tx.write : Ours(r.rd)
  /\ \A r \in tx.write : r.rd \notin Poison
  /\ \A rd \in Readings : rows[rd] > 0 => rd \notin Poison
  /\ \A rd \in quarantined : stampOf[rd] # 0
  /\ \A r \in records : Settled(r.rd) => r \in Surviving

(* Faults under which the collector keeps its promise.                     *)
Bearable == "clock" \notin Faults /\ ~({"process", "power"} \subseteq Faults)

-----------------------------------------------------------------------------
(* A record that is new is of a reading that had no number, so it is not   *)
(* done with.                                                              *)
LEMMA NewIsUnsettled ==
  ASSUME DeliveryInv, [Next]_vars \/ Ack \/ Leaves, NEW r \in records', r \notin records
  PROVE  r.rd \in Readings /\ ~Settled(r.rd)
<1>1. TypeOK /\ WriteInv
  BY DEF DeliveryInv, SettledInv, WriteInv, FlusherTypeOK
<1>2. PICK rd \in Readings, aged \in BOOLEAN : Append(rd, aged)
  <2>1. CASE Writer
    BY <2>1 DEF Writer, AppendRefused, RotateFails
  <2>2. CASE ~Writer
    <3>1. records' \subseteq records
      BY <1>1, <2>2
      DEF Next, Open, Syncing, TimerFires, TimerSyncEnds, SyncStarts, SyncEnds, Promise,
          Reader, Read, ReaderAcks, Ack, AckAdvance, MoveCursor, DropConsumed, Abandon,
          Failing, Close, ProcessCrash, PowerLoss, Leaves, vars, diskVars, TypeOK
    <3> QED  BY <3>1
  <2> QED  BY <2>1, <2>2
<1>3. stampOf[rd] = 0 /\ \E seg, seq : Write(rd, seg, seq)
  BY <1>2 DEF Append
<1>4. r.rd = rd
  BY <1>3 DEF Write
<1>5. ~(rows[rd] > 0)
  BY <1>1, <1>3 DEF WriteInv
<1>6. rd \notin quarantined
  BY <1>3 DEF DeliveryInv
<1> QED  BY <1>4, <1>5, <1>6 DEF Settled

(* What is on the medium stays there with its record.                      *)
LEMMA StableStays ==
  ASSUME DeliveryInv, [Next]_vars \/ Ack \/ Leaves, ~({"process", "power"} \subseteq Faults),
         NEW r \in Surviving, r \in records'
  PROVE  r \in Surviving'
<1>1. CASE Ack \/ AckAdvance
  <2>1. \A q \in stable : q \in records' => q \in stable'
    BY <1>1 DEF Ack, AckAdvance, MoveCursor, DropConsumed, diskVars
  <2> QED  BY <2>1 DEF Surviving
<1>2. CASE ~Ack /\ ~AckAdvance
  BY <1>2, SurvivingGrows DEF DeliveryInv, OnDiskInv
<1> QED  BY <1>1, <1>2

(* The writer's hands, after a step.                                       *)
LEMMA HandsOurs ==
  ASSUME DeliveryInv, [FlusherNext]_allVars, Bearable,
         "process" \notin Faults => SyncedInv', OnDiskInv'
  PROVE  \A r \in todo' \cup tx'.write : Ours(r.rd)'
<1>1. CASE "process" \notin Faults
  <2>1. stable' \subseteq records'
    BY DEF OnDiskInv, FlusherTypeOK, TypeOK
  <2>2. stable' \subseteq Surviving'
    BY <2>1 DEF Surviving
  <2> QED  BY <1>1, <2>2 DEF SyncedInv, OnMedium, Ours, ReadingsOf
<1>2. CASE "power" \notin Faults
  <2>1. /\ AcceptedInv /\ ReaderInv /\ FlusherTypeOK
        /\ [Next]_vars \/ Ack \/ Leaves
    BY NextOnDisk DEF DeliveryInv, OnDiskInv, AcceptedInv, Bearable
  <2>2. ASSUME NEW rd, Ours(rd)  PROVE Ours(rd)'
    <3>1. /\ consumed \subseteq consumed'
          /\ \A r \in Surviving : r \in Surviving' \/ r.rd \in consumed'
      BY <2>1, SurvivingStays DEF Bearable
    <3> QED  BY <2>2, <3>1 DEF Ours, ReadingsOf
  <2>3. todo' \subseteq todo \/ (pc = "sync" /\ todo' \subseteq taken.recs)
    BY DEF FlusherNext, OpenJournal, StartWriter, Admission, JournalSyncing, Pass,
       PassReads, PassAdvances, PassSynced, Fresh, SyncRejected, PassThrows, PassAcks,
       ApplyTx, Apply, DataError, QuarantineFirst, TxFails, CommitAnswered, CommitFails,
       OrphanEnds, ProcessEnds, allVars, flusherVars
  <2>4. pc = "sync" => \A r \in taken.recs : Ours(r.rd)
    <3>1. pc = "sync" => taken.recs \subseteq records
      BY <2>1 DEF DeliveryInv, PoisonInv, ReaderInv
    <3> QED  BY <1>2, <3>1 DEF Ours, ReadingsOf, Surviving
  <2>5. tx'.write \subseteq tx.write \/ tx'.write \subseteq todo
    <3>1. CommitEffect => tx'.write = {}
      BY DEF CommitEffect, NoTx
    <3>2. Apply => tx'.write \subseteq todo
      BY DEF Apply, GroupFresh, Fresh, Group
    <3>3. ~CommitEffect => (tx'.write \subseteq tx.write \/ Apply)
      BY <2>1, TransactionSteps
    <3> QED  BY <3>1, <3>2, <3>3
  <2> QED  BY <2>2, <2>3, <2>4, <2>5 DEF DeliveryInv
<1> QED  BY <1>1, <1>2 DEF Bearable

(* A transaction writes nothing the database refuses.                      *)
LEMMA NoPoisonWritten ==
  ASSUME DeliveryInv, [FlusherNext]_allVars
  PROVE  /\ \A r \in tx'.write : r.rd \notin Poison
         /\ \A rd \in Readings : rows'[rd] > 0 => rd \notin Poison
<1>1. CASE CommitEffect
  <2>1. tx'.write = {}
    BY <1>1 DEF CommitEffect, NoTx
  <2>2. \A rd \in Readings : rows'[rd] > 0 => rows[rd] > 0 \/ rd \in ReadingsOf(tx.write)
    BY <1>1 DEF CommitEffect
  <2> QED  BY <2>1, <2>2 DEF DeliveryInv, ReadingsOf
<1>2. CASE ~CommitEffect
  <2>1. rows' = rows /\ (tx'.write \subseteq tx.write \/ Apply)
    BY <1>2, TransactionSteps DEF DeliveryInv, PoisonInv
  <2>2. Apply => \A r \in tx'.write : r.rd \notin Poison
    BY DEF Apply, ReadingsOf
  <2> QED  BY <2>1, <2>2 DEF DeliveryInv
<1> QED  BY <1>1, <1>2

(* What becomes done with in a step is written by it, or set aside.        *)
LEMMA SettledBy ==
  ASSUME DeliveryInv, [FlusherNext]_allVars
  PROVE  /\ quarantined' \subseteq quarantined \cup ReadingsOf(todo)
         /\ \A rd \in Readings : Settled(rd)' => Settled(rd) \/ rd \in ReadingsOf(todo \cup tx.write)
<1>1. quarantined' \subseteq quarantined \cup ReadingsOf(todo)
  <2>1. quarantined' \subseteq quarantined \cup Rejected
    BY DEF FlusherNext, OpenJournal, StartWriter, Admission, JournalSyncing, Pass,
       PassReads, PassAdvances, PassSynced, SyncRejected, PassThrows, PassAcks, ApplyTx,
       Apply, DataError, QuarantineFirst, TxFails, CommitAnswered, CommitFails, OrphanEnds,
       ProcessEnds, allVars, flusherVars
  <2>2. Rejected \subseteq ReadingsOf(todo)
    BY DEF Rejected, Group, ReadingsOf
  <2> QED  BY <2>1, <2>2
<1>2. \A rd \in Readings : rows'[rd] > 0 => rows[rd] > 0 \/ rd \in ReadingsOf(tx.write)
  <2>1. CASE CommitEffect
    BY <2>1 DEF CommitEffect
  <2>2. CASE ~CommitEffect
    BY <2>2, TransactionSteps DEF DeliveryInv, PoisonInv
  <2> QED  BY <2>1, <2>2
<1> QED  BY <1>1, <1>2 DEF Settled, ReadingsOf

(* What is done with survives: an fsync had covered what is written.       *)
LEMMA SettledSurvives ==
  ASSUME DeliveryInv, [FlusherNext]_allVars, Bearable
  PROVE  \A r \in records' : Settled(r.rd)' => r \in Surviving'
<1>1. CASE "power" \notin Faults
  BY <1>1 DEF Surviving
<1>2. CASE "power" \in Faults
  <2> SUFFICES ASSUME NEW r \in records', Settled(r.rd)'  PROVE r \in Surviving'
    OBVIOUS
  <2>1. /\ [Next]_vars \/ Ack \/ Leaves
        /\ SyncedInv /\ ReaderInv /\ WriteInv /\ FlusherTypeOK
    BY <1>2, NextOnDisk DEF DeliveryInv, OnDiskInv, AcceptedInv, SettledInv, Bearable, WriteInv
  <2>2. CASE r \notin records
    <3>1. r.rd \in Readings /\ ~Settled(r.rd)
      BY <2>1, <2>2, NewIsUnsettled
    <3>2. rows' = rows /\ quarantined' = quarantined
      <4>1. UNCHANGED <<dbVars, quarantined>>
        <5>1. Admission
          <6>1. ~Admission => records' \subseteq records
            BY <2>1
            DEF FlusherNext, OpenJournal, Open, StartWriter, JournalSyncing, Syncing,
                TimerFires, TimerSyncEnds, SyncStarts, SyncEnds, Pass, PassReads, Read,
                PassAdvances, AckAdvance, Ack, MoveCursor, DropConsumed, PassSynced,
                SyncRejected, PassThrows, Abandon, PassAcks, ApplyTx, Apply, DataError,
                QuarantineFirst, TxFails, CommitAnswered, CommitFails, OrphanEnds,
                ProcessEnds, StartFails, Failing, Close, ProcessCrash, PowerLoss, allVars,
                vars, diskVars, FlusherTypeOK, TypeOK
          <6> QED  BY <2>2, <6>1
        <5> QED  BY <5>1 DEF Admission, flusherVars
      <4> QED  BY <4>1 DEF dbVars
    <3> QED  BY <3>1, <3>2 DEF Settled
  <2>3. CASE r \in records
    <3>1. r.rd \in Readings
      BY <2>1, <2>3 DEF FlusherTypeOK, TypeOK, Record
    <3>2. r \in Surviving
      <4>1. CASE Settled(r.rd)
        BY <2>3, <4>1 DEF DeliveryInv
      <4>2. CASE ~Settled(r.rd)
        <5>1. PICK q \in todo \cup tx.write : q.rd = r.rd
          BY <3>1, <4>2, SettledBy DEF ReadingsOf
        <5>2. r.rd \notin consumed
          BY <4>2 DEF DeliveryInv, SettledInv
        <5>3. r.rd \in ReadingsOf(stable)
          BY <2>1, <5>1, <5>2 DEF SyncedInv, OnMedium
        <5>4. PICK t \in stable : t.rd = r.rd
          BY <5>3 DEF ReadingsOf
        <5>5. t \in records /\ t.s = r.s
          BY <2>1, <2>3, <5>4 DEF FlusherTypeOK, TypeOK, WriteInv, Carried
        <5>6. t = r
          BY <2>1, <2>3, <5>5 DEF ReaderInv, OrderInv, NumbersInv
        <5> QED  BY <1>2, <5>4, <5>6 DEF Surviving
      <4> QED  BY <4>1, <4>2
    <3> QED  BY <2>1, <3>2, StableStays DEF Bearable
  <2> QED  BY <2>2, <2>3
<1> QED  BY <1>1, <1>2

(* What is set aside had a number.                                         *)
LEMMA AsideHasNumber ==
  ASSUME DeliveryInv, [FlusherNext]_allVars
  PROVE  \A rd \in quarantined' : stampOf'[rd] # 0
<1>1. FlusherTypeOK /\ WriteInv /\ JournalStep
  BY StepsOfJournal DEF DeliveryInv, SettledInv, WriteInv
<1>2. \A rd \in Readings : stampOf[rd] # 0 => stampOf'[rd] = stampOf[rd]
  BY <1>1, StampsStay DEF WriteInv, FlusherTypeOK, Carried
<1>3. \A r \in todo : r.rd \in Readings /\ stampOf[r.rd] # 0
  BY <1>1 DEF FlusherTypeOK, WriteInv, Carried, Record
<1>4. quarantined' \subseteq quarantined \cup ReadingsOf(todo)
  BY SettledBy
<1>5. quarantined \subseteq Readings
  BY <1>1 DEF FlusherTypeOK
<1> QED  BY <1>2, <1>3, <1>4, <1>5 DEF DeliveryInv, ReadingsOf

(* So every step keeps the invariant.                                      *)
LEMMA NextDelivery ==
  ASSUME DeliveryInv, [FlusherNext]_allVars, Bearable  PROVE DeliveryInv'
<1>1. SettledInv' /\ OnDiskInv' /\ PoisonInv'
  BY NextSettled, NextOnDisk, NextPoison DEF DeliveryInv, Bearable
<1>2. "process" \notin Faults => SyncedInv'
  BY NextSynced DEF DeliveryInv
<1> QED
  BY <1>1, <1>2, HandsOurs, NoPoisonWritten, AsideHasNumber, SettledSurvives DEF DeliveryInv

(* Nothing is held at first.                                               *)
LEMMA InitDelivery == FlusherInit => DeliveryInv
<1> SUFFICES ASSUME FlusherInit  PROVE DeliveryInv
  OBVIOUS
<1>1. SettledInv /\ OnDiskInv /\ ReaderInv /\ FlusherTypeOK
  BY InitSettled, InitOnDisk, InitReader, FlusherInitTyped DEF FlusherInit
<1>2. /\ todo = {} /\ tx.write = {} /\ quarantined = {} /\ records = {} /\ pc = "down"
      /\ \A rd \in Readings : rows[rd] = 0
  BY DEF FlusherInit, Init, NoTx
<1>3. PoisonInv /\ SyncedInv
  BY <1>1, <1>2 DEF PoisonInv, SyncedInv
<1> QED  BY <1>1, <1>2, <1>3 DEF DeliveryInv

-----------------------------------------------------------------------------
(* The step of Delivery that a step of the collector is.                   *)

(* A COMMIT that changes rows is a Store: what it writes was held, and not *)
(* done with.                                                              *)
LEMMA CommitStores ==
  ASSUME DeliveryInv, [FlusherNext]_allVars, rows' # rows
  PROVE  \E S \in SUBSET Readings : Promised!Store(S)
<1> DEFINE S == ReadingsOf(tx.write)
<1>1. FlusherTypeOK /\ WriteInv
  BY DEF DeliveryInv, SettledInv, WriteInv
<1>2. CommitEffect
  BY <1>1, TransactionSteps
<1>3. records' = records /\ stable' = stable /\ quarantined' = quarantined
  BY DEF FlusherNext, OpenJournal, StartWriter, Admission, JournalSyncing, Pass,
     PassReads, PassAdvances, PassSynced, SyncRejected, PassThrows, Abandon, PassAcks,
     ApplyTx, Apply, DataError, QuarantineFirst, TxFails, CommitAnswered, CommitFails,
     OrphanEnds, ProcessEnds, allVars, dbVars, vars, diskVars, flusherVars
<1>4. S \in SUBSET Readings
  BY <1>1 DEF ReadingsOf, FlusherTypeOK, Transaction, Record
<1>5. ASSUME NEW r \in tx.write
      PROVE  ~Settled(r.rd) /\ r.rd \in ReadingsOf(Surviving)
  <2>1. r.rd \in Readings /\ stampOf[r.rd] = r.s /\ r.s \in Nat /\ dbCheckpoint \in Nat
    BY <1>1 DEF WriteInv, Carried, FlusherTypeOK, Transaction, Record, Seq0
  <2>2. ~(rows[r.rd] > 0)
    BY <1>1, <2>1 DEF WriteInv
  <2>3. r.rd \notin quarantined
    BY DEF DeliveryInv, PoisonInv
  <2> QED  BY <2>2, <2>3 DEF Settled, DeliveryInv, SettledInv, Ours
<1>6. S \subseteq ReadingsOf(Surviving) \ Promised!Settled
  BY <1>5 DEF Promised!Settled, Settled, ReadingsOf
<1>7. rows' = [rd \in Readings |-> IF rd \in S THEN rows[rd] + 1 ELSE rows[rd]]
  BY <1>2 DEF CommitEffect
<1>8. ReadingsOf(Surviving)' = ReadingsOf(Surviving)
  BY <1>3 DEF ReadingsOf, Surviving
<1> HIDE DEF S
<1> QED  BY <1>3, <1>4, <1>6, <1>7, <1>8 DEF Promised!Store

(* A line in the quarantine file is a Reject of one that was held and not  *)
(* done with.                                                              *)
LEMMA QuarantineRejects ==
  ASSUME DeliveryInv, [FlusherNext]_allVars, quarantined' # quarantined
  PROVE  \E rd \in Readings : Promised!Reject(rd)
<1>1. FlusherTypeOK /\ Applying
  BY DEF DeliveryInv, SettledInv, WriteInv
<1>2. /\ pc = "quarantine" /\ quarantined' = quarantined \cup Rejected
      /\ rows' = rows /\ records' = records /\ stable' = stable
  BY DEF FlusherNext, OpenJournal, StartWriter, Admission, JournalSyncing, Pass,
     PassReads, PassAdvances, PassSynced, SyncRejected, PassThrows, PassAcks,
     ApplyTx, Apply, DataError, QuarantineFirst, TxFails, CommitAnswered, CommitFails,
     OrphanEnds, ProcessEnds, allVars, dbVars, vars, diskVars, flusherVars
<1>3. PICK g \in Group : g.rd \notin quarantined
  BY <1>2 DEF Rejected, ReadingsOf
<1>4. Group \subseteq todo /\ todo \subseteq records /\ \A r \in records : r.s \in Nat
  BY <1>1, <1>2 DEF Group, Applying, DeliveryInv, PoisonInv, ReaderInv, FlusherTypeOK, TypeOK, Record
<1>5. ASSUME NEW r \in Group  PROVE r = g
  <2>1. r.s <= g.s /\ g.s <= r.s
    BY <1>1, <1>2, <1>3, <1>5 DEF Group, Applying
  <2>2. r.s = g.s
    BY <1>3, <1>4, <1>5, <2>1
  <2> QED
    BY <1>3, <1>4, <1>5, <2>2 DEF DeliveryInv, PoisonInv, ReaderInv, OrderInv, NumbersInv
<1>6. Rejected = {g.rd}
  BY <1>3, <1>5 DEF Rejected, ReadingsOf
<1>7. g.rd \in Readings /\ ~Settled(g.rd)
  <2>1. g.rd \in Readings
    BY <1>1, <1>3, <1>4 DEF FlusherTypeOK, Record
  <2>2. g.rd \in Poison
    BY <1>2, <1>6 DEF DeliveryInv, PoisonInv
  <2> QED  BY <1>3, <2>1, <2>2 DEF Settled, DeliveryInv
<1>8. g.rd \in ReadingsOf(Surviving)
  BY <1>3, <1>4, <1>7 DEF DeliveryInv, SettledInv, Ours
<1>9. ReadingsOf(Surviving)' = ReadingsOf(Surviving)
  BY <1>2 DEF ReadingsOf, Surviving
<1>a. g.rd \in ReadingsOf(Surviving) \ Promised!Settled
  BY <1>7, <1>8 DEF Promised!Settled, Settled
<1> QED  BY <1>2, <1>6, <1>7, <1>9, <1>a DEF Promised!Reject

(* Any other step is a Hold of what is not done with, or a Release of what *)
(* is, or changes nothing.                                                 *)
LEMMA JournalHoldsOrReleases ==
  ASSUME DeliveryInv, [FlusherNext]_allVars, Bearable, rows' = rows, quarantined' = quarantined
  PROVE  \E S \in SUBSET Readings : Promised!Hold(S) \/ Promised!Release(S)
<1>1. /\ [Next]_vars \/ Ack \/ Leaves
      /\ AcceptedInv /\ FlusherTypeOK /\ FlusherTypeOK' /\ SettledInv'
  BY NextOnDisk, NextSettled, FlusherNextTyped DEF DeliveryInv, OnDiskInv, Bearable
<1>2. /\ \A r \in records : r.rd \in Readings
      /\ \A r \in records' : r.rd \in Readings
      /\ Surviving \subseteq records /\ Surviving' \subseteq records'
  BY <1>1 DEF FlusherTypeOK, TypeOK, Record, Surviving
<1>3. Promised!Settled = {rd \in Readings : Settled(rd)}
  <2>1. quarantined \subseteq Readings
    BY <1>1 DEF FlusherTypeOK
  <2> QED  BY <2>1 DEF Promised!Settled, Settled
<1>4. CASE Ack \/ AckAdvance
  <2> DEFINE S == ReadingsOf(Surviving) \ ReadingsOf(Surviving)'
  <2>1. Surviving' \subseteq Surviving
    BY <1>1, <1>4 DEF Ack, AckAdvance, MoveCursor, DropConsumed, diskVars, Surviving
  <2>2. ASSUME NEW rd \in S  PROVE Settled(rd) /\ rd \in Readings
    <3>1. PICK r \in Surviving : r.rd = rd
      BY DEF ReadingsOf
    <3>2. r \notin Surviving'
      BY <3>1 DEF ReadingsOf
    <3>3. rd \in consumed'
      BY <1>1, <3>1, <3>2, SurvivingStays DEF Bearable
    <3>4. Settled(rd)'
      BY <1>1, <3>3 DEF SettledInv
    <3> QED  BY <1>2, <3>1, <3>4 DEF Settled
  <2>3. ReadingsOf(Surviving)' = ReadingsOf(Surviving) \ S
    BY <2>1 DEF ReadingsOf
  <2>4. S \subseteq ReadingsOf(Surviving) \cap Promised!Settled /\ S \in SUBSET Readings
    BY <1>3, <2>2
  <2> HIDE DEF S
  <2>5. Promised!Release(S)
    BY <2>3, <2>4 DEF Promised!Release
  <2> QED  BY <2>4, <2>5
<1>5. CASE ~Ack /\ ~AckAdvance
  <2> DEFINE S == ReadingsOf(Surviving)' \ ReadingsOf(Surviving)
  <2>1. Surviving \subseteq Surviving'
    BY <1>1, <1>5, SurvivingGrows DEF Bearable
  <2>2. ASSUME NEW rd \in S  PROVE ~Settled(rd) /\ rd \in Readings
    <3>1. PICK r \in Surviving' : r.rd = rd
      BY DEF ReadingsOf
    <3>2. r \notin Surviving
      BY <3>1 DEF ReadingsOf
    <3>3. r \in records => ~Settled(r.rd)
      BY <3>2 DEF DeliveryInv
    <3>4. r \notin records => ~Settled(r.rd)
      BY <1>1, <1>2, NewIsUnsettled
    <3> QED  BY <1>2, <3>1, <3>3, <3>4
  <2>3. ReadingsOf(Surviving)' = ReadingsOf(Surviving) \cup S
    BY <2>1 DEF ReadingsOf
  <2>4. S \cap Promised!Settled = {} /\ S \in SUBSET Readings
    BY <1>3, <2>2
  <2> HIDE DEF S
  <2>5. Promised!Hold(S)
    BY <2>3, <2>4 DEF Promised!Hold
  <2> QED  BY <2>4, <2>5
<1> QED  BY <1>4, <1>5

(* The collector implements its promise to the rest of the plant, for any  *)
(* readings, machines, sizes of files, batches and disks and every other   *)
(* fault, if the clock is not set back, and power not lost where processes *)
(* die unsynced: what is accepted is held until it is written, once, or    *)
(* set aside, and nothing is written or set aside that was not held.       *)
THEOREM Implementation ==
  ASSUME "clock" \notin Faults, ~({"process", "power"} \subseteq Faults)
  PROVE  FlusherSpec => ImplementsDelivery
<1>1. Bearable
  BY DEF Bearable
<1>2. FlusherInit => Promised!Init
  <2> SUFFICES ASSUME FlusherInit  PROVE Promised!Init
    OBVIOUS
  <2>1. ReadingsOf(Surviving) = {}
    BY DEF FlusherInit, Init, ReadingsOf, Surviving
  <2> QED  BY <2>1 DEF FlusherInit, Promised!Init
<1>3. DeliveryInv /\ [FlusherNext]_allVars => DeliveryInv'
  BY <1>1, NextDelivery
<1>4. DeliveryInv /\ [FlusherNext]_allVars =>
        [Promised!Next]_<<ReadingsOf(Surviving), rows, quarantined>>
  BY <1>1, CommitStores, QuarantineRejects, JournalHoldsOrReleases DEF Promised!Next
<1> QED
  BY <1>2, <1>3, <1>4, InitDelivery, PTL DEF FlusherSpec, ImplementsDelivery, Promised!Spec
=============================================================================
