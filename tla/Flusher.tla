------------------------------ MODULE Flusher ------------------------------
(***************************************************************************)
(* The writer (src/lib/flusher.js) that moves journal records into the     *)
(* database, composed with the journal it reads, the process around both   *)
(* (server.js) and the database, which is external.                        *)
(*                                                                         *)
(* A transaction locks the ingest_checkpoint row, writes the records above *)
(* it and moves it to the last one.  The database is seen only through     *)
(* that: rows counts how often a reading's rows were committed, and tx is  *)
(* the transaction that holds the row's lock.  It may outlive the client   *)
(* that opened it, and then still commit if COMMIT had been sent.          *)
(***************************************************************************)
EXTENDS Journal

CONSTANT Poison    \* readings whose values the database refuses (22/23)

ASSUME PoisonAssumption == Poison \subseteq Readings

VARIABLES
  pc,            \* where run()/pass() is
  mode,          \* applying the whole batch, one record, or skipping one
  todo,          \* records the pass still has to apply
  checkpoint,    \* the writer's own copy of the position
  dbCheckpoint,  \* ingest_checkpoint.last_seq
  rows,          \* how often each reading has been written
  quarantined,   \* readings in quarantine.ndjson
  tx             \* the transaction holding the checkpoint row

dbVars      == <<dbCheckpoint, rows, tx>>
flusherVars == <<pc, mode, todo, checkpoint, quarantined>>
allVars     == <<vars, flusherVars, dbVars>>

NoTx == [open |-> FALSE, client |-> FALSE, sent |-> FALSE, write |-> {}, to |-> 0]
Transaction ==
  [open : BOOLEAN, client : BOOLEAN, sent : BOOLEAN, write : SUBSET Record, to : Seq0]

FlusherTypeOK ==
  /\ TypeOK
  /\ pc \in {"down", "start", "idle", "sync", "begin", "commit", "quarantine", "ack"}
  /\ mode \in {"batch", "one", "skip"}
  /\ todo \subseteq Record
  /\ checkpoint \in Seq0 /\ dbCheckpoint \in Seq0
  /\ rows \in [Readings -> Nat]
  /\ quarantined \subseteq Readings
  /\ tx \in Transaction

FlusherInit ==
  /\ Init
  /\ pc = "down" /\ mode = "batch" /\ todo = {} /\ checkpoint = 0
  /\ dbCheckpoint = 0 /\ rows = [rd \in Readings |-> 0]
  /\ quarantined = {} /\ tx = NoTx

-----------------------------------------------------------------------------
(* startServer(): open the journal, read the checkpoint, then subscribe.   *)
OpenJournal ==
  /\ Open
  /\ pc' = "start"
  /\ UNCHANGED <<mode, todo, checkpoint, quarantined, dbVars>>

StartWriter ==
  /\ pc = "start"
  /\ checkpoint' = dbCheckpoint
  /\ pc' = "idle"
  /\ UNCHANGED <<vars, mode, todo, quarantined, dbVars>>

(* While it runs, readings are appended and synced beside the writer.      *)
Admission ==
  /\ pc \notin {"down", "start"}
  /\ Writer \/ Promise
  /\ UNCHANGED <<flusherVars, dbVars>>

JournalSyncing == Syncing /\ UNCHANGED <<flusherVars, dbVars>>

-----------------------------------------------------------------------------
(* The records of a batch the checkpoint has not passed.                   *)
AlsoAtCheckpoint(recs, point) == {r \in recs : r.s >= point}
Fresh(recs, point) == {r \in recs : r.s > point}

(* pass(): read a batch; syncThrough() rejects at once after a failed      *)
(* fsync, so then nothing is taken.                                        *)
PassReads ==
  /\ pc = "idle" /\ ~fatalError
  /\ Read
  /\ pc' = "sync"
  /\ UNCHANGED <<mode, todo, checkpoint, quarantined, dbVars>>

PassAdvances ==
  /\ pc = "idle"
  /\ AckAdvance
  /\ UNCHANGED <<flusherVars, dbVars>>

SkipSync(recs) == TRUE
BatchDurable(recs) == \A r \in recs : r.s <= durableSeq

PassSynced ==
  /\ pc = "sync"
  /\ BatchDurable(taken.recs)
  /\ todo' = Fresh(taken.recs, checkpoint)
  /\ pc' = IF todo' = {} THEN "ack" ELSE "begin"
  /\ mode' = "batch"
  /\ UNCHANGED <<vars, checkpoint, quarantined, dbVars>>

(* A pass that throws: run() pauses and the next pass reads again.         *)
PassThrows ==
  /\ Abandon
  /\ pc' = "idle" /\ mode' = "batch" /\ todo' = {}
  /\ UNCHANGED <<checkpoint, quarantined>>

SyncRejected ==
  /\ pc = "sync" /\ fatalError
  /\ PassThrows
  /\ UNCHANGED dbVars

-----------------------------------------------------------------------------
(* applyTx().  The records it is given: all of todo, or the first of it.   *)
Group == IF mode = "batch" THEN todo ELSE {r \in todo : \A q \in todo : r.s <= q.s}
CheckpointAfterAll == Max({dbCheckpoint} \cup Stamps(todo))
CheckpointAfter == Max({dbCheckpoint} \cup Stamps(Group))
RejectAll == ReadingsOf(todo)
Rejected == ReadingsOf(Group)
GroupFresh == Fresh(Group, dbCheckpoint)

(* BEGIN, lock the checkpoint row, write what is above it (nothing, when   *)
(* skipping), move the checkpoint: all but the COMMIT.                     *)
Apply ==
  /\ pc = "begin" /\ ~tx.open
  /\ mode = "skip" \/ ReadingsOf(GroupFresh) \cap Poison = {}
  /\ tx' = [open |-> TRUE, client |-> TRUE, sent |-> FALSE,
            write |-> IF mode = "skip" THEN {} ELSE GroupFresh,
            to |-> CheckpointAfter]
  /\ pc' = "commit"
  /\ UNCHANGED <<vars, mode, todo, checkpoint, quarantined, dbCheckpoint, rows>>

(* The database refuses the data: a poison record, or a batch whose summed *)
(* hour overflows.  A batch is then applied record by record.              *)
DataErrorThrows ==
  /\ pc = "begin" /\ ~tx.open
  /\ mode # "skip" /\ ReadingsOf(GroupFresh) \cap Poison # {}
  /\ PassThrows
  /\ UNCHANGED dbVars

DataError ==
  /\ pc = "begin" /\ ~tx.open
  /\ \/ mode # "skip" /\ ReadingsOf(GroupFresh) \cap Poison # {}
     \/ mode = "batch" /\ Cardinality(GroupFresh) > 1
  /\ IF mode = "batch" THEN mode' = "one" /\ pc' = "begin"
                       ELSE mode' = mode /\ pc' = "quarantine"
  /\ UNCHANGED <<vars, todo, checkpoint, quarantined, dbVars>>

(* journal.quarantine(): fsynced before the checkpoint may pass the record.*)
QuarantineFirst ==
  /\ pc = "quarantine"
  /\ \/ /\ quarantined' = quarantined \cup Rejected
        /\ mode' = "skip" /\ pc' = "begin"
        /\ UNCHANGED <<vars, todo, checkpoint>>
     \/ "space" \in Faults /\ PassThrows
  /\ UNCHANGED dbVars

(* The connection or the server fails before COMMIT.  The server may hold  *)
(* the half-done transaction, and its lock, until it notices.              *)
TxFails ==
  /\ pc = "begin"
  /\ PassThrows
  /\ tx' \in {tx} \cup (IF tx.open THEN {} ELSE {[NoTx EXCEPT !.open = TRUE]})
  /\ UNCHANGED <<dbCheckpoint, rows>>

-----------------------------------------------------------------------------
(* What COMMIT does in the database.                                       *)
CommitEffect ==
  /\ dbCheckpoint' = Max({dbCheckpoint, tx.to})
  /\ rows' = [rd \in Readings |->
                IF rd \in ReadingsOf(tx.write) THEN rows[rd] + 1 ELSE rows[rd]]
  /\ tx' = NoTx

CommitAnswered ==
  /\ pc = "commit"
  /\ CommitEffect
  /\ checkpoint' = Max({checkpoint, tx.to})
  /\ todo' = todo \ Group
  /\ pc' = IF todo' = {} THEN "ack" ELSE "begin"
  /\ mode' = IF todo' = {} THEN "batch" ELSE "one"
  /\ UNCHANGED <<vars, quarantined>>

(* The client sees an error: the server has committed and the answer is    *)
(* lost, or has rolled back, or has yet to look at the COMMIT it was sent. *)
CommitFails ==
  /\ pc = "commit"
  /\ PassThrows
  /\ \/ CommitEffect
     \/ tx' = NoTx /\ UNCHANGED <<dbCheckpoint, rows>>
     \/ tx' = [tx EXCEPT !.client = FALSE, !.sent = TRUE] /\ UNCHANGED <<dbCheckpoint, rows>>

(* A transaction without its client ends one way or the other.             *)
OrphanEnds ==
  /\ tx.open /\ ~tx.client
  /\ \/ tx.sent /\ CommitEffect
     \/ tx' = NoTx /\ UNCHANGED <<dbCheckpoint, rows>>
  /\ UNCHANGED <<vars, flusherVars>>

PassAcks ==
  /\ pc = "ack"
  /\ Ack
  /\ pc' = "idle"
  /\ UNCHANGED <<mode, todo, checkpoint, quarantined, dbVars>>

-----------------------------------------------------------------------------
(* The process ends: killed, out of power, or by its own hard stop or exit *)
(* after a failed start.  A COMMIT it was about to send may have left.     *)
StartFails == pc = "start" /\ Down /\ UNCHANGED <<records, stable>>

ProcessEnds ==
  /\ Failing \/ StartFails
  /\ pc' = "down" /\ mode' = "batch" /\ todo' = {} /\ checkpoint' = 0
  /\ tx' \in (IF tx.open /\ tx.client
              THEN {[tx EXCEPT !.client = FALSE, !.sent = sent] : sent \in BOOLEAN}
              ELSE {tx})
  /\ UNCHANGED <<quarantined, dbCheckpoint, rows>>

Pass == PassReads \/ PassAdvances \/ PassSynced \/ SyncRejected \/ PassAcks
ApplyTx == Apply \/ DataError \/ QuarantineFirst \/ TxFails
           \/ CommitAnswered \/ CommitFails

FlusherNext ==
  OpenJournal \/ StartWriter \/ Admission \/ JournalSyncing \/ Pass \/ ApplyTx
  \/ OrphanEnds \/ ProcessEnds

FlusherSpec == FlusherInit /\ [][FlusherNext]_allVars

(* The event loop runs on, the disk answers, a lock without a client is    *)
(* released, and an outage of the database ends: a transaction that is     *)
(* tried again and again is answered in the end (run() retries for ever).  *)
FlusherFairness ==
  /\ WF_allVars(OpenJournal) /\ WF_allVars(StartWriter)
  /\ WF_allVars(SyncStarts /\ JournalSyncing) /\ WF_allVars(SyncEnds /\ JournalSyncing)
  /\ WF_allVars(Pass)
  /\ WF_allVars(QuarantineFirst)
  /\ \A m \in {"batch", "one", "skip"} :
       /\ SF_allVars(mode = m /\ (Apply \/ DataError))
       /\ SF_allVars(mode = m /\ CommitAnswered)
  /\ WF_allVars(OrphanEnds)

FairSpec == FlusherSpec /\ FlusherFairness

-----------------------------------------------------------------------------
(* In the database or in the quarantine file: done with.                   *)
Settled(rd) == rows[rd] > 0 \/ rd \in quarantined

(* Nothing is written twice, whatever is retried: not after a lost COMMIT  *)
(* answer, a transaction that commits after its client gave up on it, a    *)
(* replay after a crash, or a batch redone record by record.               *)
WrittenOnce == \A rd \in Readings : rows[rd] <= 1

(* Nothing accepted is lost: a reading the broker was told is accepted is  *)
(* done with, or survives in the journal above the database's checkpoint,  *)
(* where the writer will not skip it.                                      *)
NothingLost ==
  \A rd \in promised :
    \/ Settled(rd)
    \/ \E r \in Surviving : r.rd = rd /\ r.s > dbCheckpoint

(* The checkpoint passes a record only once it is written or quarantined,  *)
(* so the readings a replay skips are exactly those already done with.     *)
CheckpointCoversSettled ==
  \A rd \in Readings :
    stampOf[rd] \in 1..dbCheckpoint /\ rd \in ReadingsOf(records) => Settled(rd)

(* The database never moves beyond what the journal has on the medium.     *)
NothingWrittenUnsynced ==
  \A rd \in Readings : rows[rd] > 0 =>
    rd \in consumed \/ rd \in ReadingsOf(stable)

(* Only a record the database refuses is set aside instead of written.     *)
OnlyPoisonQuarantined == quarantined \subseteq Poison

(* Every accepted reading gets there: once the process stops crashing, it  *)
(* is written or quarantined, however often the database had failed.       *)
EventuallySettled ==
  <>[]up => \A rd \in Readings : [](rd \in promised => <>Settled(rd))

(* The disk space comes back: a file that is no longer appended to is in   *)
(* the end deleted, whatever batch sizes and rotations the reader crosses. *)
FilesAreFreed ==
  <>[]up => \A rd \in Readings :
    []((\E r \in records : r.rd = rd /\ r.seg # active) => <>(rd \notin ReadingsOf(records)))

(* The promise to the rest of the plant, without journal, fsync or retry.  *)
Promised == INSTANCE Delivery
  WITH held <- ReadingsOf(Surviving), written <- rows, rejected <- quarantined

(* The collector implements it.                                            *)
ImplementsDelivery == Promised!Spec
=============================================================================
