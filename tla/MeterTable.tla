----------------------------- MODULE MeterTable -----------------------------
(***************************************************************************)
(* energy_meter_readings, and what meterInsertBatches() of                 *)
(* src/lib/meter-writer.js writes to it, of one machine.                   *)
(*                                                                         *)
(* A reading is a function from the fields supplied to their values.  A row*)
(* is of a second, and an observation is of one: [company, at, reading,    *)
(* alone].  alone in a row are its standalone_fields.                      *)
(***************************************************************************)
EXTENDS Integers, Sequences, SequencesExt

MeterRow(company, reading, alone) == [company |-> company, reading |-> reading, alone |-> alone]

(* Mutated: a packet is trusted for what it did not supply, too.           *)
AllAlone(observation) == IF observation.alone THEN {"kwh", "volts"} ELSE {}
FieldsAlone(observation) == IF observation.alone THEN DOMAIN observation.reading ELSE {}

(* MERGE, and the fold in the application: a value of a CNC reading does   *)
(* not replace one of a standalone packet.                                 *)
Merged(row, reading, alone) ==
  LET replaces == {f \in DOMAIN reading : f \notin row.alone \/ f \in alone}
  IN MeterRow(row.company,
              [f \in replaces \cup DOMAIN row.reading |->
                 IF f \in replaces THEN reading[f] ELSE row.reading[f]],
              row.alone \cup alone)

Folded(rows, o) ==
  [at \in DOMAIN rows \cup {o.at} |->
     IF at # o.at THEN rows[at]
     ELSE IF at \in DOMAIN rows THEN Merged(rows[at], o.reading, FieldsAlone(o))
     ELSE MeterRow(o.company, o.reading, FieldsAlone(o))]

(* meterInsertBatches(): a statement ends when it is full, or when another *)
(* company has a row in it.  Mutated: only when it is full.                *)
EndsWhenFull(rows, o, maxRows) == o.at \notin DOMAIN rows /\ Cardinality(DOMAIN rows) >= maxRows
StatementEnds(rows, o, maxRows) ==
  IF o.at \in DOMAIN rows THEN rows[o.at].company # o.company ELSE Cardinality(DOMAIN rows) >= maxRows

(* BATCH_INSERT: the ON CONFLICT leaves the row of another company alone.  *)
UpsertMeter(table, rows) ==
  [at \in DOMAIN table \cup DOMAIN rows |->
     IF at \notin DOMAIN rows THEN table[at]
     ELSE IF at \notin DOMAIN table THEN rows[at]
     ELSE IF table[at].company # rows[at].company THEN table[at]
     ELSE Merged(table[at], rows[at].reading, rows[at].alone)]

(* The table after the statements yielded, each executed before the next,  *)
(* and the rows of the one that is gathered.  A record of which nothing was*)
(* read has no observation.                                                *)
Gathered(written, o, maxRows) ==
  IF DOMAIN o.reading = {} THEN written
  ELSE IF StatementEnds(written.rows, o, maxRows)
       THEN [table |-> UpsertMeter(written.table, written.rows), rows |-> Folded(<<>>, o)]
       ELSE [table |-> written.table, rows |-> Folded(written.rows, o)]

MeterInsertBatches(table, observations, maxRows) ==
  FoldLeft(LAMBDA written, o : Gathered(written, o, maxRows), [table |-> table, rows |-> <<>>], observations)

WriteMeters(table, observations, maxRows) ==
  LET written == MeterInsertBatches(table, observations, maxRows)
  IN UpsertMeter(written.table, written.rows)
=============================================================================
