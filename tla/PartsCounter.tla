---------------------------- MODULE PartsCounter ---------------------------
(***************************************************************************)
(* Parts produced between two readings of a machine's part counter         *)
(* (src/lib/parts-delta.js).  Counts are naturals; NoCount stands for a    *)
(* count that is missing or not a number telemetry_raw could hold.         *)
(***************************************************************************)
EXTENDS Integers

NoCount == -1

MaxPartsDelta    == 20     \* MAX_PARTS_DELTA
MaxPartsDeltaGap == 5000   \* MAX_PARTS_DELTA_GAP
GapRecovery      == 300    \* GAP_RECOVERY_THRESHOLD_SEC
SmallCount       == 2      \* a counter this low has been reset
CarryOver        == 5      \* a jump from there this big is an old value

(* partsDelta(), for a count that is there before and after.               *)
PartsDelta(prev, curr, gap) ==
  LET delta      == curr - prev
      recovering == gap >= GapRecovery
      trusted    == /\ delta <= (IF recovering THEN MaxPartsDeltaGap ELSE MaxPartsDelta)
                    /\ recovering \/ delta < CarryOver \/ prev > SmallCount
  IN IF delta >= 0 THEN IF trusted THEN delta ELSE 0
                   ELSE IF curr <= SmallCount THEN curr ELSE 0

(* partsCounterStep(): a counter that went backwards, and not to nearly    *)
(* zero, keeps its high-water mark.                                        *)
StepWithoutHighWater(baseline, count, gap) ==
  IF count = NoCount THEN [delta |-> 0, baseline |-> baseline]
  ELSE [delta    |-> IF baseline = NoCount THEN 0 ELSE PartsDelta(baseline, count, gap),
        baseline |-> count]
PartsCounterStep(baseline, count, gap) ==
  LET regressed == SmallCount < count /\ count < baseline
  IN IF count = NoCount \/ regressed THEN [delta |-> 0, baseline |-> baseline]
     ELSE [delta    |-> IF baseline = NoCount THEN 0 ELSE PartsDelta(baseline, count, gap),
           baseline |-> count]
=============================================================================
