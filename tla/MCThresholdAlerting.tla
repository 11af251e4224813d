------------------------- MODULE MCThresholdAlerting -------------------------
(* Thresholds at the odd values, so that a value can lie between two thresholds
   and exactly on one, and longer durations for the milder levels, as in the
   default rules. *)
EXTENDS ThresholdAlerting

TwoLevels == {1, 2}
OddThreshold == [l \in Levels |-> 2 * l - 1]
MilderIsLonger == [k \in Key |-> IF k = 1 THEN 2 ELSE 1]
=============================================================================
