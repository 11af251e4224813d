--------------------------- MODULE MCMonitorPage ---------------------------
EXTENDS MonitorPage

(* One past interval that a user may pick *)
MCRanges == {[start |-> 0, end |-> 2]}
=============================================================================
