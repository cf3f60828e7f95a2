--------------------------- MODULE MCUsageLogger ---------------------------
(* An instance of UsageLogger for TLC: two callers of two records each, a   *)
(* channel of two and batches of two, so that the channel fills while a     *)
(* batch is inserted and both callers race for the room they make.          *)
EXTENDS UsageLogger
=============================================================================
