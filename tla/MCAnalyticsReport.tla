------------------------- MODULE MCAnalyticsReport -------------------------
(* AnalyticsReport on a small instance: see README.md for its bounds. *)
EXTENDS AnalyticsReport
=============================================================================
