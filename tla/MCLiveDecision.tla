--------------------------- MODULE MCLiveDecision ---------------------------
(* One server decides on one candidate, with crashes, failed and timed out  *)
(* commands, retries, opposite decisions, and the candidate's other fields  *)
(* edited meanwhile.  Three links: a listing, and one after each of two     *)
(* restarts.                                                                *)
EXTENDS LiveWriteback

ASSUME SingleWriter == OneWriter
=============================================================================
