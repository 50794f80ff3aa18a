-------------------------- MODULE MCDeferredQueue --------------------------
(* DeferredQueue with a file of two entries and three submissions, so that  *)
(* one more than the file keeps is queued, one query and two instants.      *)
EXTENDS DeferredQueue
=============================================================================
