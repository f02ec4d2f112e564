---------------------------- MODULE MCQueueReset ----------------------------
(* The request queue over power cuts: every boot is accepted at the first BootNotification, so  *)
(* that the message IDs of two boots overlap.                                                   *)
EXTENDS RequestQueue

=============================================================================
