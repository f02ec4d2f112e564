---------------------------- MODULE MCQueueFifo -----------------------------
(* The request queue as an outbox: every boot takes more BootNotifications than the boots       *)
(* before it sent requests, so that the message IDs of different boots are different.           *)
EXTENDS QueueOutbox

=============================================================================
