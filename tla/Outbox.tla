------------------------------- MODULE Outbox -------------------------------
(***************************************************************************)
(* What the request queue promises for the transaction messages it has     *)
(* written to flash: they form a first-in first-out outbox.  A message     *)
(* enters at the end, and only the oldest one leaves, once it is answered  *)
(* (or found to be beyond recovery); every message leaves eventually.      *)
(* Resets, evictions, retries and lost answers do not show.                *)
(***************************************************************************)
EXTENDS Naturals, Sequences

CONSTANT Message   \* numbers, in the order in which the messages are created

VARIABLE out   \* the messages owed to the server, oldest first

Init == out = <<>>

Put == \E s \in Message : out' = Append(out, s) /\ \A i \in DOMAIN out : out[i] < s

Take == out # <<>> /\ out' = Tail(out)

Next == Put \/ Take

Spec == Init /\ [][Next]_out /\ WF_out(Take)

=============================================================================
