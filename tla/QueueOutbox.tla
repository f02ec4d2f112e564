---------------------------- MODULE QueueOutbox -----------------------------
(***************************************************************************)
(* The request queue under the fairness of the device's main loop, and the *)
(* mapping under which it implements Outbox.                               *)
(***************************************************************************)
EXTENDS RequestQueue

\* The loop runs: a handler that was started ends, the queue offers its head to the connection
\* again and again, a device that was reset boots, and its connectors report their status then.
\* The server does not refuse a message for ever, and from some time on the connection holds, so
\* that the answers return.
Fairness ==
    /\ WF_vars(DropStep) /\ WF_vars(PopStep) /\ WF_vars(Panic)
    /\ WF_vars(Restart)
    /\ WF_vars(first /\ PushVolatile)
    /\ SF_vars(Send(FALSE)) /\ SF_vars(Receive)
    /\ <>[][~Disconnect]_vars

FairSpec == Spec /\ Fairness

\* Every boot, power cut and panic leads to at most one push beyond MaxTx and MaxOther.
MaxPushed == 2 * MaxTx + MaxOther + MaxPowerCuts + 1

\* The owed requests, oldest first.
OwedInOrder ==
    [i \in 1..Cardinality(Owed) |->
        CHOOSE s \in Owed : Cardinality({t \in Owed : t < s}) = i - 1]

\* The stored transaction requests are an Outbox: they leave the queue in the order in which
\* they were pushed, and each of them leaves it eventually.
Abstract == INSTANCE Outbox WITH Message <- 1..MaxPushed, out <- OwedInOrder

ImplementsOutbox == Abstract!Spec

=============================================================================
