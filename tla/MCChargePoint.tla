---------------------------- MODULE MCChargePoint ----------------------------
(* The charge point with two connectors, in a few scenarios. *)
EXTENDS ChargePoint

Names == {"plug", "fault", "avail", "begin", "remote", "end", "reserve", "update", "upload",
          "reset", "cut", "long"}
Kind(download, install) ==
    [download |-> download, downloadStatus |-> download, install |-> TRUE,
     installStatus |-> install, uploadStatus |-> install]
Scenario(a, d, b) ==
    [app |-> a, minDuration |-> d,
     budget |-> [op \in Names |-> IF op \in DOMAIN b THEN b[op] ELSE 0]]

Full == Kind(TRUE, TRUE)
Poor == Kind(FALSE, FALSE)
AppKinds == {Full, Poor}
AFew == {
    Scenario(Full, FALSE, [begin |-> 1, reserve |-> 1]),
    Scenario(Full, FALSE, [reserve |-> 2, cut |-> 1]),
    Scenario(Full, FALSE, [remote |-> 1, reserve |-> 1, end |-> 1]),
    Scenario(Full, FALSE, [begin |-> 1, plug |-> 1, reset |-> 1]),
    Scenario(Full, FALSE, [reset |-> 2, update |-> 1]),
    Scenario(Full, FALSE, [update |-> 1, cut |-> 1]),
    Scenario(Full, FALSE, [remote |-> 1, plug |-> 1, update |-> 1]),
    Scenario(Poor, FALSE, [remote |-> 1, plug |-> 2, update |-> 1]),
    Scenario(Full, FALSE, [upload |-> 2]),
    Scenario(Poor, FALSE, [upload |-> 1, reset |-> 1]),
    Scenario(Full, FALSE, [remote |-> 2, plug |-> 2, end |-> 1, cut |-> 1]),
    Scenario(Full, FALSE, [remote |-> 1, reserve |-> 1, cut |-> 2, long |-> 1]),
    Scenario(Full, TRUE, [plug |-> 2, fault |-> 1, avail |-> 1])}

=============================================================================
