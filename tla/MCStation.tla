----------------------------- MODULE MCStation -----------------------------
EXTENDS Station

\* A frame that lacks one byte, a header byte alone, a frame with a header byte as its checksum,
\* one that begins twice.
Status == Frame(<<ConnectorStatus, 0, 0, 1, 0>>)
Value(v) == Frame(<<CurrentValue, v, 0, 0, 0>>)
Without(i) == SubSeq(Status, 1, i - 1) \o SubSeq(Status, i + 1, Size)
MCNoise == {Without(i) : i \in 1..Size} \cup {<<171>>, Value(19), SubSeq(Value(7), 1, 5) \o Value(7)}

Budget(tap, frames, plug, early, remote, noise, reboot) ==
    [op \in Operations |-> CASE op = "tap" -> tap [] op = "frame" -> frames [] op = "plug" -> plug
        [] op = "early" -> early [] op = "remote" -> remote [] op = "noise" -> noise [] op = "reboot" -> reboot]

Symmetric == Permutations(Cards)
MCScenarios ==
    {Budget(2, 4, 2, 0, 0, 0, 0), Budget(2, 3, 3, 0, 0, 0, 0), Budget(3, 2, 1, 0, 0, 0, 0), Budget(1, 3, 1, 0, 2, 0, 0),
     Budget(1, 3, 1, 0, 0, 2, 0), Budget(2, 2, 1, 1, 0, 0, 0), Budget(1, 2, 1, 0, 0, 0, 1)}
=============================================================================
