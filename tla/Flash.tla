------------------------------- MODULE Flash -------------------------------
(***************************************************************************)
(* The flash memory as the services see it through FilesystemUtils: JSON   *)
(* documents that are loaded and stored as a whole.  A store may fail, and *)
(* the power may be cut while it writes.                                   *)
(***************************************************************************)
EXTENDS Integers, FiniteSets

CONSTANTS
    Missing, Empty, Torn,   \* a file that does not exist, is too short for JSON, is no valid JSON
    Operations              \* bound: the names of what a budget limits

ASSUME FlashAssumption == {"cut", "fail"} \subseteq Operations

VARIABLES
    up,       \* the charge point is running
    budget    \* bound: how often each operation may still happen

SpendAll(ops) ==
    /\ \A op \in ops : budget[op] > 0
    /\ budget' = [op \in Operations |-> IF op \in ops THEN budget[op] - 1 ELSE budget[op]]
Spend(op) == SpendAll({op})

Lost == {Missing, Empty, Torn}

\* loadJson: does it yield the document; a file that is too short is removed.
Loads(f) == f \notin Lost
AfterLoad(f) == IF f = Empty THEN Missing ELSE f

\* storeJson: the file could not be opened and is as before, or writing failed and it was removed.
Outcomes == {"ok", "unopened", "unwritten"}
Stored(outcome, old, new) ==
    IF outcome = "ok" THEN new ELSE IF outcome = "unopened" THEN old ELSE Missing

\* An operation and how its store ends.
SpendFor(op, outcome) == SpendAll(IF outcome = "ok" THEN {op} ELSE {op, "fail"})

=============================================================================
