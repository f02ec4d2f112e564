------------------------------ MODULE MCStorage ------------------------------
EXTENDS Storage

\* Settings: a number, a text that is declared when its service is first used, and the
\* availability of a connector; an older firmware stored the number as a truth value.
Text(numeric, word, size) == [numeric |-> numeric, number |-> IF numeric THEN 5 ELSE 0, word |-> word, size |-> size]
MCTexts == {NoText, Text(TRUE, "other", 1), Text(FALSE, "true", 4), Text(FALSE, "other", 3), Text(FALSE, "other", 9)}

Key(type, default, container, late, accepts) ==
    [type |-> type, default |-> default, file |-> container, readOnly |-> FALSE, late |-> late, accepts |-> accepts]
MCDeclared == [k \in {"interval", "tag", "available"} |->
    CASE k = "interval" -> Key("int", 1, "ocpp-config", FALSE, MCTexts)
      [] k = "tag" -> Key("string", NoText, "ocpp-config", TRUE, MCTexts)
      [] k = "available" -> Key("bool", TRUE, "client-state", FALSE, {})]

Fresh == [c \in {"ocpp-config", "client-state"} |-> Missing]
Older == [c \in {"ocpp-config", "client-state"} |->
            IF c = "client-state" THEN Torn ELSE [k \in {"interval"} |-> [type |-> "bool", val |-> TRUE]]]
MCStoredBefore == {Fresh, Older}

\* Updates of the list: plain ones, one that is too long, ones that remove and amend at once.
E(tag, info) == [tag |-> tag, info |-> info]
MCUpdates ==
    {<<>>, <<E(2, "Accepted")>>, <<E(3, "Blocked")>>, <<E(1, Removed)>>, <<E(3, Removed)>>,
     <<E(1, "Accepted"), E(3, "Accepted"), E(4, "Blocked")>>, <<E(4, "Accepted"), E(1, "Blocked")>>,
     <<E(2, "Accepted"), E(3, Removed)>>, <<E(3, Removed), E(1, "Accepted")>>,
     <<E(3, Removed), E(1, Removed)>>, <<E(3, "Accepted"), E(3, Removed)>>,
     <<E(2, "Blocked"), E(1, "Accepted"), E(4, Removed)>>}

Budget(cut, fail, declare, change, local, update, session, sample) ==
    [op \in Operations |-> CASE op = "cut" -> cut [] op = "fail" -> fail [] op = "declare" -> declare [] op = "change" -> change
        [] op = "local" -> local [] op = "list" -> update [] op = "session" -> session [] op = "sample" -> sample]
Scenario(budgets, stored, l) == [budget |-> budgets, file |-> stored, listFile |-> l]
MCScenarios ==
    {Scenario(Budget(1, 1, 2, 2, 1, 0, 0, 0), Fresh, Missing), Scenario(Budget(1, 0, 2, 2, 0, 0, 0, 0), Older, Missing),
     Scenario(Budget(2, 1, 0, 0, 0, 3, 0, 0), Fresh, Torn),
     Scenario(Budget(1, 0, 0, 0, 0, 0, 3, 6), Fresh, Missing), Scenario(Budget(2, 0, 0, 0, 0, 0, 2, 4), Fresh, Missing),
     Scenario(Budget(1, 1, 0, 0, 0, 0, 1, 5), Fresh, Missing)}
=============================================================================
