----------------------------- MODULE MCCharging -----------------------------
(* The smart charging service of one connector with a few profiles. *)
EXTENDS SmartCharging

P(id, purpose, level, kind, start, duration, periods) ==
    [id |-> id, tx |-> -1, level |-> level, purpose |-> purpose, from |-> MinTime, to |-> MinTime,
     kind |-> kind, start |-> start, duration |-> duration, unit |-> "A", min |-> -1,
     periods |-> periods]
Flat(limit) == <<[at |-> 0, limit |-> limit]>>

Maximum == P(1, "max", 1, "Absolute", 2, 0, <<[at |-> 0, limit |-> 4], [at |-> 2, limit |-> 2]>>)
Nightly == [P(2, "default", 0, "Daily", 1, 2, Flat(3)) EXCEPT !.from = 1, !.min = 5, !.unit = "W"]
ForTx   == [P(4, "tx", 0, "Relative", MinTime, 0, Flat(1)) EXCEPT !.tx = 7]
F(connector, purpose, level) ==
    [id |-> -1, connector |-> connector, purpose |-> purpose, level |-> level]
AFewFilters == {F(1, "any", -1), [F(-1, "any", -1) EXCEPT !.id = 4]}
Profiles == {Maximum, Nightly, ForTx}

=============================================================================
