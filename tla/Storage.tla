------------------------------ MODULE Storage ------------------------------
(***************************************************************************)
(* What survives the loss of power: the configuration, the local           *)
(* authorization list and the recorded meter values share one flash and    *)
(* one supply.  A cut takes the RAM of all of them, whichever is writing,  *)
(* and the next boot loads them in the order of mocpp_initialize.          *)
(***************************************************************************)
EXTENDS Settings, LocalList, MeterRecords

CONSTANTS Scenarios   \* bound: what may happen how often, and what flash holds at first

ASSUME StorageAssumption ==
    Scenarios \subseteq [budget : [Operations -> Nat], file : StoredBefore, listFile : {Missing, Torn}]

vars == <<settingsVars, listVars, meterVars, up, budget>>

Init ==
    /\ up = FALSE
    /\ \E s \in Scenarios : budget = s.budget /\ file = s.file /\ listFile = s.listFile
    /\ conf = [k \in Keys |-> NoEntry] /\ declared = {} /\ orphan = {}
    /\ sum = [c \in Containers |-> 0] /\ stale = [c \in Containers |-> FALSE]
    /\ promise = [k \in Keys |-> NoPromise]
    /\ list = <<>> /\ version = 0 /\ server = Nothing
    /\ MeterInit

Boot == ~up /\ up' = TRUE /\ Configure /\ LoadList /\ MeterBoot /\ UNCHANGED budget

SettingsCut == SettingsLost /\ UNCHANGED <<file, promise>>
ListCut == ListLost /\ UNCHANGED <<listFile, server>>

\* The power is cut, perhaps while one of them writes.
PowerCut ==
    /\ up /\ up' = FALSE
    /\ Spend("cut")
    /\ \/ SettingsCut /\ ListCut /\ MeterCut
       \/ ChangeIsCut /\ ListCut /\ MeterCut
       \/ UpdateIsCut /\ SettingsCut /\ MeterCut
       \/ RecordingIsCut /\ SettingsCut /\ ListCut

SettingsSteps ==
    \/ \E k \in Keys : Declare(k)
    \/ \E k \in Keys, outcome \in Outcomes :
        \/ \E t \in Texts : ChangeConfiguration(k, t, outcome)
        \/ \E v \in BOOLEAN : LocalChange(k, v, outcome)

Next ==
    \/ Boot \/ PowerCut
    \/ SettingsSteps /\ UNCHANGED <<listVars, meterVars, up>>
    \/ ListSteps /\ UNCHANGED <<settingsVars, meterVars, up>>
    \/ MeterSteps /\ IF up' THEN UNCHANGED <<settingsVars, listVars>> ELSE SettingsCut /\ ListCut

Spec == Init /\ [][Next]_vars

-----------------------------------------------------------------------------

\* The state has its types: entries their declared ones, revisions their width, records and
\* files their length.
\* (ConfigInt, AuthorizationList::readJson, TransactionMeterData::addTxData)
TypeOK ==
    /\ up \in BOOLEAN /\ budget \in [Operations -> Nat]
    /\ SettingsTypeOK /\ ListTypeOK /\ MeterTypeOK

=============================================================================
