----------------------------- MODULE ChargePoint -----------------------------
(***************************************************************************)
(* The charge point: the connectors, the reservations and the maintenance  *)
(* services of one main loop (Model::loop), which share the availability   *)
(* of the connectors and their transactions, over power cuts, reboots and  *)
(* the count of boots that failed (BootService, mocpp_initialize).         *)
(***************************************************************************)
EXTENDS Reservations, Maintenance

CONSTANTS
    AutoRecover,   \* the parameter of mocpp_initialize
    MaxFailures,   \* failed boots after which the local state is given up
    Scenarios      \* bound: the settings and what may happen, together

ASSUME ChargePointAssumption ==
    /\ AutoRecover \in BOOLEAN /\ MaxFailures \in Nat
    /\ {"cut", "long"} \subseteq Operations
    /\ Scenarios \subseteq [app : Apps, minDuration : BOOLEAN, budget : [Operations -> Nat]]

VARIABLE failures   \* flash: the boots since the last successful one, this one included

vars == <<connVars, moved, maintVars, failures>>

Init ==
    /\ pc = "off" /\ tasks = FALSE
    /\ fault = [c \in Place |-> FALSE] /\ plugged = [c \in Place |-> FALSE]
    /\ avail = [c \in Place |-> TRUE] /\ vol = [c \in Place |-> TRUE]
    /\ tx = [c \in Connector |-> NoTx]
    /\ cur = [c \in Place |-> "NotSet"] /\ rep = [c \in Place |-> "NotSet"]
    /\ seen = [c \in Place |-> FALSE]
    /\ slot = [i \in 1..Slots |-> NoReservation] /\ moved = {}
    /\ fw = NoUpdate /\ dg = NoUpload /\ left = 0 /\ job = NoJobs
    /\ newBuild = FALSE /\ told = {}
    /\ failures = 0
    /\ \E s \in Scenarios : app = s.app /\ minDuration = s.minDuration /\ budget = s.budget

-----------------------------------------------------------------------------
(* Power and boot *)

\* What is in RAM is gone; so is the Authorize request of a transaction.
PowerLoss ==
    /\ pc' = "off" /\ tasks' = FALSE
    /\ vol' = [c \in Place |-> TRUE]
    /\ tx' = [c \in Connector |-> Answered(c)]
    /\ cur' = [c \in Place |-> "NotSet"] /\ rep' = [c \in Place |-> "NotSet"]
    /\ seen' = [c \in Place |-> FALSE]
    /\ fw' = NoUpdate /\ dg' = NoUpload /\ left' = 0 /\ job' = NoJobs /\ told' = {}
    /\ UNCHANGED <<fault, plugged, avail, moved, app, minDuration, failures>>

PowerCut ==
    /\ pc # "off" /\ Spend("cut")
    /\ PowerLoss
    /\ UNCHANGED <<slot, newBuild>>

\* The reset of the service, and that of the application when the new firmware is installed.
ResetSucceeds ==
    /\ pc = "rest" /\ ResetDue
    /\ ReservationTurn
    /\ PowerLoss
    /\ UNCHANGED <<newBuild, budget>>

InstallReboots ==
    /\ Idle /\ job.install = "busy"
    /\ PowerLoss
    /\ newBuild' = TRUE
    /\ UNCHANGED <<slot, budget>>

\* The latest transaction of each connector is brought back; after too many failed boots nothing is.
Boot ==
    LET wiped == AutoRecover /\ failures > MaxFailures
        back(t) == IF t.phase = "stopping" THEN [t EXCEPT !.phase = "back"] ELSE t
    IN  /\ pc = "off" /\ pc' = "idle"
        /\ failures' = IF wiped THEN 1 ELSE failures + 1
        /\ slot' = IF wiped THEN [i \in 1..Slots |-> NoReservation] ELSE slot
        /\ tx' = [c \in Connector |-> IF wiped THEN NoTx ELSE back(tx[c])]
        /\ UNCHANGED <<tasks, fault, plugged, avail, vol, cur, rep, seen, moved, minDuration, budget>>
        /\ UNCHANGED maintVars

\* The server accepts the boot and tells the time.
Accept ==
    /\ Idle /\ ~tasks
    /\ tasks' = TRUE /\ pc' = "connectors"
    /\ UNCHANGED <<fault, plugged, avail, vol, tx, cur, rep, seen, slot, moved, minDuration, budget>>
    /\ UNCHANGED <<maintVars, failures>>

\* The device has run for long enough for its boot to count as successful.
LongTime ==
    /\ Idle /\ Spend("long")
    /\ failures' = 0
    /\ UNCHANGED <<tasks, pc, fault, plugged, avail, vol, tx, cur, rep, seen, slot, moved, minDuration>>
    /\ UNCHANGED maintVars

-----------------------------------------------------------------------------

ServerCalls ==
    \/ \E c \in Place, available \in BOOLEAN :
          ChangeAvailability(c, available) /\ UNCHANGED <<moved, maintVars>>
    \/ \E c \in Connector, tag \in Tags : RemoteStart(c, tag) /\ UNCHANGED <<moved, maintVars>>
    \/ \E id \in ReservationIds, c \in Place, tag \in Tags, parent \in Parent :
          (Rebook(id, c, tag, parent) \/ Book(id, c, tag, parent)) /\ UNCHANGED maintVars
    \/ \E id \in ReservationIds : CancelReservation(id) /\ UNCHANGED maintVars
    \/ \E retries \in 1..UIntMax :
          (UpdateFirmware(retries) \/ GetDiagnostics(retries)) /\ UNCHANGED moved
    \/ \E hard, agreed \in BOOLEAN : Reset(hard, agreed) /\ UNCHANGED moved

ServerAnswers ==
    /\ \E c \in Connector :
          \/ AuthRejected(c)
          \/ \E parent \in Parent : AuthAccepted(c, parent)
          \/ \E allowed \in BOOLEAN : AuthTimeout(c, allowed)
          \/ StopConf(c)
    /\ UNCHANGED <<moved, maintVars>>

UserActs ==
    /\ \/ \E c \in Connector : Plug(c) \/ EndTransaction(c)
       \/ \E c \in Place : Fault(c)
       \/ \E c \in Connector, tag \in Tags, parent \in Parent, preauthorized \in BOOLEAN :
             BeginTransaction(c, tag, parent, preauthorized)
    /\ UNCHANGED <<moved, maintVars>>

Expires == \E i \in 1..Slots : Expire(i) /\ UNCHANGED maintVars

JobsEnd == \E j \in DOMAIN NoJobs, result \in {"done", "failed"} :
               JobEnds(j, result) /\ UNCHANGED moved

\* One pass of the main loop: the connectors, diagnostics and firmware, reservations and reset.
ConnectorsLoop(lasting) ==
    /\ \E lates \in SUBSET {c \in Connector : tx[c].phase = "begun"} : Connectors(lates, lasting)
    /\ UNCHANGED <<moved, maintVars>>

MaintenanceLoop(uploads, late, updates) ==
    /\ pc = "maintenance" /\ pc' = "rest"
    /\ DiagnosticsTurn(uploads, late)
    /\ FirmwareTurn(updates)
    /\ job' = JobsBegun(updates, uploads /\ Uploads)
    /\ UNCHANGED <<slot, moved, app, left, budget>>
    /\ ConnectorsUnchanged

RestLoop(fails) ==
    /\ pc = "rest" /\ pc' = "idle"
    /\ ReservationTurn
    /\ ResetTurn(fails)
    /\ UNCHANGED <<moved, app, fw, dg, job, newBuild, told, budget>>
    /\ ConnectorsUnchanged

Unreported == {c \in Place : cur[c] # rep[c]}
Loop ==
    \/ \E lasting \in SUBSET Unreported : ConnectorsLoop(lasting)
    \/ \E uploads, late \in BOOLEAN, updates \in {FALSE, fw.retries > 0} :
          MaintenanceLoop(uploads, late, updates)
    \/ \E fails \in {FALSE, ResetDue} : RestLoop(fails)

Next ==
    \/ /\ ServerCalls \/ ServerAnswers \/ UserActs \/ Expires \/ JobsEnd \/ Loop
       /\ UNCHANGED failures
    \/ PowerCut \/ ResetSucceeds \/ InstallReboots
    \/ Boot \/ Accept \/ LongTime

\* The loop is called for ever, the boot is accepted, delays and the minimum duration of a status
\* end while it is called, and the jobs of the application end.
Lasts == ConnectorsLoop(Unreported) /\ UNCHANGED failures
UploadEnds == (\E updates \in BOOLEAN : MaintenanceLoop(TRUE, TRUE, updates)) /\ UNCHANGED failures
UpdateGoesOn ==
    (\E uploads, late \in BOOLEAN : MaintenanceLoop(uploads, late, TRUE)) /\ UNCHANGED failures
ResetGoesOn == (RestLoop(ResetDue) /\ ResetDue /\ UNCHANGED failures) \/ ResetSucceeds
Fairness ==
    /\ WF_vars((Loop /\ UNCHANGED failures) \/ Accept \/ Boot)
    /\ SF_vars(Lasts)
    /\ SF_vars(UploadEnds)
    /\ SF_vars(UpdateGoesOn)
    /\ SF_vars(ResetGoesOn)
    /\ SF_vars(JobsEnd /\ UNCHANGED failures)

Spec == Init /\ [][Next]_vars /\ Fairness

-----------------------------------------------------------------------------
(* Properties *)

\* The types of the state.
TypeOK ==
    /\ pc \in {"off", "idle", "connectors", "maintenance", "rest"}
    /\ tasks \in BOOLEAN
    /\ fault \in [Place -> BOOLEAN] /\ plugged \in [Place -> BOOLEAN]
    /\ avail \in [Place -> BOOLEAN] /\ vol \in [Place -> BOOLEAN]
    /\ tx \in [Connector -> Tx]
    /\ cur \in [Place -> Status] /\ rep \in [Place -> Status]
    /\ seen \in [Place -> BOOLEAN]
    /\ slot \in [1..Slots -> Reservation \cup {NoReservation}]
    /\ moved \subseteq Place
    /\ app \in Apps
    /\ fw \in Firmware /\ dg \in Diagnostics /\ left \in 0..5
    /\ job \in [{"download", "install", "upload"} -> Progress]
    /\ newBuild \in BOOLEAN /\ told \subseteq FwStatus /\ minDuration \in BOOLEAN
    /\ failures \in Nat
    /\ budget \in [Operations -> Nat]

\* From the acceptance of a Reset until the device restarts or the last attempt has failed, no
\* transaction charges: those that ran are ended, and none starts, whoever else changes the
\* availability of the connectors meanwhile (ResetService::initiateReset, Connector::loop).
NoChargingUnderReset == left > 0 => \A c \in Connector : tx[c].phase # "running"

\* No attempt of a firmware update fails without a message to the server that says so, sent since
\* it began (FirmwareService::loop, getFirmwareStatusNotification).  It may have been sent before
\* the failure, when the attempt waited and the application still gave the result of the one
\* before; then the failure itself is not told again.
Fails ==
    \/ fw.stage = "Downloading" /\ app.downloadStatus /\ job.download = "failed"
    \/ fw.stage = "Installing" /\ app.installStatus /\ job.install = "failed"
Failure == IF fw.stage = "Downloading" THEN "DownloadFailed" ELSE "InstallationFailed"
FailureReported ==
    [][pc = "maintenance" /\ Fails /\ fw'.stage = "Idle" /\ pc' # "off"
           => Failure \in told']_vars

\* Neither a failing download nor a failing installation nor a failing upload keeps a service busy
\* for ever: the retries are used up.  An update may wait for a transaction, and an upload starts
\* again when its success is seen at the very end of the time limit (FirmwareService::loop,
\* DiagnosticsService::loop).
Wrap == pc = "maintenance" /\ dg.issued /\ ~dg'.issued /\ dg'.retries > 0
MaintenanceEnds ==
    /\ []<>(fw.retries = 0 \/ Ongoing)
    /\ []<>(dg.retries = 0) \/ []<><<Wrap>>_vars

\* The connectors that a Reset made inoperative are given back, by the restart of the device or
\* after the last attempt failed, even if resets and updates overlap (ResetService::loop).
GivenBack == []<>(\A c \in Connector : vol[c])

\* A card is not authorized at a connector that is reserved for another tag, unless its parent
\* tag, as the local list or the server told it last, is that of the reservation: be it that the
\* server or the settings for offline operation allow it.  The server can move a reservation to
\* a connector that is in use (Connector::beginTransaction, ReserveNow::processReq).
Honoured ==
    \A c \in Connector \ moved, i \in Holding :
        slot[i].at = c /\ ~slot[i].late /\ Active(tx[c]) /\ tx[c].card /\ tx[c].auth
            => \/ tx[c].tag = slot[i].tag
               \/ slot[i].parent # None /\ tx[c].parent = slot[i].parent

\* The server learns the status of each connector, however it changed, once it has lasted
\* (Connector::loop).
Informed == []<>(\A c \in Place : rep[c] = StatusNow(c))

=============================================================================
