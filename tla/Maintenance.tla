----------------------------- MODULE Maintenance -----------------------------
(***************************************************************************)
(* Firmware updates, diagnostics uploads and resets: the three services    *)
(* that carry out what the server asks for over many passes of the main    *)
(* loop, with the callbacks of the application, retries and delays.        *)
(*                                                                         *)
(* Dates and delays are abstracted: whether the time of a step has come is *)
(* an input of the service's turn.  The application's callbacks report the *)
(* progress of its downloads, installations and uploads (its jobs).        *)
(***************************************************************************)
EXTENDS Connectors

CONSTANTS
    Apps,          \* the callbacks the application may have set
    ResetRetries,  \* the configuration of that name
    UIntMax        \* the greatest number of retries (unsigned int)

ASSUME MaintenanceAssumption ==
    /\ Apps \subseteq [download : BOOLEAN, downloadStatus : BOOLEAN, install : BOOLEAN,
                       installStatus : BOOLEAN, uploadStatus : BOOLEAN]
    /\ ResetRetries \in Nat /\ UIntMax \in Nat \ {0}
    /\ {"update", "upload", "reset"} \subseteq Operations

VARIABLES
    app,        \* the callbacks that are set
    fw,         \* RAM: FirmwareService
    dg,         \* RAM: DiagnosticsService
    left,       \* RAM: outstandingResetRetries
    job,        \* the application's download, installation and upload
    newBuild,   \* flash: the stored build number is not that of the running firmware
    told        \* history: the notifications sent since the update was last idle

maintVars == <<app, fw, dg, left, job, newBuild, told>>

Progress == {"none", "busy", "done", "failed"}
FwStatus == {"Idle", "Downloading", "Downloaded", "DownloadFailed", "Installing",
             "InstallationFailed", "Installed"}
DgStatus == {"Idle", "Uploading", "Uploaded", "UploadFailed"}
Stage == {"Idle", "AwaitDownload", "Downloading", "AfterDownload", "AwaitInstallation", "Installing"}

Firmware == [stage : Stage, retries : 0..UIntMax, download : BOOLEAN, install : BOOLEAN,
             reported : FwStatus, checked : BOOLEAN]
Diagnostics == [retries : 0..UIntMax, issued : BOOLEAN, reported : DgStatus]

NoUpdate == [stage |-> "Idle", retries |-> 0, download |-> FALSE, install |-> FALSE,
             reported |-> "Idle", checked |-> FALSE]
NoUpload == [retries |-> 0, issued |-> FALSE, reported |-> "Idle"]
NoJobs == [download |-> "none", install |-> "none", upload |-> "none"]

\* Mutant: the number is signed.
LessSigned(n) == n - 1

\* An unsigned number less one.
Less(n) == IF n = 0 THEN UIntMax ELSE n - 1

ConnectorsUnchanged ==
    UNCHANGED <<tasks, fault, plugged, avail, tx, cur, rep, seen, minDuration>>

-----------------------------------------------------------------------------
(* Firmware *)

ResetStage(f) == [f EXCEPT !.stage = "Idle", !.download = FALSE, !.install = FALSE]

\* UpdateFirmware: what was under way is forgotten.
UpdateFirmware(retries) ==
    /\ Idle /\ Spend("update")
    /\ fw' = [ResetStage(fw) EXCEPT !.retries = retries]
    /\ UNCHANGED <<app, dg, left, job, newBuild, told, pc, vol, slot>>
    /\ ConnectorsUnchanged

\* getFirmwareStatus
FirmwareStatus(f) ==
    IF f.install /\ app.installStatus /\ job.install = "done" THEN "Installed"
    ELSE IF f.install /\ app.installStatus /\ job.install = "failed" THEN "InstallationFailed"
    ELSE IF f.install /\ app.install THEN "Installing"
    ELSE IF f.download /\ app.downloadStatus /\ job.download = "done" THEN "Downloaded"
    ELSE IF f.download /\ app.downloadStatus /\ job.download = "failed" THEN "DownloadFailed"
    ELSE IF f.download /\ app.download THEN "Downloading"
    ELSE "Idle"

\* Mutant: the status is reported after the stage was left.
NotedLate == [fw EXCEPT !.checked = TRUE]

\* The service's state after it has reported what changed, once per boot a new build.
Noted ==
    IF ~fw.checked /\ newBuild THEN [fw EXCEPT !.checked = TRUE, !.reported = "Installed"]
    ELSE [fw EXCEPT !.checked = TRUE, !.reported = FirmwareStatus(fw)]

\* The FirmwareStatusNotification that this sends, if any.
Sent ==
    IF ~fw.checked /\ newBuild THEN {"Installed"}
    ELSE {Noted.reported} \ {fw.reported, "Idle", "Installed"}

Ongoing == \E c \in Connector : Running(tx[c])

\* Mutant: an attempt that failed is not counted.
RetryForEver(f) == ResetStage(f)

\* An attempt that failed: the next one is after the retry interval.
Retry(f) == [ResetStage(f) EXCEPT !.retries = Less(@)]

\* The end of the update.
Finished(f) == [ResetStage(f) EXCEPT !.retries = 0]

\* The stage that a transaction holds up.
AfterDownload(f) ==
    IF Ongoing THEN [f EXCEPT !.stage = "AfterDownload"]
    ELSE [f EXCEPT !.stage = "AwaitInstallation", !.install = TRUE]

\* One turn in each of the stages.
StartUpdate(f) ==
    /\ f.stage = "Idle"
    /\ fw' = IF app.download THEN [f EXCEPT !.stage = "AwaitDownload", !.download = TRUE]
             ELSE AfterDownload(f)

StartDownload(f) ==
    /\ f.stage = "AwaitDownload"
    /\ fw' = [f EXCEPT !.stage = "Downloading"]

EndDownload(f) ==
    /\ f.stage = "Downloading"
    /\ fw' = IF ~app.downloadStatus THEN AfterDownload(f)
             ELSE IF job.download = "done" THEN [f EXCEPT !.stage = "AfterDownload"]
             ELSE IF job.download = "failed" THEN Retry(f) ELSE f

AwaitTransactions(f) ==
    /\ f.stage = "AfterDownload"
    /\ fw' = AfterDownload(f)

StartInstallation(f) ==
    /\ f.stage = "AwaitInstallation"
    /\ fw' = [f EXCEPT !.stage = "Installing"]

EndInstallation(f) ==
    /\ f.stage = "Installing"
    /\ fw' = IF ~app.installStatus \/ job.install = "done" THEN Finished(f)
             ELSE IF job.install = "failed" THEN Retry(f) ELSE f

\* The turn of the service: the stage goes on if the delay is over and the date has come.
FirmwareActs ==
    /\ fw.retries > 0
    /\ \/ StartUpdate(Noted)
       \/ StartDownload(Noted)
       \/ EndDownload(Noted)
       \/ AwaitTransactions(Noted)
       \/ StartInstallation(Noted)
       \/ EndInstallation(Noted)

\* The start of an update makes the charge point inoperative.
FirmwareTakes == fw.stage = "Idle" /\ fw.retries > 0

FirmwareTurn(acts) ==
    /\ IF acts THEN FirmwareActs ELSE fw' = Noted
    /\ newBuild' = (newBuild /\ fw.checked)
    /\ told' = Sent \cup IF fw.stage = "Idle" THEN {} ELSE told
    /\ vol' = IF acts /\ FirmwareTakes THEN [vol EXCEPT ![0] = FALSE] ELSE vol

\* The job that the turn begins.
JobsBegun(acts, uploads) ==
    [job EXCEPT !.download = IF acts /\ fw.stage = "AwaitDownload" THEN "busy" ELSE @,
                !.install = IF acts /\ fw.stage = "AwaitInstallation" /\ app.install
                            THEN "busy" ELSE @,
                !.upload = IF uploads THEN "busy" ELSE @]

-----------------------------------------------------------------------------
(* Diagnostics *)

GetDiagnostics(retries) ==
    /\ Idle /\ Spend("upload")
    /\ dg' = [dg EXCEPT !.retries = retries, !.issued = FALSE]
    /\ UNCHANGED <<app, fw, left, job, newBuild, told, pc, vol, slot>>
    /\ ConnectorsUnchanged

\* getDiagnosticsStatus
DiagnosticsStatus ==
    IF ~dg.issued THEN "Idle"
    ELSE IF app.uploadStatus /\ job.upload = "done" THEN "Uploaded"
    ELSE IF app.uploadStatus /\ job.upload = "failed" THEN "UploadFailed" ELSE "Uploading"

\* The success of an upload is noted, and then the time limit is looked at all the same, so that
\* the retries may wrap around.
Uploaded(d) == IF app.uploadStatus /\ job.upload = "done"
               THEN [d EXCEPT !.issued = FALSE, !.retries = 0] ELSE d
Overdue(d) == IF ~app.uploadStatus THEN [d EXCEPT !.issued = FALSE, !.retries = 0]
              ELSE [d EXCEPT !.retries = Less(@)]

UploadFailed == app.uploadStatus /\ job.upload = "failed"

\* The turn of the service; late: the time limit of the upload is over.
Uploads == dg.retries > 0 /\ ~dg.issued
DiagnosticsTurn(acts, late) ==
    LET d == [dg EXCEPT !.reported = DiagnosticsStatus] IN
    dg' = IF ~acts \/ d.retries = 0 THEN d
          ELSE IF Uploads
          THEN IF late THEN Overdue([d EXCEPT !.issued = TRUE]) ELSE [d EXCEPT !.issued = TRUE]
          ELSE IF late \/ UploadFailed THEN Overdue(Uploaded(d)) ELSE Uploaded(d)

-----------------------------------------------------------------------------
(* Reset *)

\* Reset: the application may refuse a soft one.
Reset(hard, agreed) ==
    /\ Idle /\ Spend("reset")
    /\ hard \/ agreed
    /\ left' = IF ResetRetries > 4 THEN 5 ELSE 1 + ResetRetries
    /\ vol' = [c \in Place |-> FALSE]
    /\ tx' = [c \in Connector |-> Inactive(tx[c])]
    /\ UNCHANGED <<app, fw, dg, job, newBuild, told>>
    /\ UNCHANGED <<pc, tasks, fault, plugged, avail, cur, rep, seen, slot, minDuration>>

\* Mutant: the attempts are counted after that was decided.
GivesBackLate == left = 0

\* After the last attempt the connectors are given back, whoever took them.
GivesBack == left = 1

\* The turn of the service: executeReset is called, and comes back if the device was not reset.
ResetDue == left > 0
ResetTurn(fails) ==
    /\ left' = IF fails THEN left - 1 ELSE left
    /\ vol' = IF fails /\ GivesBack THEN [c \in Place |-> TRUE] ELSE vol

-----------------------------------------------------------------------------
(* The application *)

JobEnds(j, result) ==
    /\ Idle /\ job[j] = "busy"
    /\ job' = [job EXCEPT ![j] = result]
    /\ UNCHANGED <<app, fw, dg, left, newBuild, told>>
    /\ UNCHANGED connVars

=============================================================================
