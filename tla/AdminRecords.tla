---------------------------- MODULE AdminRecords ----------------------------
(***************************************************************************)
(* What the admin services keep besides accounts: one settings document,   *)
(* read first and saved later, the logs, which three clean-ups remove, and *)
(* the backup directories.  A call reads, writes and logs in steps of its  *)
(* own; saving a document writes the paths whose value was assigned and is *)
(* not the one that was read.                                              *)
(***************************************************************************)
EXTENDS Integers

CONSTANTS
    Calls,    \* the calls of a behaviour
    Alerts,   \* the keys of the alert configuration
    Bodies,   \* the settings a request may give, each a function on some fields
    Days,     \* retention periods and periods asked for, 0 among them
    Ages,     \* the logs there are, each by its age in days
    None

VARIABLES
    settings,  \* the first settings document, the one findOne finds
    logs, backups,
    call,      \* what each call does, what it read, and where it is
    logged,    \* how many entries each call logged
    assigned,  \* history: the value given last to each field by a call that saved
    skipped,   \* history: the fields in which another call's value was left then
    asked,     \* history: the alert keys given since the alerts were last replaced
    crossed,   \* history: alerts were saved over others its call had not read
    policies   \* history: the periods in force since each call began

vars == <<settings, logs, backups, call, logged, assigned, skipped, asked, crossed, policies>>
histories == <<assigned, skipped, asked, crossed>>

(* A document tells of each field what kind of value it has; None is null, too.   *)
Fields == {"maintenance", "configurations", "retention", "alerts"}
Empty == [f \in Fields |-> None]
Values(f) ==
    CASE f = "maintenance" -> {"on", "off"}
      [] f = "configurations" -> {"custom"}
      [] f = "retention" -> Days \cup {2555}
      [] f = "alerts" -> SUBSET Alerts
Keys(alerts) == IF alerts = None THEN {} ELSE alerts

(* What 0 or nothing stands for where the code writes days || default. *)
Or(days, default) == IF days \in {None, 0} THEN default ELSE days
Period(doc) == IF doc = None THEN 2555 ELSE Or(doc["retention"], 2555)
Bug_Month == 30
getRetentionPolicy == Period(settings)
isMaintenanceMode == settings # None /\ settings["maintenance"] = "on"

Idle == [op |-> None, arg |-> None, read |-> None, at |-> "idle"]
(* A document, if there is one, was made by toggleMaintenanceMode: no other that  *)
(* is saved first has the key the schema requires, the default one included.      *)
Init ==
    /\ settings \in {None, Empty} /\ logs = Ages /\ backups = [c \in Calls |-> None]
    /\ call = [c \in Calls |-> Idle] /\ logged = [c \in Calls |-> 0]
    /\ assigned = Empty /\ skipped = {} /\ asked = {} /\ crossed = FALSE
    /\ policies = [c \in Calls |-> {}]

At(c, at) == call[c].at = at
Begin(c, op, arg, read, at) ==
    /\ At(c, "idle")
    /\ call' = [call EXCEPT ![c] = [op |-> op, arg |-> arg, read |-> read, at |-> at]]
    /\ policies' = [policies EXCEPT ![c] = {Period(settings)}]
    /\ UNCHANGED <<logged, histories>>
Go(c, at) == call' = [call EXCEPT ![c].at = at]

-----------------------------------------------------------------------------
(* Settings: found, assigned, saved.                                             *)
Assign(c, op, patch, keyed, dated) ==
    /\ Begin(c, op, [patch |-> patch, keyed |-> keyed, dated |-> dated], settings, "found")
    /\ UNCHANGED <<settings, logs, backups>>
(* Any body will do, and all of it is assigned; a keyed one can be saved first.  *)
updateSystemSettings(c, patch, keyed) == Assign(c, "settings", patch, keyed, FALSE)
(* These two save through updateSystemSettings, and log once more; the date in   *)
(* the one makes it a value nobody has read.                                     *)
setMaintenanceMode(c, v) == Assign(c, "nested", [f \in {"maintenance"} |-> v], FALSE, TRUE)
updateSystemConfigurations(c) == Assign(c, "nested", [f \in {"configurations"} |-> "custom"], FALSE, FALSE)
updateRetentionPolicy(c, days) == Assign(c, "settings", [f \in {"retention"} |-> Or(days, 2555)], FALSE, FALSE)
configureAlerts(c, keys) ==
    /\ Begin(c, "alerts", keys, settings, "found")
    /\ UNCHANGED <<settings, logs, backups>>
toggleMaintenanceMode(c) ==
    /\ Begin(c, "toggle", None, None, "done")
    /\ settings' = IF settings = None THEN Empty ELSE settings
    /\ UNCHANGED <<logs, backups>>

(* A save, a deletion or a backup may fail, and that of a first document without *)
(* a key always does; one with a key that another call got in before is second,  *)
(* and nobody reads it.                                                          *)
Writing(c) == At(c, "found") /\ call[c].op \in {"settings", "nested"}
Keyed(c) == call[c].arg.keyed
Refused(c) ==
    /\ At(c, "found") /\ Go(c, "thrown")
    /\ UNCHANGED <<settings, logs, backups, logged, histories, policies>>
SecondDocument(c) ==
    /\ Writing(c) /\ call[c].read = None /\ Keyed(c) /\ settings # None
    /\ \E at \in {"saved", "thrown"} : Go(c, at)
    /\ UNCHANGED <<settings, logs, backups, logged, histories, policies>>

Bug_Stale(c) == IF call[c].read = None THEN Empty ELSE call[c].read
Document(c) == IF settings = None THEN Empty ELSE settings
Cleaning(c) == At(c, "found") /\ call[c].op = "cleanup"
(* The fields given what was read of them: values of one kind may be the same.   *)
MaybeSame(c) ==
    IF call[c].read = None \/ call[c].arg.dated THEN {}
    ELSE {f \in DOMAIN call[c].arg.patch : call[c].arg.patch[f] = call[c].read[f]}
(* A field that was given the value read of it is not written, whatever it is by *)
(* now.                                                                          *)
SaveField(c) ==
    /\ Writing(c)
    /\ call[c].read # None \/ (Keyed(c) /\ settings = None)
    /\ \E same \in SUBSET MaybeSame(c) :
        LET patch == call[c].arg.patch
            written == DOMAIN patch \ same IN
        /\ settings' = [f \in Fields |-> IF f \in written THEN patch[f] ELSE Document(c)[f]]
        /\ assigned' = [f \in Fields |-> IF f \in DOMAIN patch THEN patch[f] ELSE assigned[f]]
        /\ skipped' = (skipped \ DOMAIN patch) \cup {f \in same : settings[f] # patch[f]}
        /\ asked' = IF "alerts" \in written THEN Keys(patch["alerts"]) ELSE asked
        /\ crossed' = (crossed /\ "alerts" \notin written)
    /\ policies' = [d \in Calls |-> IF Cleaning(d) THEN policies[d] \cup {Period(settings')} ELSE policies[d]]
    /\ Go(c, "saved")
    /\ UNCHANGED <<logs, backups, logged>>
(* What is saved is what was read, with the keys of this call and a date. *)
SaveAlerts(c) ==
    /\ At(c, "found") /\ call[c].op = "alerts" /\ call[c].read # None
    /\ LET alerts == Keys(call[c].read["alerts"]) \cup call[c].arg IN
        /\ settings' = [settings EXCEPT !["alerts"] = alerts]
        /\ assigned' = [assigned EXCEPT !["alerts"] = alerts]
    /\ skipped' = skipped \ {"alerts"}
    /\ asked' = asked \cup call[c].arg
    /\ crossed' = (crossed \/ Keys(settings["alerts"]) # Keys(call[c].read["alerts"]))
    /\ Go(c, "saved")
    /\ UNCHANGED <<logs, backups, logged, policies>>

-----------------------------------------------------------------------------
(* Logs: the audit service reads the policy first and takes it for no days, the  *)
(* system service does not read it and takes 0, or null, as asked, and the admin *)
(* service logs nothing.                                                         *)
auditCleanup(c, days) ==
    /\ Begin(c, "cleanup", days, Or(days, getRetentionPolicy), "found")
    /\ UNCHANGED <<settings, logs, backups>>
DeleteOld(c) ==
    /\ Cleaning(c)
    /\ logs' = {age \in logs : age <= call[c].read}
    /\ Go(c, "saved")
    /\ UNCHANGED <<settings, backups, logged, histories, policies>>
Limit(days) == IF days = None THEN 30 ELSE days
systemCleanup(c, days) ==
    /\ Begin(c, "system", days, None, "saved")
    /\ logs' = {age \in logs : age <= Limit(days)}
    /\ UNCHANGED <<settings, backups>>
bulkDeleteLogs(c, ages) ==
    /\ Begin(c, "bulk", ages, None, "saved") /\ logs' = logs \ ages
    /\ UNCHANGED <<settings, backups>>
clearLogs(c, ages) ==
    /\ Begin(c, "clear", ages, None, "done") /\ logs' = logs \ ages
    /\ UNCHANGED <<settings, backups>>

(* Backups: the directory comes first, and is listed as completed from then on.  *)
createBackup(c) ==
    /\ Begin(c, "backup", None, None, "found")
    /\ backups' = [backups EXCEPT ![c] = "in_progress"]
    /\ UNCHANGED <<settings, logs>>
Completed(c) ==
    /\ At(c, "found") /\ call[c].op = "backup"
    /\ backups' = [backups EXCEPT ![c] = "completed"] /\ Go(c, "saved")
    /\ UNCHANGED <<settings, logs, logged, histories, policies>>
getBackups == {b \in Calls : backups[b] # None}
restoreBackup(c, b) ==
    /\ b \in getBackups /\ Begin(c, "restore", b, backups[b], "saved")
    /\ UNCHANGED <<settings, logs, backups>>

(* What these do is made up or done on the way; that they did it is logged.       *)
Report(c) == Begin(c, "report", None, None, "saved") /\ UNCHANGED <<settings, logs, backups>>
clearCache(c) == Report(c)
optimizeDatabase(c) == Report(c)
performSecurityScan(c) == Report(c)
sendSystemNotification(c) == Report(c)
checkForUpdates(c) == Report(c)
cleanupTempFiles(c) == Report(c)
restartService(c) == Report(c)

(* These query the logs first, which may fail.                                   *)
ReadLogs(c) ==
    /\ \E at \in {"saved", "thrown"} : Begin(c, "report", None, logs, at)
    /\ UNCHANGED <<settings, logs, backups>>
exportAuditLogs(c) == ReadLogs(c)
verifyLogIntegrity(c) == ReadLogs(c)
backupAuditLogs(c) == ReadLogs(c)

(* Whoever asks for settings when there are none has the default ones made,      *)
(* which is refused: they lack the key.                                          *)
createDefaultSettings(c) == Begin(c, "read", None, None, "thrown")
getSystemSettings(c) ==
    /\ IF settings = None THEN createDefaultSettings(c) ELSE Begin(c, "read", None, settings, "done")
    /\ UNCHANGED <<settings, logs, backups>>

Entries(c) == IF call[c].op = "nested" THEN 2 ELSE 1
(* A log that cannot be written is given up. *)
logAction(c) ==
    /\ At(c, "saved")
    /\ logged' = [logged EXCEPT ![c] = @ + 1]
    /\ Go(c, IF logged[c] + 1 = Entries(c) THEN "done" ELSE "saved")
    /\ UNCHANGED <<settings, logs, backups, histories, policies>>
Crash(c) ==
    /\ call[c].at \in {"found", "saved"} /\ Go(c, "crashed")
    /\ UNCHANGED <<settings, logs, backups, logged, histories, policies>>

(* What the endpoints of the three controllers ask of the services. *)
SystemRequests(c) ==
    \/ \E patch \in Bodies, keyed \in BOOLEAN : updateSystemSettings(c, patch, keyed)
    \/ \E v \in {"on", "off"} : setMaintenanceMode(c, v)
    \/ getSystemSettings(c) \/ updateSystemConfigurations(c)
    \/ \E days \in Days \cup {None} : systemCleanup(c, days)
    \/ createBackup(c) \/ \E b \in Calls : restoreBackup(c, b)
    \/ clearCache(c) \/ optimizeDatabase(c) \/ performSecurityScan(c) \/ sendSystemNotification(c)
    \/ checkForUpdates(c) \/ cleanupTempFiles(c) \/ restartService(c)
AuditRequests(c) ==
    \/ \E days \in Days \cup {None} : updateRetentionPolicy(c, days)
    \/ \E keys \in (SUBSET Alerts) \ {{}} : configureAlerts(c, keys)
    \/ \E days \in Days \cup {None} : auditCleanup(c, days)
    \/ \E ages \in {{a} : a \in Ages} : bulkDeleteLogs(c, ages)
    \/ exportAuditLogs(c) \/ verifyLogIntegrity(c) \/ backupAuditLogs(c)
AdminRequests(c) ==
    \/ toggleMaintenanceMode(c)
    \/ \E ages \in {{a} : a \in Ages} : clearLogs(c, ages)

Next == \E c \in Calls :
    \/ SystemRequests(c) \/ AuditRequests(c) \/ AdminRequests(c)
    \/ Refused(c) \/ SecondDocument(c) \/ SaveField(c) \/ SaveAlerts(c)
    \/ DeleteOld(c) \/ Completed(c) \/ logAction(c) \/ Crash(c)

Spec == Init /\ [][Next]_vars

-----------------------------------------------------------------------------
TypeOK ==
    /\ settings # None => \A f \in Fields : settings[f] \in Values(f) \cup {None}
    /\ logs \subseteq Ages /\ backups \in [Calls -> {None, "in_progress", "completed"}]
    /\ \A c \in Calls : logged[c] > 0 => call[c].at \in {"saved", "done", "crashed"}

(* Calls that save settings they read before another one saved lose nothing of   *)
(* it: each field is what was given last to it, unless that was what its call    *)
(* had read while another call had changed it.  Alerts hold all keys given since *)
(* they were last replaced, unless two configurations crossed.                   *)
SettingsAreKept ==
    /\ settings # None => skipped = {f \in Fields : settings[f] # assigned[f]}
    /\ "maintenance" \notin skipped => (isMaintenanceMode <=> assigned["maintenance"] = "on")
    /\ settings # None /\ ~crossed => Keys(settings["alerts"]) = asked

(* A log that is gone was asked for, or was older than the days the system       *)
(* service was asked for, thirty without, or older than those the audit service  *)
(* was asked for or, without, than a period in force since its call began; an    *)
(* unfinished backup is one whose call is not over, failed or stopped, and can   *)
(* be restored all the same.                                                     *)
LogsAreKept ==
    /\ \A age \in Ages \ logs : \E c \in Calls :
        \/ call[c].op = "cleanup" /\ (IF call[c].arg \in {None, 0} THEN \E days \in policies[c] : age > days ELSE age > call[c].arg)
        \/ call[c].op = "system" /\ age > Limit(call[c].arg)
        \/ call[c].op \in {"bulk", "clear"} /\ age \in call[c].arg
    /\ \A b \in Calls : backups[b] = "in_progress" => call[b].at \in {"found", "thrown", "crashed"}
=============================================================================
