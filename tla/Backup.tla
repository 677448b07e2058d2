------------------------------- MODULE Backup -------------------------------
(***************************************************************************)
(* The mailed backup of the rules (BackupNow and checkBackup,              *)
(* internal/poller/poller.go), asked for by the loop after its ticks and   *)
(* by requests of the web interface and of MCP, its settings, and the      *)
(* alert that tells of a scheduled backup that failed.                     *)
(* Times are ages, up to the longest period; time passes between steps.    *)
(***************************************************************************)
EXTENDS Integers

CONSTANTS
    Loop,         \* the poller's loop
    Requests,     \* requests for a backup now
    Never,        \* last_backup is not set
    Frequencies,  \* daily, weekly, monthly
    Period(_),    \* the age at which the next backup is due
    Longest,      \* the longest period, where ages stop counting
    MaxCrashes    \* bound: crashes

ASSUME BackupAssumption ==
    /\ Loop \notin Requests
    /\ Longest \in Nat /\ MaxCrashes \in Nat
    /\ Never \notin 0..Longest
    /\ \A f \in Frequencies : Period(f) \in 1..Longest

VARIABLES
    enabled,    \* backup_enabled
    frequency,  \* backup_frequency
    stamp,      \* the age of last_backup
    doing,      \* where each of Loop and Requests is
    read,       \* the age of the last_backup that checkBackup has read
    mail,       \* rules can be exported and mail be sent
    delivered,  \* the age of the last backup that went out
    alertsOn,   \* alerts_enabled, with a URL
    webhook,    \* alerts can be delivered
    alerting,   \* a goroutine has a backup_failed alert to deliver
    sign,       \* the age of the last sign of life: a backup or an alert
    crashes

backupVars == <<enabled, frequency, stamp, doing, read, mail, delivered,
                alertsOn, webhook, alerting, sign, crashes>>

Ages == 0..Longest
Writers == {Loop} \cup Requests

(* The types of the variables. *)
BackupTypeOK ==
    /\ enabled \in BOOLEAN /\ mail \in BOOLEAN
    /\ alertsOn \in BOOLEAN /\ webhook \in BOOLEAN /\ alerting \in BOOLEAN
    /\ frequency \in Frequencies
    /\ stamp \in Ages \cup {Never} /\ read \in Ages \cup {Never}
    /\ delivered \in Ages \cup {Never} /\ sign \in Ages
    /\ doing \in [Writers -> {"idle", "last", "frequency", "send", "stamp"}]
    /\ crashes \in 0..MaxCrashes

BackupInit ==
    /\ enabled \in BOOLEAN /\ alertsOn \in BOOLEAN
    /\ frequency \in Frequencies
    /\ stamp = Never /\ read = Never /\ delivered = Never
    /\ doing = [w \in Writers |-> "idle"]
    /\ mail \in BOOLEAN /\ webhook \in BOOLEAN
    /\ alerting = FALSE
    /\ sign = 0
    /\ crashes = 0

Goes(w, place) == doing' = [doing EXCEPT ![w] = place]

(* A time that was never set is the zero time, longer ago than any period.  *)
Age(a) == IF a = Never THEN Longest ELSE a

-----------------------------------------------------------------------------
(* checkBackup, after a tick; its settings are read one after the other.    *)

CheckBackup ==
    /\ doing[Loop] = "idle"
    /\ enabled
    /\ Goes(Loop, "last")
    /\ UNCHANGED <<enabled, frequency, stamp, read, mail, delivered, alertsOn,
                   webhook, alerting, sign, crashes>>

(* A mistake BackupsRecur rules out: no last backup counts as a recent one. *)
ReadLastBackupOrNow ==
    /\ doing[Loop] = "last"
    /\ read' = IF stamp = Never THEN 0 ELSE stamp
    /\ Goes(Loop, "frequency")
    /\ UNCHANGED <<enabled, frequency, stamp, mail, delivered, alertsOn,
                   webhook, alerting, sign, crashes>>

ReadLastBackup ==
    /\ doing[Loop] = "last"
    /\ read' = stamp
    /\ Goes(Loop, "frequency")
    /\ UNCHANGED <<enabled, frequency, stamp, mail, delivered, alertsOn,
                   webhook, alerting, sign, crashes>>

Threshold ==
    /\ doing[Loop] = "frequency"
    /\ Goes(Loop, IF Age(read) < Period(frequency) THEN "idle" ELSE "send")
    /\ read' = Never
    /\ UNCHANGED <<enabled, frequency, stamp, mail, delivered, alertsOn,
                   webhook, alerting, sign, crashes>>

-----------------------------------------------------------------------------
(* BackupNow. *)

(* settingsBackupNow and the tool backup_now *)
RequestBackup(r) ==
    /\ doing[r] = "idle"
    /\ Goes(r, "send")
    /\ UNCHANGED <<enabled, frequency, stamp, read, mail, delivered, alertsOn,
                   webhook, alerting, sign, crashes>>

SendBackup(w) ==
    /\ doing[w] = "send"
    /\ mail
    /\ delivered' = 0
    /\ sign' = 0
    /\ Goes(w, "stamp")
    /\ UNCHANGED <<enabled, frequency, stamp, read, mail, alertsOn, webhook,
                   alerting, crashes>>

(* The backup is not sent, or it is and the mail server errs afterwards.    *)
MailErrs ==
    \/ ~mail /\ UNCHANGED <<delivered, sign>>
    \/ mail /\ delivered' = 0 /\ sign' = 0

SendAlertNow == alerting' = (alerting \/ alertsOn)

(* A mistake NoSilentFailure rules out: a failure is written to the log     *)
(* only.                                                                    *)
BackupFailsSilently(w) ==
    /\ doing[w] = "send"
    /\ MailErrs
    /\ Goes(w, "idle")
    /\ UNCHANGED <<enabled, frequency, stamp, read, mail, alertsOn, webhook,
                   alerting, crashes>>

(* A mistake StampIsTrue rules out: last_backup is set on failure, too.     *)
BackupFailsStamped(w) ==
    /\ doing[w] = "send"
    /\ MailErrs
    /\ Goes(w, "stamp")
    /\ IF w = Loop THEN SendAlertNow ELSE UNCHANGED alerting
    /\ UNCHANGED <<enabled, frequency, stamp, read, mail, alertsOn, webhook,
                   crashes>>

(* BackupNow returns an error, which checkBackup turns into an alert. *)
BackupFails(w) ==
    /\ doing[w] = "send"
    /\ MailErrs
    /\ Goes(w, "idle")
    /\ IF w = Loop THEN SendAlertNow ELSE UNCHANGED alerting
    /\ UNCHANGED <<enabled, frequency, stamp, read, mail, alertsOn, webhook,
                   crashes>>

(* last_backup is set; the error is ignored. *)
StampBackup(w) ==
    /\ doing[w] = "stamp"
    /\ Goes(w, "idle")
    /\ stamp' \in {0, stamp}
    /\ UNCHANGED <<enabled, frequency, read, mail, delivered, alertsOn,
                   webhook, alerting, sign, crashes>>

(* deliverAlert, by the goroutine sendAlertNow starts *)
DeliverAlert ==
    /\ alerting
    /\ webhook
    /\ alerting' = FALSE
    /\ sign' = 0
    /\ UNCHANGED <<enabled, frequency, stamp, doing, read, mail, delivered,
                   alertsOn, webhook, crashes>>

(* An alert that cannot be delivered is logged as a warning, not retried.   *)
AlertFails ==
    /\ alerting
    /\ ~webhook
    /\ alerting' = FALSE
    /\ UNCHANGED <<enabled, frequency, stamp, doing, read, mail, delivered,
                   alertsOn, webhook, sign, crashes>>

-----------------------------------------------------------------------------
(* Around it. *)

(* settingsSaveBackup writes the settings one after the other, and          *)
(* settingsSaveAlerts too.                                                  *)
SaveEnabled ==
    /\ enabled' = ~enabled
    /\ UNCHANGED <<frequency, stamp, doing, read, mail, delivered, alertsOn,
                   webhook, alerting, sign, crashes>>

SaveFrequency ==
    /\ frequency' \in Frequencies
    /\ UNCHANGED <<enabled, stamp, doing, read, mail, delivered, alertsOn,
                   webhook, alerting, sign, crashes>>

SaveAlerts ==
    /\ alertsOn' = ~alertsOn
    /\ UNCHANGED <<enabled, frequency, stamp, doing, read, mail, delivered,
                   webhook, alerting, sign, crashes>>

MailChanges ==
    /\ mail' = ~mail
    /\ UNCHANGED <<enabled, frequency, stamp, doing, read, delivered, alertsOn,
                   webhook, alerting, sign, crashes>>

WebhookChanges ==
    /\ webhook' = ~webhook
    /\ UNCHANGED <<enabled, frequency, stamp, doing, read, mail, delivered,
                   alertsOn, alerting, sign, crashes>>

(* A mistake BackupTypeOK rules out: ages count on for ever. *)
OlderForEver(a) == IF a = Never THEN a ELSE a + 1

Older(a) == IF a \in {Never, Longest} THEN a ELSE a + 1

(* The mail is stamped within the unit of time in which it went out.        *)
TimePasses ==
    /\ \A w \in Writers : doing[w] # "stamp"
    /\ stamp' = Older(stamp) /\ read' = Older(read)
    /\ delivered' = Older(delivered) /\ sign' = Older(sign)
    /\ UNCHANGED <<enabled, frequency, doing, mail, alertsOn, webhook, alerting,
                   crashes>>

CrashBackup ==
    /\ crashes < MaxCrashes
    /\ crashes' = crashes + 1
    /\ doing' = [w \in Writers |-> "idle"]
    /\ alerting' = FALSE
    /\ read' = Never
    /\ UNCHANGED <<enabled, frequency, stamp, mail, delivered, alertsOn, webhook,
                   sign>>

LoopStep ==
    \/ CheckBackup \/ ReadLastBackup \/ Threshold
    \/ SendBackup(Loop) \/ BackupFails(Loop) \/ StampBackup(Loop)

RequestStep ==
    \E r \in Requests : RequestBackup(r) \/ SendBackup(r) \/ BackupFails(r) \/ StampBackup(r)

BackupNext ==
    \/ LoopStep
    \/ RequestStep
    \/ DeliverAlert \/ AlertFails
    \/ SaveEnabled \/ SaveFrequency \/ SaveAlerts
    \/ MailChanges \/ WebhookChanges
    \/ TimePasses
    \/ CrashBackup

(* The loop runs, a request that began goes on, time passes, goroutines run.*)
BackupFairness ==
    /\ WF_backupVars(LoopStep)
    /\ \A r \in Requests : WF_backupVars(StampBackup(r))
    /\ WF_backupVars(TimePasses)
    /\ WF_backupVars(DeliverAlert \/ AlertFails)

BackupSpec == BackupInit /\ [][BackupNext]_backupVars /\ BackupFairness

-----------------------------------------------------------------------------
(* Properties. *)

(* last_backup never tells of a backup that did not go out: neither a       *)
(* failure nor a crash nor a second writer makes it newer than the mail.    *)
StampIsTrue ==
    stamp # Never => delivered # Never /\ delivered <= stamp

(* With backups enabled and the mail working for good, backups go out again *)
(* and again: also the first one ever, and after failures and crashes.      *)
BackupsRecur == <>[](enabled /\ mail) => []<>(delivered = 0)

(* With backups and alerts enabled and a webhook that takes alerts for      *)
(* good, whatever the mail does, the user hears of backups again and again: *)
(* by one that arrives or by an alert that one failed.  An alert the        *)
(* webhook refuses is lost: no one hears of a backup that fails then.       *)
NoSilentFailure == <>[](enabled /\ alertsOn /\ webhook) => []<>(sign = 0)
=============================================================================
