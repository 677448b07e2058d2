----------------------------- MODULE MCServices -----------------------------
(***************************************************************************)
(* Instances for TLC of the five components that share no state: in a      *)
(* behaviour one of them runs, and the others rest as they began.          *)
(***************************************************************************)
EXTENDS AutoReply, Backup, Folders, ActivityLog, Logins, TLC

VARIABLE running

allVars == <<running, replyVars, backupVars, folderVars, logVars, loginVars>>

Init ==
    /\ running \in {"replies", "backup", "folders", "log", "logins"}
    /\ ReplyInit /\ BackupInit /\ FoldersInit /\ LogInit /\ LoginsInit
    /\ running # "backup" =>
          /\ ~enabled /\ ~alertsOn /\ ~mail /\ ~webhook
          /\ frequency = CHOOSE f \in Frequencies : TRUE
    /\ running # "folders" => mailboxes = {}
    /\ running # "logins" => password = CHOOSE p \in Passwords : TRUE

InReplies(A) ==
    /\ running = "replies" /\ A
    /\ UNCHANGED <<running, backupVars, folderVars, logVars, loginVars>>
InBackup(A) ==
    /\ running = "backup" /\ A
    /\ UNCHANGED <<running, replyVars, folderVars, logVars, loginVars>>
InFolders(A) ==
    /\ running = "folders" /\ A
    /\ UNCHANGED <<running, replyVars, backupVars, logVars, loginVars>>
InLog(A) ==
    /\ running = "log" /\ A
    /\ UNCHANGED <<running, replyVars, backupVars, folderVars, loginVars>>
InLogins(A) ==
    /\ running = "logins" /\ A
    /\ UNCHANGED <<running, replyVars, backupVars, folderVars, logVars>>

Next ==
    \/ InReplies(ReplyNext)
    \/ InBackup(BackupNext)
    \/ InFolders(FoldersNext)
    \/ InLog(LogNext)
    \/ InLogins(LoginsNext)

(* BackupFairness and FoldersFairness, while the component runs. *)
Fairness ==
    /\ WF_allVars(InBackup(LoopStep))
    /\ \A r \in Requests : WF_allVars(InBackup(StampBackup(r)))
    /\ WF_allVars(InBackup(TimePasses))
    /\ WF_allVars(InBackup(DeliverAlert \/ AlertFails))
    /\ SF_allVars(InFolders(Begin(Tick)))
    /\ SF_allVars(InFolders(ListFolders(Tick)))
    /\ SF_allVars(InFolders(Sync(Tick)))
    /\ \A s \in Syncers : WF_allVars(InFolders(Refresh(s)))

Spec == Init /\ [][Next]_allVars /\ Fairness

(* The types of all components' variables. *)
TypeOK == ReplyTypeOK /\ BackupTypeOK /\ FoldersTypeOK /\ LogTypeOK /\ LoginsTypeOK

(* Every day is a period of backups, and three make a month. *)
PeriodOf(f) == CASE f = "daily" -> 1 [] f = "weekly" -> 2 [] OTHER -> 3

(* All browsers share an address. *)
SharedAddress(b) == CHOOSE a \in Addresses : TRUE
=============================================================================
