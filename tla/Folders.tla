------------------------------- MODULE Folders -------------------------------
(***************************************************************************)
(* The list of mailboxes in the database (internal/db/folders.go), which   *)
(* rules are written with: refreshed by every tick (syncFolders,           *)
(* internal/poller/poller.go), by the list of folders                      *)
(* (internal/web/api.go) and by the settings page while it is empty        *)
(* (internal/web/settings.go).  All list the mailboxes over the mail       *)
(* session they have locked, then replace the table in one transaction.    *)
(***************************************************************************)
EXTENDS Integers

CONSTANTS
    Tick,       \* the tick in progress
    Lists,      \* requests for the list of folders
    Pages,      \* requests for the settings page
    Names,      \* mailboxes other mail clients create and delete
    Source,     \* the source folder, one of them
    MaxChanges  \* bound: what the other clients do

ASSUME FoldersAssumption ==
    /\ Tick \notin Lists \cup Pages
    /\ Lists \cap Pages = {}
    /\ Source \in Names
    /\ MaxChanges \in Nat

VARIABLES
    mailboxes,  \* the mailboxes at the server
    version,    \* how often they have changed
    table,      \* the rows of folders
    shows,      \* the version of the mailboxes the table shows, -1: none
    current,    \* the poller's connection: 1 at startup, 2 after a reconnect
    locks,      \* the session each request has locked, 0: none
    step,       \* where each request is
    list        \* the mailboxes it has listed, with their version

folderVars == <<mailboxes, version, table, shows, current, locks, step, list>>

Syncers == {Tick} \cup Lists \cup Pages
NoList == [names |-> {}, version |-> -1]

(* The types of the variables. *)
FoldersTypeOK ==
    /\ mailboxes \subseteq Names /\ table \subseteq Names
    /\ version \in Nat /\ shows \in Nat \cup {-1}
    /\ current \in {1, 2}
    /\ locks \in [Syncers -> 0..2]
    /\ step \in [Syncers -> {"idle", "lock", "list", "sync", "ensure", "relist",
                             "resync"}]
    /\ list \in [Syncers -> [names : SUBSET Names, version : Nat \cup {-1}]]

FoldersInit ==
    /\ mailboxes \in SUBSET Names
    /\ version = 0
    /\ table = {} /\ shows = -1
    /\ current = 1
    /\ locks = [s \in Syncers |-> 0]
    /\ step = [s \in Syncers |-> "idle"]
    /\ list = [s \in Syncers |-> NoList]

(* The web handlers keep the connection of startup. *)
Session(s) == IF s = Tick THEN current ELSE 1

(* A reconnect closes that connection. *)
Works(s) == Session(s) = current

Moves(s, place) == step' = [step EXCEPT ![s] = place]

Done(s) ==
    /\ Moves(s, "idle")
    /\ locks' = [locks EXCEPT ![s] = 0]
    /\ list' = [list EXCEPT ![s] = NoList]

-----------------------------------------------------------------------------
(* A refresh. *)

(* The settings page looks at the table before it waits for the session.    *)
FindEmpty(p) ==
    /\ step[p] = "idle"
    /\ table = {}
    /\ Moves(p, "lock")
    /\ UNCHANGED <<mailboxes, version, table, shows, current, locks, list>>

(* A mistake FoldersNotStale rules out: mailboxes are listed without the    *)
(* session's lock.                                                          *)
BeginUnlocked(s) ==
    /\ step[s] = IF s \in Pages THEN "lock" ELSE "idle"
    /\ Moves(s, "list")
    /\ UNCHANGED <<mailboxes, version, table, shows, current, locks, list>>

Begin(s) ==
    /\ step[s] = IF s \in Pages THEN "lock" ELSE "idle"
    /\ \A r \in Syncers : locks[r] # Session(s)
    /\ locks' = [locks EXCEPT ![s] = Session(s)]
    /\ Moves(s, "list")
    /\ UNCHANGED <<mailboxes, version, table, shows, current, list>>

ListFolders(s) ==
    /\ Works(s)
    /\ \/ step[s] = "list" /\ Moves(s, "sync")
       \/ step[s] = "relist" /\ Moves(s, "resync")
    /\ list' = [list EXCEPT ![s] = [names |-> mailboxes, version |-> version]]
    /\ UNCHANGED <<mailboxes, version, table, shows, current, locks>>

(* An error leaves the table as it was. *)
ListFails(s) ==
    /\ step[s] \in {"list", "relist"}
    /\ Done(s)
    /\ UNCHANGED <<mailboxes, version, table, shows, current>>

(* The settings page goes on to ensureFolder; it does not see whether the   *)
(* list was stored.                                                         *)
Synced(s) ==
    IF s \in Pages /\ step[s] = "sync"
    THEN Moves(s, "ensure") /\ UNCHANGED <<locks, list>>
    ELSE Done(s)

(* A mistake FoldersConverge rules out: what was not listed stays.          *)
SyncAdds(s) ==
    /\ step[s] \in {"sync", "resync"}
    /\ table' = table \cup list[s].names
    /\ shows' = list[s].version
    /\ Synced(s)
    /\ UNCHANGED <<mailboxes, version, current>>

(* The transaction adds what was listed and deletes the rest. *)
Sync(s) ==
    /\ step[s] \in {"sync", "resync"}
    /\ table' = list[s].names
    /\ shows' = list[s].version
    /\ Synced(s)
    /\ UNCHANGED <<mailboxes, version, current>>

(* An error of the database rolls it back. *)
SyncFails(s) ==
    /\ step[s] \in {"sync", "resync"}
    /\ Synced(s)
    /\ UNCHANGED <<mailboxes, version, table, shows, current>>

(* ensureFolder: a source folder that is not listed is created, unless it   *)
(* is there by now, and the list read again; if that fails, nothing more is *)
(* done.                                                                    *)
EnsureFolder(s) ==
    /\ step[s] = "ensure"
    /\ \/ /\ Source \notin table
          /\ Works(s)
          /\ mailboxes' = mailboxes \cup {Source}
          /\ version' = IF Source \in mailboxes THEN version ELSE version + 1
          /\ Moves(s, "relist")
          /\ UNCHANGED <<locks, list>>
       \/ Done(s) /\ UNCHANGED <<mailboxes, version>>
    /\ UNCHANGED <<table, shows, current>>

-----------------------------------------------------------------------------
(* Around it. *)

(* Other mail clients create and delete mailboxes. *)
OthersChange ==
    /\ version < MaxChanges
    /\ mailboxes' \in SUBSET Names \ {mailboxes}
    /\ version' = version + 1
    /\ UNCHANGED <<table, shows, current, locks, step, list>>

(* The poller gets a new connection; the one the web handlers have is       *)
(* closed.                                                                  *)
Reconnected ==
    /\ current = 1
    /\ current' = 2
    /\ UNCHANGED <<mailboxes, version, table, shows, locks, step, list>>

(* A refresh that has begun goes on, one way or the other. *)
Refresh(s) ==
    \/ ListFolders(s) \/ ListFails(s)
    \/ Sync(s) \/ SyncFails(s)
    \/ EnsureFolder(s)

FoldersNext ==
    \/ \E s \in Syncers : Begin(s) \/ Refresh(s)
    \/ \E p \in Pages : FindEmpty(p)
    \/ OthersChange
    \/ Reconnected

(* Ticks follow on ticks, the server answers and the database stores now    *)
(* and then, what has locked a session ends.                                *)
FoldersFairness ==
    /\ SF_folderVars(Begin(Tick))
    /\ SF_folderVars(ListFolders(Tick))
    /\ SF_folderVars(Sync(Tick))
    /\ \A s \in Syncers : WF_folderVars(Refresh(s))

FoldersSpec == FoldersInit /\ [][FoldersNext]_folderVars /\ FoldersFairness

-----------------------------------------------------------------------------
(* Properties. *)

(* A refresh never puts back an older list than the one stored, because the *)
(* list is read and stored under the session's lock; a reconnect, which     *)
(* gives the poller another session, can end that.                          *)
FoldersNotStale == [][current = 1 => shows' >= shows]_folderVars

(* When the mailboxes no longer change, the table shows them and stays so,  *)
(* whatever refreshes fail, overlap or end late.                            *)
FoldersConverge == <>[](table = mailboxes)
=============================================================================
