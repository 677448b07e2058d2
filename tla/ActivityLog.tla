---------------------------- MODULE ActivityLog ----------------------------
(***************************************************************************)
(* The activity log (internal/db/log.go): a tick adds a row for every      *)
(* action, a startup keeps the newest, and users clear it or delete what   *)
(* they ticked on a page they loaded a while ago                           *)
(* (internal/web/activity.go).                                             *)
(***************************************************************************)
EXTENDS Integers, FiniteSets

CONSTANTS
    Users,      \* browsers with the activity page open
    Keep,       \* how many rows a startup keeps: log_keep, 1000
    MaxEntries  \* bound: rows ever added

ASSUME LogAssumption == Keep \in Nat \ {0} /\ MaxEntries \in Nat

VARIABLES
    rows,    \* the rows: their id, and what they tell of
    lastId,  \* the largest id ever given (AUTOINCREMENT)
    events,  \* how much there was to tell so far
    page     \* the rows each user's page shows

logVars == <<rows, lastId, events, page>>

Row == [id : 1..MaxEntries, event : 1..MaxEntries]

(* The types of the variables. *)
LogTypeOK ==
    /\ rows \subseteq Row
    /\ lastId \in 0..MaxEntries /\ events \in 0..MaxEntries
    /\ page \in [Users -> SUBSET Row]

LogInit ==
    /\ rows = {}
    /\ lastId = 0 /\ events = 0
    /\ page = [u \in Users |-> {}]

(* A mistake OnlyShownDeleted rules out: ids start again below the rows     *)
(* there are, as they do without AUTOINCREMENT.                             *)
InsertReusesIds ==
    /\ events < MaxEntries
    /\ events' = events + 1
    /\ lastId' = CHOOSE n \in 1..MaxEntries :
                     (\A r \in rows : r.id < n) /\ (n = 1 \/ \E r \in rows : r.id = n - 1)
    /\ rows' = rows \cup {[id |-> lastId', event |-> events']}
    /\ UNCHANGED page

Insert ==
    /\ events < MaxEntries
    /\ events' = events + 1
    /\ lastId' = lastId + 1
    /\ rows' = rows \cup {[id |-> lastId', event |-> events']}
    /\ UNCHANGED page

(* ListFiltered: any of the rows, by filter and page. *)
LoadPage(u) ==
    /\ \E shown \in SUBSET rows : page' = [page EXCEPT ![u] = shown]
    /\ UNCHANGED <<rows, lastId, events>>

(* DeleteByIDs with the ids ticked; the page may be out of date. *)
DeleteSelected(u) ==
    /\ \E ticked \in SUBSET page[u] :
          /\ ticked # {}
          /\ rows' = {r \in rows : \A t \in ticked : t.id # r.id}
    /\ UNCHANGED <<lastId, events, page>>

DeleteAll ==
    /\ rows' = {}
    /\ UNCHANGED <<lastId, events, page>>

Newer(r) == {q \in rows : q.id > r.id}

(* Cleanup at startup; the browsers keep their pages. *)
Cleanup ==
    /\ rows' = {r \in rows : Cardinality(Newer(r)) < Keep}
    /\ UNCHANGED <<lastId, events, page>>

LogNext ==
    \/ Insert
    \/ \E u \in Users : LoadPage(u) \/ DeleteSelected(u)
    \/ DeleteAll
    \/ Cleanup

LogSpec == LogInit /\ [][LogNext]_logVars

-----------------------------------------------------------------------------
(* Properties. *)

(* Unless the whole log is cleared, a row goes only when a user had it on   *)
(* the page, or when there are Keep newer ones: an id on a page from before *)
(* a clearing or a restart never deletes a row that came after it.          *)
OnlyShownDeleted ==
    [][rows' # {} =>
          \A r \in rows \ rows' :
             (\E u \in Users : r \in page[u]) \/ Cardinality(Newer(r)) >= Keep]_logVars
=============================================================================
