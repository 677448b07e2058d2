---------------------------- MODULE MailSession -----------------------------
(***************************************************************************)
(* The IMAP sessions and the operations that share them.  A session has a  *)
(* selected mailbox and a lock; every UID command acts on whatever mailbox *)
(* is selected.  The operations are the poller's tick (runTick), bulk      *)
(* apply (ApplyToFolder), both with executeActions, the rule test, and the *)
(* contact seeding of MCP and of the dashboard, which takes no lock; a     *)
(* reconnect may replace the poller's session at any time.                 *)
(*                                                                         *)
(* A step is one IMAP command or one access to shared state.  The server   *)
(* (mailboxes, UIDs, selection) is external and follows RFC 3501: UIDs of  *)
(* a mailbox only grow, and the range n:* always includes the last message.*)
(***************************************************************************)
EXTENDS Naturals, Sequences, FiniteSets

CONSTANTS
    Messages, Folders,
    Source,     \* the folder the poller watches
    Trash,      \* what getTrashFolder finds
    Nowhere,    \* not in any folder, and: no folder selected
    Sessions,   \* every session the program ever opens
    Startup,    \* the session main connects, kept by the web and MCP handlers
    NoSession,
    Ticker,     \* the actor of the one tick that p.processing admits
    Applies,    \* bulk apply jobs
    Testers,    \* rule tests: startup session, locked
    MCPSeeders, \* contact seedings of MCP: startup session, locked
    WebSeeders, \* contact seedings of the dashboard: startup session, no lock
    Nobody,     \* an unlocked session's owner
    NoMessage,
    Outcomes,   \* what Match may yield for a message: an error, no match, or
                \* a match with the rule's actions
    BatchSizes, \* what the tick's limit may be, read at startup
    ApplyLimit, \* the apply job's limit
    MaxUID,     \* bound: a folder that has handed out this UID is full
    UIDPlus,    \* TRUE in it: MOVE may report the message's new UID; FALSE: may not
    HidesSeen,  \* TRUE in it: SEARCH may pass over \Seen mail, as poller_test.go
                \* says iCloud does; RFC 3501 has it return every message
    Fails       \* TRUE in it: any IMAP command may fail

Processors == {Ticker} \cup Applies
Seeders == MCPSeeders \cup WebSeeders
Actors == Processors \cup Testers \cup Seeders

(* set_flag and remove_flag of \Seen are mark_as_read and mark_as_unread;   *)
(* other flags, auto_reply and webhook are "effect".                        *)
ActionTypes == {"move_to_folder", "delete", "mark_as_read", "mark_as_unread",
                "forward", "effect"}
Actions == [type : ActionTypes, dest : Folders]

ASSUME MailAssumption ==
    /\ IsFiniteSet(Messages)
    /\ Source \in Folders /\ Trash \in Folders /\ Nowhere \notin Folders
    /\ Startup \in Sessions /\ NoSession \notin Sessions
    /\ Nobody \notin Actors /\ NoMessage \notin Messages
    /\ Ticker \notin Applies \cup Testers \cup Seeders
    /\ Applies \cap (Testers \cup Seeders) = {}
    /\ WebSeeders \cap (Testers \cup MCPSeeders) = {}
    /\ Outcomes \subseteq [err : BOOLEAN, match : BOOLEAN, acts : Seq(Actions)]
    /\ BatchSizes \subseteq Nat \ {0} /\ ApplyLimit \in Nat \ {0}
    /\ MaxUID \in Nat
    /\ UIDPlus \subseteq BOOLEAN /\ HidesSeen \subseteq BOOLEAN /\ Fails \subseteq BOOLEAN

VARIABLES
    loc, uid, seen,  \* of each message: folder, UID there, \Seen
    uidNext,         \* of each folder
    sel,             \* of each session: the selected mailbox
    owner,           \* of each session: who holds its lock
    cur,             \* the poller's session, p.imapClient
    retired,         \* sessions replaced by a reconnect, not yet closed
    closed,          \* sessions the program has closed
    op,              \* of each actor: its local variables
    outcome,         \* of each message: what the rules make of it
    batch,           \* p.batchSize
    hides, fails,    \* whether SEARCH hides \Seen mail, commands may fail
    strays,          \* messages an operation fetched or changed by mistake
    runs             \* of each message: how often ticks ran its actions

mail == <<loc, uid, seen, uidNext>>
sessions == <<sel, owner, cur, retired, closed>>
given == <<outcome, batch, hides, fails>>
ghosts == <<strays, runs>>
vars == <<mail, sessions, op, given, ghosts>>

(* The local variables of runTick, ApplyToFolder, executeActions, the rule  *)
(* test and the seeding; found is the message the last search found, msg    *)
(* the one the fetch returned, left and todo what a seeding has still to do.*)
Idle == [pc |-> "idle", sess |-> NoSession, exec |-> NoSession, folder |-> Source,
         floor |-> 0, count |-> 0, skip |-> {}, hit |-> 0, eff |-> 0,
         found |-> NoMessage, msg |-> NoMessage, acts |-> <<>>, moved |-> FALSE,
         left |-> {}, todo |-> {}]

Labels == {"idle", "lock", "search", "fetch", "exec", "act", "select", "seen",
           "folders", "collect", "unlock"}

Ops == [pc : Labels, sess : Sessions \cup {NoSession}, exec : Sessions \cup {NoSession},
        folder : Folders, floor : Nat, count : Nat, skip : SUBSET Nat, hit : Nat,
        eff : Nat, found : Messages \cup {NoMessage}, msg : Messages \cup {NoMessage},
        acts : Seq(Actions), moved : BOOLEAN, left : SUBSET Folders,
        todo : SUBSET [m : Messages, uid : Nat]]

TypeOK ==
    /\ loc \in [Messages -> Folders \cup {Nowhere}]
    /\ uid \in [Messages -> Nat]
    /\ seen \in [Messages -> BOOLEAN]
    /\ uidNext \in [Folders -> Nat \ {0}]
    /\ sel \in [Sessions -> Folders \cup {Nowhere}]
    /\ owner \in [Sessions -> Actors \cup {Nobody}]
    /\ cur \in Sessions
    /\ retired \subseteq Sessions /\ closed \subseteq Sessions
    /\ op \in [Actors -> Ops]
    /\ outcome \in [Messages -> Outcomes]
    /\ batch \in BatchSizes
    /\ hides \in BOOLEAN /\ fails \in BOOLEAN
    /\ strays \subseteq Messages
    /\ runs \in [Messages -> 0..2]

Init ==
    /\ loc \in [Messages -> {Source, Nowhere}]
    /\ \E n \in [Messages -> 0..Cardinality(Messages)] :
        /\ \A m \in Messages : n[m] = 0 <=> loc[m] = Nowhere
        /\ \A m \in Messages : n[m] <= Cardinality({k \in Messages : loc[k] = Source})
        /\ \A k, m \in Messages : n[k] = n[m] /\ n[m] # 0 => k = m
        /\ uid = n
    /\ seen = [m \in Messages |-> FALSE]
    /\ uidNext = [f \in Folders |->
                    IF f = Source THEN 1 + Cardinality({m \in Messages : loc[m] = Source})
                    ELSE 1]
    /\ sel = [s \in Sessions |-> Nowhere]
    /\ owner = [s \in Sessions |-> Nobody]
    /\ cur = Startup
    /\ retired = {} /\ closed = {}
    /\ op = [a \in Actors |-> Idle]
    /\ outcome \in [Messages -> Outcomes]
    /\ batch \in BatchSizes
    /\ hides \in HidesSeen /\ fails \in Fails
    /\ strays = {}
    /\ runs = [m \in Messages |-> 0]

-----------------------------------------------------------------------------
(* IMAP commands. *)

(* The messages a UID command for u acts on in session s. *)
At(s, u) == {m \in Messages : loc[m] = sel[s] /\ uid[m] = u}

(* A command on s can reach the server, with a mailbox to act on. *)
Ready(s) == s \in Sessions \ closed /\ sel[s] # Nowhere

MayFail(s) == fails \/ ~Ready(s)

(* What UID SEARCH for a whole mailbox returns. *)
Found(f) == {m \in Messages : loc[m] = f /\ ~(hides /\ seen[m])}

(* UID SEARCH floor:* (the whole mailbox for floor 0), cut to the first     *)
(* result: the lowest UID from floor on, else the last message.             *)
SearchResult(f, floor) ==
    LET found == Found(f)
    IN  {m \in found :
            \/ /\ uid[m] >= floor
               /\ \A k \in found : uid[k] >= floor => uid[m] <= uid[k]
            \/ \A k \in found : uid[k] < floor /\ uid[k] <= uid[m]}

Full(f) == uidNext[f] > MaxUID

(* Message m is put in folder f under f's next UID. *)
Put(m, f) ==
    /\ ~Full(f)
    /\ loc' = [loc EXCEPT ![m] = f]
    /\ uid' = [uid EXCEPT ![m] = uidNext[f]]
    /\ uidNext' = [uidNext EXCEPT ![f] = @ + 1]

-----------------------------------------------------------------------------
(* Starting, locking and unlocking. *)

Begin(a, o) ==
    /\ op[a].pc = "idle"
    /\ op' = [op EXCEPT ![a] = o]
    /\ UNCHANGED <<mail, sessions, given, ghosts>>

(* client := p.client() in runTick and ApplyToFolder; the handlers use the  *)
(* client they were given at startup.                                       *)
BeginTick == Begin(Ticker, [Idle EXCEPT !.pc = "lock", !.sess = cur])

BeginApply(a) ==
    \E f \in Folders : Begin(a, [Idle EXCEPT !.pc = "lock", !.sess = cur, !.folder = f])

BeginTest(a) ==
    \E f \in Folders : Begin(a, [Idle EXCEPT !.pc = "lock", !.sess = Startup, !.folder = f])

(* Seeding goes through all folders.  The MCP tool locks the session first, *)
(* seedContactsHandler does not.                                            *)
BeginSeed(a) ==
    Begin(a, [Idle EXCEPT !.pc = IF a \in MCPSeeders THEN "lock" ELSE "folders",
                          !.sess = Startup, !.left = Folders])

(* A mistake LockHeld rules out: no wait for the lock, as LockSession does  *)
(* for a client without one.                                                *)
LockSessionUnguarded(a) ==
    /\ op[a].pc = "lock"
    /\ owner' = [owner EXCEPT ![op[a].sess] = a]
    /\ op' = [op EXCEPT ![a].pc = IF op[a].left # {} THEN "folders" ELSE "search"]
    /\ UNCHANGED <<mail, sel, cur, retired, closed, given, ghosts>>

LockSession(a) ==
    /\ op[a].pc = "lock"
    /\ owner[op[a].sess] = Nobody
    /\ owner' = [owner EXCEPT ![op[a].sess] = a]
    /\ op' = [op EXCEPT ![a].pc = IF op[a].left # {} THEN "folders" ELSE "search"]
    /\ UNCHANGED <<mail, sel, cur, retired, closed, given, ghosts>>

(* The deferred unlock. *)
UnlockSession(a) ==
    /\ op[a].pc = "unlock"
    /\ owner' = [s \in Sessions |-> IF owner[s] = a THEN Nobody ELSE owner[s]]
    /\ op' = [op EXCEPT ![a] = Idle]
    /\ UNCHANGED <<mail, sel, cur, retired, closed, given, ghosts>>

-----------------------------------------------------------------------------
(* One round of the loops in runTick and ApplyToFolder: search, fetch, match. *)

Limit(a) == CASE a = Ticker -> batch [] a \in Applies -> ApplyLimit [] OTHER -> 1

(* Mistakes TickEnds and TypeOK rule out: a round that is not counted, or   *)
(* counted down.                                                            *)
RoundOverUncounted(a, counts) ==
    [op[a] EXCEPT !.pc = "search", !.found = NoMessage, !.msg = NoMessage,
                  !.exec = NoSession, !.acts = <<>>, !.moved = FALSE]

RoundOverCountsDown(a, counts) ==
    [op[a] EXCEPT !.pc = "search", !.found = NoMessage, !.msg = NoMessage,
                  !.exec = NoSession, !.acts = <<>>, !.moved = FALSE,
                  !.count = IF counts THEN @ - 1 ELSE @]

(* The round is over: the tick counts every round, apply only those that    *)
(* fetched a message and matched it without an error.                       *)
RoundOver(a, counts) ==
    [op[a] EXCEPT !.pc = "search", !.found = NoMessage, !.msg = NoMessage,
                  !.exec = NoSession, !.acts = <<>>, !.moved = FALSE,
                  !.count = IF counts THEN @ + 1 ELSE @]

LimitReached(a) ==
    /\ op[a].pc = "search"
    /\ op[a].count >= Limit(a)
    /\ op' = [op EXCEPT ![a].pc = "unlock"]
    /\ UNCHANGED <<mail, sessions, given, ghosts>>

(* SELECT failed, which leaves no mailbox selected, or UID SEARCH did.      *)
SearchFails(a) ==
    /\ op[a].pc = "search" /\ op[a].count < Limit(a)
    /\ fails \/ op[a].sess \in closed
    /\ IF op[a].sess \in closed THEN UNCHANGED sel
       ELSE \E f \in {op[a].folder, Nowhere} : sel' = [sel EXCEPT ![op[a].sess] = f]
    /\ op' = [op EXCEPT ![a].pc = "unlock"]
    /\ UNCHANGED <<mail, owner, cur, retired, closed, given, ghosts>>

(* A mistake SourceDrains rules out: the floor stays at 0, so an unmatched  *)
(* message hides the ones behind it.                                        *)
SearchMessagesFromStart(a) ==
    LET o == op[a]
        result == SearchResult(o.folder, 0)
    IN  /\ o.pc = "search" /\ o.count < Limit(a)
        /\ o.sess \notin closed
        /\ sel' = [sel EXCEPT ![o.sess] = o.folder]
        /\ \/ /\ result = {}
              /\ op' = [op EXCEPT ![a].pc = "unlock"]
           \/ \E m \in result :
                op' = [op EXCEPT ![a] =
                        IF uid[m] \in o.skip THEN RoundOver(a, TRUE)
                        ELSE [o EXCEPT !.pc = "fetch", !.hit = uid[m], !.found = m]]
        /\ UNCHANGED <<mail, owner, cur, retired, closed, given, ghosts>>

(* The next search starts behind m; runTick never lets the floor sink.      *)
Finds(a, m) ==
    [op[a] EXCEPT !.pc = "fetch", !.hit = uid[m], !.found = m,
                  !.floor = IF a = Ticker /\ @ > uid[m] THEN @ ELSE uid[m] + 1]

(* SELECT the folder, then UID SEARCH.  A UID the tick has skipped already   *)
(* ends its round.                                                          *)
SearchMessages(a) ==
    LET o == op[a]
        result == SearchResult(o.folder, o.floor)
    IN  /\ o.pc = "search" /\ o.count < Limit(a)
        /\ o.sess \notin closed
        /\ sel' = [sel EXCEPT ![o.sess] = o.folder]
        /\ \/ /\ result = {}
              /\ op' = [op EXCEPT ![a].pc = "unlock"]
           \/ \E m \in result :
                op' = [op EXCEPT ![a] =
                        IF uid[m] \in o.skip THEN RoundOver(a, TRUE) ELSE Finds(a, m)]
        /\ UNCHANGED <<mail, owner, cur, retired, closed, given, ghosts>>

FetchFails(a) ==
    /\ op[a].pc = "fetch"
    /\ MayFail(op[a].sess) \/ At(op[a].sess, op[a].hit) = {}
    /\ op' = [op EXCEPT ![a] = RoundOver(a, a \notin Applies)]
    /\ UNCHANGED <<mail, sessions, given, ghosts>>

(* FetchMessage and Match on what it returned.  A rule test only reads.     *)
FetchMessage(a) ==
    /\ op[a].pc = "fetch"
    /\ Ready(op[a].sess)
    /\ \E m \in At(op[a].sess, op[a].hit) :
        /\ strays' = strays \cup ({m} \ {op[a].found})
        /\ op' = [op EXCEPT ![a] =
             IF a \notin Processors THEN RoundOver(a, TRUE)
             ELSE IF outcome[m].err THEN RoundOver(a, a = Ticker)
             ELSE IF outcome[m].match
                  THEN [@ EXCEPT !.pc = "exec", !.msg = m, !.acts = outcome[m].acts]
             ELSE [RoundOver(a, TRUE) EXCEPT
                      !.skip = IF a = Ticker THEN @ \cup {op[a].hit} ELSE @]]
    /\ UNCHANGED <<mail, sessions, given, runs>>

-----------------------------------------------------------------------------
(* executeActions. *)

(* client := p.client(), a second time. *)
ExecuteActions(a) ==
    /\ op[a].pc = "exec"
    /\ op' = [op EXCEPT ![a] = [@ EXCEPT !.pc = "act", !.exec = cur, !.eff = op[a].hit]]
    /\ runs' = [runs EXCEPT ![op[a].msg] = IF a = Ticker /\ @ < 2 THEN @ + 1 ELSE @]
    /\ UNCHANGED <<mail, sessions, given, strays>>

Action(a) == Head(op[a].acts)

HasAction(a, types) ==
    /\ op[a].pc = "act"
    /\ op[a].acts # <<>>
    /\ Action(a).type \in types

NextAction(a) == op' = [op EXCEPT ![a].acts = Tail(@)]

MoveDest(a) == IF Action(a).type = "delete" THEN Trash ELSE Action(a).dest

(* Commands that fail are logged and the next action is tried; webhooks and *)
(* replies change no mailbox.                                               *)
ActionSkipped(a) ==
    /\ \/ HasAction(a, ActionTypes) /\ MayFail(op[a].exec)
       \/ HasAction(a, {"move_to_folder", "delete"}) /\ Full(MoveDest(a))
       \/ HasAction(a, {"effect"})
    /\ NextAction(a)
    /\ UNCHANGED <<mail, sessions, given, ghosts>>

(* MOVE.  Without a destination UID (the server has no UIDPLUS, or the      *)
(* message was gone) the remaining actions are dropped.                     *)
MoveMessage(a) ==
    LET hits == At(op[a].exec, op[a].eff)
    IN  /\ HasAction(a, {"move_to_folder", "delete"})
        /\ Ready(op[a].exec)
        /\ \/ /\ hits = {}
              /\ op' = [op EXCEPT ![a].acts = <<>>]
              /\ UNCHANGED <<mail, strays>>
           \/ \E m \in hits, reported \in UIDPlus :
                /\ Put(m, MoveDest(a))
                /\ strays' = strays \cup ({m} \ {op[a].found})
                /\ op' = [op EXCEPT ![a] =
                            IF reported THEN [@ EXCEPT !.pc = "select", !.moved = TRUE,
                                                      !.eff = uidNext[MoveDest(a)]]
                            ELSE [@ EXCEPT !.acts = <<>>]]
                /\ UNCHANGED seen
        /\ UNCHANGED <<sessions, given, runs>>

(* A mistake NoStrays rules out: the destination is not selected.           *)
SelectMailboxOmitted(a) ==
    /\ op[a].pc = "select"
    /\ op' = [op EXCEPT ![a] = [@ EXCEPT !.pc = "act", !.acts = Tail(op[a].acts)]]
    /\ UNCHANGED <<mail, sessions, given, ghosts>>

(* SelectMailbox(dest), its error ignored; a failed SELECT leaves no        *)
(* mailbox selected.                                                        *)
SelectMailbox(a) ==
    LET s == op[a].exec
    IN  /\ op[a].pc = "select"
        /\ \/ s \notin closed /\ sel' = [sel EXCEPT ![s] = MoveDest(a)]
           \/ fails /\ s \notin closed /\ sel' = [sel EXCEPT ![s] = Nowhere]
           \/ s \in closed /\ UNCHANGED sel
        /\ op' = [op EXCEPT ![a] = [@ EXCEPT !.pc = "act", !.acts = Tail(op[a].acts)]]
        /\ UNCHANGED <<mail, owner, cur, retired, closed, given, ghosts>>

(* STORE; naming a UID that is gone is no error. *)
StoreSeen(a, s, u, value) ==
    /\ Ready(s)
    /\ seen' = [m \in Messages |-> IF m \in At(s, u) THEN value ELSE seen[m]]
    /\ strays' = strays \cup (At(s, u) \ {op[a].found})
    /\ UNCHANGED <<loc, uid, uidNext, sessions, given, runs>>

(* A forward fetches BODY[], not BODY.PEEK[], which sets \Seen as well.     *)
MarkAs(a) ==
    /\ HasAction(a, {"mark_as_read", "mark_as_unread", "forward"})
    /\ StoreSeen(a, op[a].exec, op[a].eff, Action(a).type # "mark_as_unread")
    /\ NextAction(a)

ActionsDone(a) ==
    /\ op[a].pc = "act" /\ op[a].acts = <<>>
    /\ op' = [op EXCEPT ![a] = IF op[a].moved THEN RoundOver(a, TRUE)
                               ELSE [@ EXCEPT !.pc = "seen"]]
    /\ UNCHANGED <<mail, sessions, given, ghosts>>

(* A mistake ActedOnce rules out: the message is left unseen.               *)
MarkHandledOmitted(a) ==
    /\ op[a].pc = "seen"
    /\ op' = [op EXCEPT ![a] = RoundOver(a, TRUE)]
    /\ UNCHANGED <<mail, sessions, given, ghosts>>

(* SetFlags \Seen on a matched message that was not moved; on the client    *)
(* the loop started with.                                                   *)
MarkHandled(a) ==
    /\ op[a].pc = "seen"
    /\ \/ StoreSeen(a, op[a].sess, op[a].hit, TRUE)
       \/ /\ MayFail(op[a].sess)
          /\ UNCHANGED <<mail, sessions, given, ghosts>>
    /\ op' = [op EXCEPT ![a] = RoundOver(a, TRUE)]

-----------------------------------------------------------------------------
(* SeedFromFolder, for one folder after the other; errors are passed over.  *)

SeedFolder(a) ==
    /\ op[a].pc = "folders"
    /\ op[a].sess \notin closed
    /\ \E f \in op[a].left :
        /\ sel' = [sel EXCEPT ![op[a].sess] = f]
        /\ op' = [op EXCEPT ![a] = [@ EXCEPT !.pc = "collect",
                                     !.left = op[a].left \ {f},
                                     !.todo = {[m |-> m, uid |-> uid[m]] : m \in Found(f)}]]
    /\ UNCHANGED <<mail, owner, cur, retired, closed, given, ghosts>>

SeedFolderFails(a) ==
    /\ op[a].pc = "folders"
    /\ fails \/ op[a].sess \in closed
    /\ \E f \in op[a].left :
        /\ IF op[a].sess \in closed THEN UNCHANGED sel
           ELSE \E g \in {f, Nowhere} : sel' = [sel EXCEPT ![op[a].sess] = g]
        /\ op' = [op EXCEPT ![a].left = @ \ {f}]
    /\ UNCHANGED <<mail, owner, cur, retired, closed, given, ghosts>>

(* FetchMessage and CollectFromMessage, newest first. *)
SeedFetch(a) ==
    /\ op[a].pc = "collect"
    /\ \E t \in op[a].todo :
        /\ \A k \in op[a].todo : k.uid <= t.uid
        /\ op' = [op EXCEPT ![a].todo = @ \ {t}]
        /\ \/ Ready(op[a].sess) /\ strays' = strays \cup (At(op[a].sess, t.uid) \ {t.m})
           \/ MayFail(op[a].sess) /\ UNCHANGED strays
    /\ UNCHANGED <<mail, sessions, given, runs>>

SeedNext(a) ==
    /\ \/ op[a].pc = "collect" /\ op[a].todo = {} /\ op' = [op EXCEPT ![a].pc = "folders"]
       \/ op[a].pc = "folders" /\ op[a].left = {} /\ op' = [op EXCEPT ![a].pc = "unlock"]
    /\ UNCHANGED <<mail, sessions, given, ghosts>>

-----------------------------------------------------------------------------
(* reconnect: setClient(new), then closeClient(old) without the lock. *)
Swap ==
    /\ \E s \in Sessions \ (closed \cup retired \cup {cur}) : cur' = s
    /\ retired' = retired \cup {cur}
    /\ UNCHANGED <<mail, sel, owner, closed, op, given, ghosts>>

CloseRetired ==
    /\ retired # {}
    /\ closed' = closed \cup retired
    /\ retired' = {}
    /\ UNCHANGED <<mail, sel, owner, cur, op, given, ghosts>>

(* Mail arrives in the source folder; another mail client takes one out.    *)
Deliver(m) ==
    /\ uid[m] = 0
    /\ Put(m, Source)
    /\ UNCHANGED <<seen, sessions, op, given, ghosts>>

UserRemoves(m) ==
    /\ loc[m] # Nowhere
    /\ loc' = [loc EXCEPT ![m] = Nowhere]
    /\ UNCHANGED <<uid, seen, uidNext, sessions, op, given, ghosts>>

-----------------------------------------------------------------------------
Round(a) ==
    \/ LimitReached(a) \/ SearchFails(a) \/ SearchMessages(a)
    \/ FetchFails(a) \/ FetchMessage(a)

Execute(a) ==
    \/ ExecuteActions(a) \/ ActionSkipped(a) \/ MoveMessage(a) \/ SelectMailbox(a)
    \/ MarkAs(a) \/ ActionsDone(a) \/ MarkHandled(a)

Seed(a) == SeedFolder(a) \/ SeedFolderFails(a) \/ SeedFetch(a) \/ SeedNext(a)

Step(a) == LockSession(a) \/ UnlockSession(a) \/ Round(a)

Environment == \E m \in Messages : Deliver(m) \/ UserRemoves(m)

Next ==
    \/ BeginTick
    \/ \E a \in Applies : BeginApply(a)
    \/ \E a \in Testers : BeginTest(a)
    \/ \E a \in Seeders : BeginSeed(a)
    \/ \E a \in Actors : Step(a)
    \/ \E a \in Processors : Execute(a)
    \/ \E a \in Seeders : Seed(a)
    \/ Swap \/ CloseRetired
    \/ Environment

Spec == Init /\ [][Next]_vars

(* Every goroutine keeps running and the ticker keeps firing. *)
FairSpec ==
    /\ Spec
    /\ WF_vars(BeginTick)
    /\ \A a \in Actors : WF_vars(Step(a)) /\ SF_vars(LockSession(a))
    /\ \A a \in Processors : WF_vars(Execute(a))
    /\ \A a \in Seeders : WF_vars(Seed(a))

-----------------------------------------------------------------------------
Locked(a) == a \notin WebSeeders /\ op[a].pc \notin {"idle", "lock"}

(* An operation past LockSession owns the session it locked until its       *)
(* deferred unlock; as a session has one owner, two operations never share  *)
(* the session they locked.                                                 *)
LockHeld == \A a \in Actors : Locked(a) => owner[op[a].sess] = a

(* imap.Client: "callers must hold the lock for a complete operation".      *)
(* Every message an operation fetches or changes is the one its own search  *)
(* found: nobody changes the selected mailbox in between.                   *)
NoStrays == strays = {}

MovesOut(m) ==
    /\ outcome[m].match /\ ~outcome[m].err
    /\ \E i \in DOMAIN outcome[m].acts :
        outcome[m].acts[i].type = "delete" \/
        (outcome[m].acts[i].type = "move_to_folder" /\ outcome[m].acts[i].dest # Source)

(* CHANGELOG: a matched message that stays "is now marked \Seen so it isn't *)
(* re-processed ... on every poll".  When no command fails, ticks run the   *)
(* actions of a message once in its life: if its rule moves it elsewhere,   *)
(* reported UID or not and although n:* finds the last message again and    *)
(* again, and if it stays but SEARCH passes over what is \Seen.             *)
ActedOnce ==
    ~fails /\ cur = Startup =>
        \A m \in Messages : MovesOut(m) \/ hides => runs[m] <= 1

(* A tick always ends, whatever fails: every round counts against batchSize. *)
TickEnds == op[Ticker].pc # "idle" ~> op[Ticker].pc = "idle"

(* Messages that every tick finds before m and that no tick makes go away:  *)
(* no rule matches them or matching them fails, or their rule leaves them   *)
(* in the source folder and SEARCH returns them although they are \Seen.    *)
InTheWay(m) ==
    {k \in Found(Source) :
        /\ uid[k] < uid[m]
        /\ ~MovesOut(k)
        /\ hides => outcome[k].err \/ ~outcome[k].match}

(* Mail that a rule moves out leaves the source folder, if less than a      *)
(* batch of messages is in its way: behind a whole batch of them it is      *)
(* never found.  This is about mail on one connection: after a reconnect in *)
(* the middle of a tick the actions run on a session with nothing selected, *)
(* the message is marked \Seen all the same, and a search that hides \Seen  *)
(* mail never finds it again.                                               *)
SourceDrains ==
    \A m \in Messages :
        (/\ loc[m] = Source /\ MovesOut(m) /\ ~fails
         /\ Cardinality(InTheWay(m)) < batch)
            ~> (loc[m] # Source \/ (hides /\ seen[m] /\ cur # Startup))

(* README: "Each message is checked against your rules".  If a batch holds  *)
(* all the mail there is, an unseen message in the source folder is found   *)
(* by a tick or leaves, whatever stays in front of it.                      *)
EveryMessageChecked ==
    Cardinality(Messages) <= batch =>
        \A m \in Messages :
            (loc[m] = Source /\ ~seen[m] /\ ~fails)
                ~> (loc[m] # Source \/ op[Ticker].found = m)

(* CHANGELOG: the apply limit is there "to prevent unbounded IMAP           *)
(* processing": an apply job ends and releases the session.                 *)
ApplyEnds == \A a \in Applies : op[a].pc # "idle" ~> op[a].pc = "idle"
=============================================================================
