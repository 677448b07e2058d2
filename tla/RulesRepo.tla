------------------------------ MODULE RulesRepo -----------------------------
(***************************************************************************)
(* The rule store (internal/db/rules.go) and the requests that write and   *)
(* read it: the rule forms of the web interface, the MCP tools, imports,   *)
(* and the ticks that list the rules.  A write is one SQLite transaction   *)
(* and one step; a handler that reads, writes and then repairs the         *)
(* catch-all rule takes several, with other requests in between.  A read   *)
(* of a whole rule is four queries outside any transaction.                *)
(*                                                                         *)
(* A rule has at most one condition group here, with conditions that are   *)
(* there or not; of its actions only the kinds count.                      *)
(***************************************************************************)
EXTENDS Naturals, Sequences, FiniteSets, FiniteSetsExt

CONSTANTS
    Web,        \* requests of the rule forms: create, edit, delete, reorder
    Mcp,        \* create_rule, update_rule and delete_rule of MCP
    Enablers,   \* enable_rule and disable_rule of MCP
    Importers,  \* imports, from either side
    Ticks,      \* readers of the whole list
    Names,      \* names for user rules
    CatchAll,   \* the name _catch_all
    Forms(_),   \* what the requests in a set may submit for a rule
    MaxId,      \* bound: rules ever created
    MaxGid,     \* bound: condition groups ever created
    Setups      \* the sets of requests to run it with

Requests == Web \cup Mcp \cup Enablers \cup Importers \cup Ticks
Ids == 1..MaxId
Blank == 0                             \* an empty priority field
Operators == {"none", "AND", "OR"}     \* "none": a rule without groups
ActionKinds == {"move_to_folder", "other"}
Form == [name : Names \cup {CatchAll}, pri : Nat, enabled : BOOLEAN,
         op : Operators, acts : SUBSET ActionKinds]

ASSUME RulesAssumption ==
    /\ MaxId \in Nat \ {0} /\ MaxGid \in Nat
    /\ CatchAll \notin Names
    /\ Setups \subseteq SUBSET Requests
    /\ (Web \cup Ticks) \cap (Mcp \cup Enablers \cup Importers) = {}
    /\ \A C \in SUBSET Requests : Forms(C) \subseteq Form

VARIABLES
    live,     \* rows of table rules
    ruleRows, \* of each live row: name, priority, enabled
    groups,   \* rows of condition_groups
    conds,    \* groups that have rows in conditions
    acts,     \* of each rule: its rows in actions
    nextId, nextGid,  \* AUTOINCREMENT
    clients,  \* the requests there are
    req       \* of each request: its local variables

tables == <<live, ruleRows, groups, conds, acts, nextId, nextGid>>
storeVars == <<tables, clients, req>>

NoRow == [name |-> CatchAll, pri |-> 0, enabled |-> FALSE]
NoForm == [name |-> CatchAll, pri |-> 0, enabled |-> FALSE, op |-> "none", acts |-> {}]

(* form is what will be written and given the parts of it that the request  *)
(* brought; order is what will be reordered, file what is left to import    *)
(* and taken the names in its way; ids, groups and conds are what a read    *)
(* has seen so far.                                                         *)
Idle == [pc |-> "idle", id |-> 0, form |-> NoForm, given |-> {}, order |-> <<>>,
         file |-> <<>>, taken |-> {}, ids |-> {}, groups |-> {}, conds |-> {}]

Parts == {"conditions", "actions"}

Labels == {"idle", "create", "update", "ensure", "delete", "reorder", "import",
           "readGroups", "readConds", "readActs", "listed"}

StoreTypeOK ==
    /\ live \subseteq Ids
    /\ ruleRows \in [Ids -> [name : Names \cup {CatchAll}, pri : Nat, enabled : BOOLEAN]]
    /\ groups \subseteq [gid : 1..MaxGid, rule : Ids, op : {"AND", "OR"}]
    /\ conds \subseteq 1..MaxGid
    /\ acts \in [Ids -> SUBSET ActionKinds]
    /\ nextId \in 1..(MaxId + 1) /\ nextGid \in 1..(MaxGid + 1)
    /\ clients \subseteq Requests
    /\ \A q \in Requests : req[q].pc \in Labels

(* A fresh database after the first start: EnsureCatchAll has made the rule. *)
StoreInit ==
    /\ live = {1}
    /\ ruleRows = [i \in Ids |->
                       IF i = 1 THEN [name |-> CatchAll, pri |-> 999, enabled |-> TRUE]
                       ELSE NoRow]
    /\ groups = {} /\ conds = {}
    /\ acts = [i \in Ids |-> IF i = 1 THEN {"move_to_folder"} ELSE {}]
    /\ nextId = 2 /\ nextGid = 1
    /\ clients \in Setups
    /\ req = [q \in Requests |-> Idle]

-----------------------------------------------------------------------------
(* The transactions. *)

(* The unique index on the name, for every row but one.                     *)
NameTaken(name, but) == \E i \in live \ {but} : ruleRows[i].name = name

MaxPriority(S) == Max({0} \cup {ruleRows[i].pri : i \in S})

CatchAlls == {i \in live : ruleRows[i].name = CatchAll}

GroupsOf(i) == {g \in groups : g.rule = i}

(* Foreign keys are enforced, with ON DELETE CASCADE: groups take their     *)
(* conditions along.                                                        *)
DropGroups(S) ==
    LET gone == {g \in groups : g.rule \in S}
    IN  groups' = groups \ gone /\ conds' = conds \ {g.gid : g \in gone}

(* saveConditions and saveActions, after the old rows of rule i are gone.   *)
SaveChildren(i, form, full) ==
    LET kept == conds \ {g.gid : g \in GroupsOf(i)}
    IN  /\ acts' = [acts EXCEPT ![i] = form.acts]
        /\ IF form.op = "none"
           THEN DropGroups({i}) /\ UNCHANGED nextGid
           ELSE /\ nextGid <= MaxGid
                /\ groups' = (groups \ GroupsOf(i)) \cup
                             {[gid |-> nextGid, rule |-> i, op |-> form.op]}
                /\ conds' = IF full THEN kept \cup {nextGid} ELSE kept
                /\ nextGid' = nextGid + 1

Row(form) == [name |-> form.name, pri |-> form.pri, enabled |-> form.enabled]

(* Create: the unique index on the name may refuse it. *)
Create(form) ==
    /\ nextId <= MaxId
    /\ live' = live \cup {nextId}
    /\ ruleRows' = [ruleRows EXCEPT ![nextId] = Row(form)]
    /\ nextId' = nextId + 1
    /\ SaveChildren(nextId, form, TRUE)

(* Update, of a row that is still there. *)
Update(i, form, full) ==
    /\ ruleRows' = [ruleRows EXCEPT ![i] = Row(form)]
    /\ SaveChildren(i, form, full)
    /\ UNCHANGED <<live, nextId>>

(* Update of a rule deleted in the meantime: no row is updated, and child   *)
(* rows are refused by their foreign key.                                   *)
UpdateRefused(form) == form.op # "none" \/ form.acts # {}

(* Delete: its groups, their conditions and its actions go with the rule.   *)
Delete(i) ==
    /\ live' = live \ {i}
    /\ ruleRows' = [ruleRows EXCEPT ![i] = NoRow]
    /\ DropGroups({i})
    /\ acts' = [acts EXCEPT ![i] = {}]
    /\ UNCHANGED <<nextId, nextGid>>

(* A mistake StoreTypeOK rules out: priorities counted from -1.             *)
ReorderBelowZero(ids) ==
    /\ ruleRows' = [i \in Ids |->
                    IF \E k \in DOMAIN ids : ids[k] = i
                    THEN [ruleRows[i] EXCEPT !.pri = (CHOOSE k \in DOMAIN ids : ids[k] = i) - 2]
                    ELSE ruleRows[i]]
    /\ UNCHANGED <<live, groups, conds, acts, nextId, nextGid>>

(* Reorder: the rules named get 0, 1, ..., the catch-all comes after all.   *)
Reorder(ids) ==
    LET at(i) == CHOOSE k \in DOMAIN ids : ids[k] = i
        pri(i) == IF \E k \in DOMAIN ids : ids[k] = i THEN at(i) - 1 ELSE ruleRows[i].pri
        last == Max({0} \cup {pri(i) : i \in live \ CatchAlls}) + 1
    IN  /\ ruleRows' = [i \in Ids |->
                        IF i \notin live THEN ruleRows[i]
                        ELSE [ruleRows[i] EXCEPT !.pri = IF i \in CatchAlls THEN last ELSE pri(i)]]
        /\ UNCHANGED <<live, groups, conds, acts, nextId, nextGid>>

(* A mistake CatchAllCatches rules out: an existing catch-all is left as it *)
(* is.                                                                      *)
EnsureCatchAllOnce ==
    \/ /\ CatchAlls # {}
       /\ UNCHANGED tables
    \/ /\ CatchAlls = {}
       /\ nextId <= MaxId
       /\ live' = live \cup {nextId}
       /\ ruleRows' = [ruleRows EXCEPT ![nextId] =
                       [name |-> CatchAll, enabled |-> TRUE,
                        pri |-> IF live = {} THEN 999 ELSE MaxPriority(live) + 1]]
       /\ acts' = [acts EXCEPT ![nextId] = {"move_to_folder"}]
       /\ nextId' = nextId + 1
       /\ UNCHANGED <<groups, conds, nextGid>>

(* EnsureCatchAll: an existing catch-all loses its conditions, gets a move  *)
(* if it has none and goes last; a missing one is made.                     *)
EnsureCatchAll ==
    \/ /\ CatchAlls # {}
       /\ ruleRows' = [i \in Ids |->
                          IF i \in CatchAlls
                          THEN [ruleRows[i] EXCEPT !.pri = MaxPriority(live \ CatchAlls) + 1]
                          ELSE ruleRows[i]]
       /\ DropGroups(CatchAlls)
       /\ acts' = [i \in Ids |-> IF i \in CatchAlls THEN acts[i] \cup {"move_to_folder"}
                                 ELSE acts[i]]
       /\ UNCHANGED <<live, nextId, nextGid>>
    \/ /\ CatchAlls = {}
       /\ nextId <= MaxId
       /\ live' = live \cup {nextId}
       /\ ruleRows' = [ruleRows EXCEPT ![nextId] =
                       [name |-> CatchAll, enabled |-> TRUE,
                        pri |-> IF live = {} THEN 999 ELSE MaxPriority(live) + 1]]
       /\ acts' = [acts EXCEPT ![nextId] = {"move_to_folder"}]
       /\ nextId' = nextId + 1
       /\ UNCHANGED <<groups, conds, nextGid>>

-----------------------------------------------------------------------------
(* The steps of a request. *)

Become(q, o) == req' = [req EXCEPT ![q] = o]

Starts(q, o) == req[q].pc = "idle" /\ Become(q, o) /\ UNCHANGED tables

(* The handlers of the rule forms repair the catch-all after their write.   *)
AfterWrite(q) == IF q \in Web THEN [Idle EXCEPT !.pc = "ensure"] ELSE Idle

(* rulesCreateHandler: a blank priority becomes the number of user rules.   *)
WebCreate(q) ==
    \E f \in Forms(clients) :
        Starts(q, [Idle EXCEPT !.pc = "create",
                     !.form = [f EXCEPT !.pri = IF @ = Blank THEN Cardinality(live \ CatchAlls)
                                                ELSE @]])

TryCreate(q, form) ==
    IF NameTaken(form.name, 0)
    THEN Become(q, Idle) /\ UNCHANGED tables
    ELSE Create(form) /\ Become(q, AfterWrite(q))

DoCreate(q) ==
    /\ req[q].pc = "create"
    /\ TryCreate(q, req[q].form)

(* create_rule: validated, so never named _catch_all; the priority is 1 by  *)
(* default.                                                                 *)
McpCreate(q) ==
    /\ req[q].pc = "idle"
    /\ \E f \in Forms(clients) :
        /\ f.name # CatchAll
        /\ TryCreate(q, [f EXCEPT !.pri = IF @ = Blank THEN 1 ELSE @, !.enabled = TRUE])

(* rulesUpdateHandler: Get, of which only a priority left blank survives.   *)
WebUpdate(q) ==
    \E i \in live, f \in Forms(clients) :
        Starts(q, [Idle EXCEPT !.pc = "update", !.id = i, !.given = Parts,
                     !.form = [f EXCEPT !.pri = IF @ = Blank THEN ruleRows[i].pri ELSE @]])

(* enable_rule and disable_rule: Get, in four queries, and Update with all  *)
(* that it read.                                                            *)
McpEnable(q) ==
    \E i \in live, e \in BOOLEAN :
        Starts(q, [Idle EXCEPT !.pc = "readGroups", !.id = i, !.ids = {i},
                     !.form = [NoForm EXCEPT !.name = ruleRows[i].name, !.pri = ruleRows[i].pri,
                                             !.enabled = e]])

(* update_rule: Get, then the fields that were given and a validation that  *)
(* reserves the name; conditions and actions are given or kept as read.     *)
McpUpdate(q) ==
    \E i \in live, f \in Forms(clients), given \in SUBSET Parts :
        /\ f.name # CatchAll
        /\ Starts(q, [Idle EXCEPT !.pc = "readGroups", !.id = i, !.ids = {i}, !.given = given,
                        !.form = [f EXCEPT !.pri = IF @ = Blank THEN ruleRows[i].pri ELSE @,
                                           !.enabled = ruleRows[i].enabled]])

DoUpdate(q) ==
    LET i == req[q].id
        f == req[q].form
        full == "conditions" \in req[q].given \/ req[q].conds # {}
    IN  /\ req[q].pc = "update"
        /\ \/ /\ i \in live /\ ~NameTaken(f.name, i)
              /\ Update(i, f, full)
              /\ Become(q, AfterWrite(q))
           \/ /\ IF i \in live THEN NameTaken(f.name, i) ELSE UpdateRefused(f)
              /\ Become(q, Idle) /\ UNCHANGED tables
           \/ /\ i \notin live /\ ~UpdateRefused(f)
              /\ Become(q, AfterWrite(q)) /\ UNCHANGED tables

Ensure(q) ==
    /\ req[q].pc = "ensure"
    /\ EnsureCatchAll
    /\ Become(q, Idle)

(* rulesDeleteHandler looks at the name before it deletes; delete_rule does *)
(* not.                                                                     *)
WebDelete(q) ==
    \E i \in live \ CatchAlls : Starts(q, [Idle EXCEPT !.pc = "delete", !.id = i])

DoDelete(q) ==
    /\ req[q].pc = "delete"
    /\ Delete(req[q].id)
    /\ Become(q, Idle)

McpDelete(q) ==
    /\ req[q].pc = "idle"
    /\ \E i \in live : Delete(i)
    /\ UNCHANGED req

(* rulesReorderHandler: an order of some of the rules. *)
Orders == {s \in UNION {[1..n -> live] : n \in 0..Cardinality(live)} :
            \A j, k \in DOMAIN s : s[j] = s[k] => j = k}

WebReorder(q) ==
    /\ req[q].pc = "idle"
    /\ \E ids \in Orders : Reorder(ids)
    /\ UNCHANGED req

Precedes(i, j) ==
    ruleRows[i].pri < ruleRows[j].pri \/ (ruleRows[i].pri = ruleRows[j].pri /\ i < j)

ListOrder ==
    CHOOSE s \in Orders :
        /\ Len(s) = Cardinality(live)
        /\ \A j, k \in DOMAIN s : j < k => Precedes(s[j], s[k])

(* rulesReorderMoveHandler: the listed order with one rule moved by one.    *)
WebReorderMove(q) ==
    \E k \in 1..(Cardinality(live) - 1) :
        Starts(q, [Idle EXCEPT !.pc = "reorder",
                     !.order = [ListOrder EXCEPT ![k] = ListOrder[k + 1],
                                                 ![k + 1] = ListOrder[k]]])

DoReorder(q) ==
    /\ req[q].pc = "reorder"
    /\ Reorder(req[q].order)
    /\ Become(q, Idle)

(* ImportWithReport: the file is validated and the names are read once;     *)
(* then one transaction per rule.  A duplicate is skipped, or imported      *)
(* under another name; an error ends the import half way.                   *)
Import(q) ==
    \E f, g \in {h \in Forms(clients) : h.name # CatchAll} :
        Starts(q, [Idle EXCEPT !.pc = "import", !.file = <<f, g>>,
                               !.taken = {ruleRows[i].name : i \in live}])

ImportAs(q, f) ==
    LET o == req[q]
    IN  \/ /\ NameTaken(f.name, 0)
           /\ Become(q, Idle) /\ UNCHANGED tables
        \/ /\ ~NameTaken(f.name, 0)
           /\ Create(f)
           /\ Become(q, [o EXCEPT !.file = Tail(@), !.taken = @ \cup {f.name}])

ImportRule(q) ==
    LET o == req[q]
        f == Head(o.file)
    IN  /\ o.pc = "import" /\ o.file # <<>>
        /\ \/ /\ f.name \in o.taken
              /\ Become(q, [o EXCEPT !.file = Tail(@)]) /\ UNCHANGED tables
           \/ /\ f.name \in o.taken
              /\ \E n \in Names \ o.taken : ImportAs(q, [f EXCEPT !.name = n])
           \/ /\ f.name \notin o.taken
              /\ ImportAs(q, f)

ImportDone(q) ==
    /\ req[q].pc = "import" /\ req[q].file = <<>>
    /\ Become(q, Idle) /\ UNCHANGED tables

-----------------------------------------------------------------------------
(* Reading whole rules: List, or Get of one. *)

(* The user rules of the list; the catch-all is read along with them.       *)
List(q) == Starts(q, [Idle EXCEPT !.pc = "readGroups", !.ids = live \ CatchAlls])

Reads(q, from, to, o) ==
    /\ req[q].pc = from
    /\ Become(q, [o EXCEPT !.pc = to])
    /\ UNCHANGED tables

ReadGroups(q) ==
    Reads(q, "readGroups", "readConds",
          [req[q] EXCEPT !.groups = {g \in groups : g.rule \in req[q].ids}])

(* List takes every condition there is; Get asks for those of the groups    *)
(* the rule has by now, which need not be the ones it has read.             *)
ReadConditions(q) ==
    LET o == req[q]
        asked == IF q \in Ticks THEN conds
                 ELSE conds \cap {g.gid : g \in {h \in groups : h.rule = o.id}}
    IN  Reads(q, "readConds", "readActs",
              [o EXCEPT !.conds = {g.gid : g \in o.groups} \cap asked])

(* The last query.  A tick goes on to match with the list; a tool has its   *)
(* whole rule and writes back what it was not given.                        *)
ReadActions(q) ==
    LET o == req[q]
        op == IF o.groups = {} THEN "none" ELSE (CHOOSE g \in o.groups : TRUE).op
    IN  \/ /\ q \in Ticks
           /\ Reads(q, "readActs", "listed", o)
        \/ /\ q \in Mcp \cup Enablers
           /\ Reads(q, "readActs", "update",
                    [o EXCEPT !.groups = {}, !.ids = {},
                              !.form.acts = IF "actions" \in o.given THEN @ ELSE acts[o.id],
                              !.form.op = IF "conditions" \in o.given THEN @ ELSE op])

Listed(q) ==
    /\ req[q].pc = "listed"
    /\ Become(q, Idle) /\ UNCHANGED tables

-----------------------------------------------------------------------------
(* The process is killed, whatever it was doing, and starts again.          *)
Restart ==
    /\ req' = [q \in Requests |-> Idle]
    /\ EnsureCatchAll

WebStep(q) ==
    \/ WebCreate(q) \/ WebUpdate(q) \/ WebDelete(q) \/ WebReorder(q) \/ WebReorderMove(q)
    \/ DoCreate(q) \/ DoUpdate(q) \/ DoDelete(q) \/ DoReorder(q) \/ Ensure(q)

(* A mistake ListedRulesComplete rules out: conditions are read before the  *)
(* groups they belong to.                                                   *)
ReadStepConditionsFirst(q) ==
    LET o == req[q]
        present == {g \in groups : g.rule \in o.ids}
    IN  \/ Reads(q, "readGroups", "readConds", [o EXCEPT !.conds = conds])
        \/ Reads(q, "readConds", "readActs",
                 [o EXCEPT !.groups = present, !.conds = @ \cap {g.gid : g \in present}])
        \/ ReadActions(q)

ReadStep(q) == ReadGroups(q) \/ ReadConditions(q) \/ ReadActions(q)

McpStep(q) ==
    McpCreate(q) \/ McpUpdate(q) \/ McpDelete(q) \/ ReadStep(q) \/ DoUpdate(q)

EnableStep(q) == McpEnable(q) \/ ReadStep(q) \/ DoUpdate(q)

ImportStep(q) == Import(q) \/ ImportRule(q) \/ ImportDone(q)

TickStep(q) == List(q) \/ ReadStep(q) \/ Listed(q)

StoreNext ==
    /\ \/ \E q \in clients \cap Web : WebStep(q)
       \/ \E q \in clients \cap Mcp : McpStep(q)
       \/ \E q \in clients \cap Enablers : EnableStep(q)
       \/ \E q \in clients \cap Importers : ImportStep(q)
       \/ \E q \in clients \cap Ticks : TickStep(q)
       \/ Restart
    /\ UNCHANGED clients

StoreSpec == StoreInit /\ [][StoreNext]_storeVars

-----------------------------------------------------------------------------
(* No rule form is between its write and its repair of the catch-all.       *)
Settled == \A q \in Web : req[q].pc # "ensure"

(* docs: "if none match, the catch-all handles it".  Where only forms write *)
(* rules, two at once and none in progress, there is a catch-all, every     *)
(* other rule comes before it in List's order, and it has no conditions and *)
(* a move to make: whatever the two did, in whatever interleaving, and      *)
(* after a crash.  With a third one it may be gone: a form that deletes     *)
(* looks at the name first, and may do so while another has renamed the     *)
(* catch-all, whose name the third gives back before anything is repaired.  *)
CatchAllCatches ==
    /\ clients \subseteq Web \cup Ticks
    /\ \A p, q, r \in clients \cap Web : p = q \/ q = r \/ p = r
    /\ Settled
    =>
        \E c \in CatchAlls :
            /\ \A i \in live \ {c} : Precedes(i, c)
            /\ \A g \in groups : g.rule # c
            /\ "move_to_folder" \in acts[c]

HasConditions(i, gs, cs) == \E g \in gs : g.rule = i /\ g.gid \in cs

(* An update or a deletion of rule i went in between the reads of q.        *)
Overtaken(q, i) == i \notin live \/ GroupsOf(i) # {g \in req[q].groups : g.rule = i}

(* docs: the first matching rule's actions execute.  When every rule that   *)
(* forms or imports bring has conditions, and none takes the name of the    *)
(* catch-all, every user rule that a tick works with has them too (a rule   *)
(* without conditions matches everything), whatever was created, imported,  *)
(* reordered and repaired between the four queries: save a rule that an     *)
(* update or a deletion overtook, whose conditions may be gone although its *)
(* group was read.                                                          *)
ListedRulesComplete ==
    /\ clients \cap (Mcp \cup Enablers) = {}
    /\ \A f \in Forms(clients) : f.op # "none" /\ f.name # CatchAll
    =>
        \A q \in Ticks : req[q].pc = "listed" =>
            \A i \in req[q].ids :
                Overtaken(q, i) \/ HasConditions(i, req[q].groups, req[q].conds)
=============================================================================
