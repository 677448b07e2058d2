------------------------------ MODULE RuleFile ------------------------------
(***************************************************************************)
(* How a rule's conditions are stored and carried: as rows of the database *)
(* (saveConditions and buildGroupTree, internal/db/rules.go), and as the   *)
(* file that export and the backup mail write and import reads             *)
(* (internal/db/ruleexport.go), behind the validation of                   *)
(* internal/db/validate.go.  A rule is one of RulesEngine's.               *)
(***************************************************************************)
EXTENDS RulesEngine, SequencesExt

CONSTANTS
    MaxDepth,      \* how deep groups may nest: 5
    MaxConditions, \* how many conditions a rule may have: 50
    Refused        \* conditions that validation refuses

ASSUME FileAssumption ==
    /\ MaxDepth \in Nat \ {0} /\ MaxConditions \in Nat \ {0}
    /\ Refused \subseteq Conditions

-----------------------------------------------------------------------------
(* Rows. *)

GroupOperators == {"AND", "OR"}

(* A row of condition_groups with its conditions.  Its id is its place; 0   *)
(* is no parent.                                                            *)
Rows == [parent : Nat, op : GroupOperators, conds : Seq(Conditions)]

(* A loop over groups: save[k] stores the k-th under a parent. *)
saveAll(save, parent, rows) ==
    LET after[k \in 0..Len(save)] ==
            IF k = 0 THEN rows ELSE save[k][parent][after[k - 1]]
    IN  after[Len(save)]

(* A mistake LoadInvertsSave rules out: a subgroup gets its group's parent. *)
saveGroupBeside(g, save, parent, rows) ==
    saveAll(save, parent, Append(rows, [parent |-> parent, op |-> g.op, conds |-> g.conds]))

(* The rows after group g was stored under parent: its own first, then its  *)
(* subgroups', which save stores.                                           *)
saveGroup(g, save, parent, rows) ==
    saveAll(save, Len(rows) + 1, Append(rows, [parent |-> parent, op |-> g.op, conds |-> g.conds]))

Saved ==
    LET s[g \in Groups] ==
            [parent \in Nat |-> [rows \in Seq(Rows) |->
                saveGroup(g, [k \in DOMAIN g.groups |-> s[g.groups[k]]], parent, rows)]]
    IN  s

saveConditions(gs) == saveAll([k \in DOMAIN gs |-> Saved[gs[k]]], 0, <<>>)

(* The rows under a parent, by ascending id. *)
Ascending(S) ==
    CHOOSE s \in [1..Cardinality(S) -> S] : \A i, j \in DOMAIN s : i < j => s[i] < s[j]
Under(rows, parent) == Ascending({k \in DOMAIN rows : rows[k].parent = parent})

(* The group of each row, and the groups under a parent. *)
Loaded(rows) ==
    LET t[k \in DOMAIN rows] ==
            [op |-> rows[k].op, conds |-> rows[k].conds,
             groups |-> [j \in DOMAIN Under(rows, k) |-> t[Under(rows, k)[j]]]]
    IN  t

buildGroupTree(rows, parent) ==
    [j \in DOMAIN Under(rows, parent) |-> Loaded(rows)[Under(rows, parent)[j]]]

-----------------------------------------------------------------------------
(* Files. *)

(* A mistake RestoreKeepsMeaning rules out: any single group is written as  *)
(* a plain list of conditions.                                              *)
ruleToExportFlattens(r) ==
    IF Len(r.groups) = 1
    THEN [op |-> r.groups[1].op, conds |-> r.groups[1].conds, groups |-> <<>>]
    ELSE [op |-> "", conds |-> <<>>, groups |-> r.groups]

(* A single group without subgroups is written as a plain list of           *)
(* conditions; groupToExport writes the others as they are.                 *)
ruleToExport(r) ==
    IF Len(r.groups) = 1 /\ r.groups[1].groups = <<>>
    THEN [op |-> r.groups[1].op, conds |-> r.groups[1].conds, groups |-> <<>>]
    ELSE [op |-> "", conds |-> <<>>, groups |-> r.groups]

OrDefault(op) == IF op \in GroupOperators THEN op ELSE "OR"

groupToRule ==
    LET t[g \in Groups] ==
            [op |-> OrDefault(g.op), conds |-> g.conds,
             groups |-> [k \in DOMAIN g.groups |-> t[g.groups[k]]]]
    IN  t

(* A file without conditions and without groups is a rule that matches      *)
(* every message.                                                           *)
ruleExportToRule(f) ==
    IF f.conds # <<>> THEN <<[op |-> OrDefault(f.op), conds |-> f.conds, groups |-> <<>>]>>
    ELSE [k \in DOMAIN f.groups |-> groupToRule[f.groups[k]]]

(* validateCondition refuses malformed dates and numbers of days, on which  *)
(* the engine errs, but also unknown fields and operators, regular          *)
(* expressions that do not compile and attachments compared to a value, on  *)
(* which it does not.                                                       *)
validCondition(c) == c \notin Refused

validConditions(cs) == \A i \in DOMAIN cs : validCondition(cs[i])

(* How deep a group may be, and the conditions in it. *)
validGroup ==
    LET valid[g \in Groups, depth \in Nat] ==
            /\ depth <= MaxDepth
            /\ g.op \in GroupOperators \cup {""}
            /\ validConditions(g.conds)
            /\ \A k \in DOMAIN g.groups : valid[g.groups[k], depth + 1]
    IN  valid

Total ==
    LET total[g \in Groups] ==
            FoldLeft(LAMBDA n, h : n + total[h], Len(g.conds), g.groups)
    IN  total

ValidateRuleExport(f) ==
    /\ f.op \in GroupOperators \cup {""}
    /\ IF f.groups # <<>>
       THEN /\ \A k \in DOMAIN f.groups : validGroup[f.groups[k], 1]
            /\ FoldLeft(LAMBDA n, g : n + Total[g], 0, f.groups) <= MaxConditions
       ELSE /\ validConditions(f.conds)
            /\ Len(f.conds) <= MaxConditions

(* What import makes of an exported rule. *)
Restored(r) == [r EXCEPT !.groups = ruleExportToRule(ruleToExport(r))]

-----------------------------------------------------------------------------
(* A rule read back from the database has the groups it was stored with,    *)
(* subgroups and their order included.                                      *)
LoadInvertsSave ==
    \A i \in DOMAIN rules :
        buildGroupTree(saveConditions(rules[i].groups), 0) = rules[i].groups

LoneEmptyOr(r) == r.groups = <<[op |-> "OR", conds |-> <<>>, groups |-> <<>>]>>

SameMeaning(r, s) == \A e \in Completions : RuleMeaning(r, e) = RuleMeaning(s, e)

(* docs: "Nested groups round-trip through export, backup, and MCP."  A     *)
(* valid rule that was exported and imported holds for the same messages,   *)
(* unless it is a single OR of nothing.                                     *)
RestoreKeepsMeaning ==
    Done => \A i \in DOMAIN rules :
        ValidateRuleExport(ruleToExport(rules[i])) /\ ~LoneEmptyOr(rules[i])
            => SameMeaning(Restored(rules[i]), rules[i])

(* CHANGELOG: "the backup attachment uses the same envelope as import and   *)
(* can be restored".  Every rule the web form stores passes the validation  *)
(* of import and comes back with the same meaning.                          *)
BackupRestores ==
    Done => \A i \in DOMAIN rules :
        /\ ValidateRuleExport(ruleToExport(rules[i]))
        /\ SameMeaning(Restored(rules[i]), rules[i])
=============================================================================
