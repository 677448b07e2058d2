----------------------------- MODULE RulesEngine ----------------------------
(***************************************************************************)
(* Matching (internal/rules/engine.go): Match goes through the rules in    *)
(* order and through each rule's tree of groups until the outcome is       *)
(* known, fetching the body and headers it needs from the server at most   *)
(* once.  EvaluateWithResults, the rule test, evaluates every condition    *)
(* instead.  A condition is what it yields: true, false or an error (a     *)
(* malformed date or number of days), and for one that looks at the body   *)
(* or a header, what it yields when that could not be fetched: a record    *)
(* with fields src, val, blank and regex.                                  *)
(***************************************************************************)
EXTENDS Naturals, Sequences, FiniteSetsExt

CONSTANTS
    Layers,     \* the groups there are, by height: a sequence of sets
    Cases,      \* rule lists and moments to try: [rules : Seq(rule), now : moment]
    Week,       \* days in a week
    DayLength,  \* times in a day
    Block       \* times that share their first digit: ten hours in HH:MM

Fetched == {"body", "header"}          \* what conditions may need a fetch for
Values == {"T", "F", "E"}
Days == 0..(Week - 1)
Times == 0..(DayLength - 1)
Moments == [day : Days, time : Times]

(* A schedule's times as validateSchedule lets them be written: 09:00, or   *)
(* 9:00 without the leading zero; or empty.                                 *)
Written ==
    [at : Times, padded : {TRUE}] \cup [at : 0..(Block - 1) \cap Times, padded : {FALSE}]
Unset == [at |-> DayLength, padded |-> TRUE]

Conditions == [src : Fetched \cup {"message"}, val : Values, blank : Values, regex : BOOLEAN]
Upto(n) == UNION {Layers[m] : m \in 1..n}
Groups == Upto(Len(Layers))

Rules ==
    [enabled : BOOLEAN, groups : Seq(Groups), days : SUBSET Days,
     start : Written \cup {Unset}, end : Written \cup {Unset}]

(* A group has conditions, and groups of lower layers: trees are finite.    *)
ASSUME EngineAssumption ==
    /\ Week \in Nat \ {0} /\ DayLength \in Nat \ {0} /\ Block \in Nat \ {0}
    /\ Len(Layers) \in Nat
    /\ \A n \in 1..Len(Layers) :
        Layers[n] \subseteq [op : {"AND", "OR"}, conds : Seq(Conditions), groups : Seq(Upto(n - 1))]
    /\ \A c \in Cases : c.rules \in Seq(Rules) /\ c.now \in Moments

VARIABLES
    rules, now,  \* Match's arguments; the clock stands still
    pc,
    at, group,   \* indices of the loops in Match and evaluateRule
    stack,       \* the calls of evalGroupWithExtras: a group and a child of it
    ret,         \* what the last of them returned
    extras,      \* per source: not fetched, fetched, or failed
    fetches,     \* how often each source was fetched
    captures,    \* rules whose regular expressions filled the captures map
    vals,        \* of each rule: what evaluateRule returned, if it was called
    result       \* the index of the matched rule, 0 for none

args == <<rules, now>>
fetching == <<extras, fetches, captures>>
vars == <<args, pc, at, group, stack, ret, fetching, vals, result>>

TypeOK ==
    /\ pc \in {"rule", "groups", "eval", "return", "matched", "failed", "none"}
    /\ at \in 1..(Len(rules) + 1) /\ group \in Nat \ {0}
    /\ \A k \in DOMAIN stack : stack[k].child \in Nat \ {0}
    /\ ret \in BOOLEAN
    /\ extras \in [Fetched -> {"unread", "got", "empty"}]
    /\ fetches \in [Fetched -> Nat]
    /\ captures \subseteq DOMAIN rules
    /\ vals \in [DOMAIN rules -> Values \cup {"skipped"}]
    /\ result \in 0..Len(rules)

Init ==
    /\ \E c \in Cases : rules = c.rules /\ now = c.now
    /\ pc = "rule" /\ at = 1 /\ group = 1
    /\ stack = <<>> /\ ret = FALSE
    /\ extras = [s \in Fetched |-> "unread"]
    /\ fetches = [s \in Fetched |-> 0]
    /\ captures = {}
    /\ vals = [i \in DOMAIN rules |-> "skipped"]
    /\ result = 0

Rule == rules[at]

-----------------------------------------------------------------------------
(* Schedules. *)

Before(day) == (day + Week - 1) % Week

(* Times are compared as strings.  A colon sorts after every digit, so 1:00 *)
(* comes after 19:00 and before 20:00.                                      *)
Rank(t) == IF t.padded THEN (t.at \div Block) * (Block + 1) + (t.at % Block)
           ELSE t.at * (Block + 1) + Block

(* The moment's own time is formatted with the leading zero. *)
Current(m) == Rank([at |-> m.time, padded |-> TRUE])

Crosses(r) == r.start # Unset /\ r.end # Unset /\ Rank(r.start) > Rank(r.end)

Within(r, m) ==
    LET from == r.start # Unset => Current(m) >= Rank(r.start)
        to == r.end # Unset => Current(m) <= Rank(r.end)
    IN  IF Crosses(r) THEN from \/ to ELSE from /\ to

(* A mistake ScheduleCovers rules out: the hours after midnight are looked  *)
(* up under their own day.                                                  *)
inScheduleAtSameDay(r, m) == (r.days = {} \/ m.day \in r.days) /\ Within(r, m)

(* A window that crosses midnight belongs to the day on which it begins.    *)
inScheduleAt(r, m) ==
    LET day == IF Crosses(r) /\ Current(m) <= Rank(r.end) THEN Before(m.day) ELSE m.day
    IN  (r.days = {} \/ day \in r.days) /\ Within(r, m)

inSchedule(r) ==
    (r.days = {} /\ r.start = Unset /\ r.end = Unset) \/ inScheduleAt(r, now)

-----------------------------------------------------------------------------
(* The loop over the rules. *)

(* Match returns. *)
Finish(label, i) ==
    /\ pc' = label
    /\ result' = i
    /\ UNCHANGED <<args, at, group, stack, fetching>>

(* A mistake TypeOK rules out: the loop's index is returned.                *)
NoMoreRulesReturnsIndex ==
    /\ pc = "rule" /\ at > Len(rules)
    /\ Finish("none", at)
    /\ UNCHANGED <<ret, vals>>

NoMoreRules ==
    /\ pc = "rule" /\ at > Len(rules)
    /\ Finish("none", 0)
    /\ UNCHANGED <<ret, vals>>

NextRule ==
    /\ pc' = "rule"
    /\ at' = at + 1
    /\ UNCHANGED <<args, group, stack, ret, extras, fetches, captures, result>>

SkipDisabled ==
    /\ pc = "rule" /\ at <= Len(rules) /\ ~Rule.enabled
    /\ NextRule
    /\ UNCHANGED vals

(* A mistake CapturesAreTheRules rules out: one map for all rules.          *)
EvaluateRuleSharedMap ==
    /\ pc = "rule" /\ at <= Len(rules) /\ Rule.enabled
    /\ pc' = "groups"
    /\ group' = 1
    /\ UNCHANGED <<args, at, stack, ret, fetching, vals, result>>

(* evaluateRule, with a new map for the captures. *)
EvaluateRule ==
    /\ pc = "rule" /\ at <= Len(rules) /\ Rule.enabled
    /\ pc' = "groups"
    /\ group' = 1
    /\ captures' = {}
    /\ UNCHANGED <<args, at, stack, ret, extras, fetches, vals, result>>

(* Every group holds, and a rule without groups always does; outside its    *)
(* schedule it is passed over.                                              *)
RuleHolds ==
    /\ pc = "groups" /\ group > Len(Rule.groups)
    /\ vals' = [vals EXCEPT ![at] = "T"]
    /\ \/ inSchedule(Rule) /\ Finish("matched", at) /\ UNCHANGED ret
       \/ ~inSchedule(Rule) /\ NextRule

EvalGroup ==
    /\ pc = "groups" /\ group <= Len(Rule.groups)
    /\ pc' = "eval"
    /\ stack' = <<[group |-> Rule.groups[group], child |-> 1]>>
    /\ UNCHANGED <<args, at, group, ret, fetching, vals, result>>

-----------------------------------------------------------------------------
(* evalGroupWithExtras: conditions first, then groups, up to the first that *)
(* decides.                                                                 *)

Top == stack[Len(stack)]
Pop == SubSeq(stack, 1, Len(stack) - 1)
Skip == [stack EXCEPT ![Len(stack)].child = @ + 1]

Decides(op, ok) == (op = "AND" /\ ~ok) \/ (op = "OR" /\ ok)

Return(ok) ==
    /\ pc' = "return"
    /\ ret' = ok
    /\ stack' = Pop

(* What condition c yields, given what the fetches e have brought. *)
evalConditionWithExtras(c, e) ==
    IF c.src \in Fetched /\ e[c.src] = "empty" THEN c.blank ELSE c.val

(* A mistake FetchedOnce rules out: a failure is not remembered.            *)
ensureFetchedOnSuccess(s) ==
    IF s \in Fetched /\ extras[s] # "got"
    THEN /\ \E got \in {"got", "empty"} : extras' = [extras EXCEPT ![s] = got]
         /\ fetches' = [fetches EXCEPT ![s] = @ + 1]
    ELSE UNCHANGED <<extras, fetches>>

(* ensureBody and ensureHeader: a failure is remembered as an empty value.  *)
ensureFetched(s) ==
    IF s \in Fetched /\ extras[s] = "unread"
    THEN /\ \E got \in {"got", "empty"} : extras' = [extras EXCEPT ![s] = got]
         /\ fetches' = [fetches EXCEPT ![s] = @ + 1]
    ELSE UNCHANGED <<extras, fetches>>

EvalCondition ==
    LET g == Top.group
        c == g.conds[Top.child]
        v == evalConditionWithExtras(c, extras')
    IN  /\ pc = "eval" /\ Top.child <= Len(g.conds)
        /\ ensureFetched(c.src)
        /\ captures' = IF c.regex /\ v = "T" THEN captures \cup {at} ELSE captures
        /\ \/ /\ v = "E"
              /\ pc' = "failed"
              /\ stack' = <<>>
              /\ vals' = [vals EXCEPT ![at] = "E"]
              /\ UNCHANGED ret
           \/ /\ v # "E" /\ Decides(g.op, v = "T")
              /\ Return(v = "T")
              /\ UNCHANGED vals
           \/ /\ v # "E" /\ ~Decides(g.op, v = "T")
              /\ stack' = Skip
              /\ UNCHANGED <<pc, ret, vals>>
        /\ UNCHANGED <<args, at, group, result>>

EvalSubgroup ==
    LET g == Top.group
        k == Top.child - Len(g.conds)
    IN  /\ pc = "eval" /\ k \in DOMAIN g.groups
        /\ stack' = Append(stack, [group |-> g.groups[k], child |-> 1])
        /\ UNCHANGED <<args, pc, at, group, ret, fetching, vals, result>>

(* A mistake FirstMatchWins rules out: a group of which no child decides    *)
(* holds, whatever its operator.                                            *)
GroupEndsTrue ==
    /\ pc = "eval" /\ Top.child > Len(Top.group.conds) + Len(Top.group.groups)
    /\ Return(TRUE)
    /\ UNCHANGED <<args, at, group, fetching, vals, result>>

(* No child has decided. *)
GroupEnds ==
    /\ pc = "eval" /\ Top.child > Len(Top.group.conds) + Len(Top.group.groups)
    /\ Return(Top.group.op = "AND")
    /\ UNCHANGED <<args, at, group, fetching, vals, result>>

ReturnToGroup ==
    /\ pc = "return" /\ stack # <<>>
    /\ IF Decides(Top.group.op, ret) THEN Return(ret)
       ELSE pc' = "eval" /\ stack' = Skip /\ UNCHANGED ret
    /\ UNCHANGED <<args, at, group, fetching, vals, result>>

ReturnToRule ==
    /\ pc = "return" /\ stack = <<>>
    /\ IF ret
       THEN /\ pc' = "groups"
            /\ group' = group + 1
            /\ UNCHANGED <<args, at, stack, ret, fetching, vals, result>>
       ELSE /\ NextRule
            /\ vals' = [vals EXCEPT ![at] = "F"]

Next ==
    \/ NoMoreRules \/ SkipDisabled \/ EvaluateRule \/ RuleHolds
    \/ EvalGroup \/ EvalCondition \/ EvalSubgroup \/ GroupEnds
    \/ ReturnToGroup \/ ReturnToRule

Spec == Init /\ [][Next]_vars

Done == pc \in {"matched", "failed", "none"}

-----------------------------------------------------------------------------
(* EvaluateWithResults. *)

(* Passed, or the error, in a second copy of the same cases. *)
evalConditionWithResult(c, e) ==
    IF c.src \in Fetched /\ e[c.src] = "empty" THEN c.blank ELSE c.val

(* The results of g's conditions, and those of its groups. *)
Results(g, e, below) ==
    {evalConditionWithResult(g.conds[i], e) : i \in DOMAIN g.conds}
    \cup {below[i] : i \in DOMAIN below}

(* A mistake TestAgrees rules out: an OR of nothing passes.                 *)
evalGroupOrHolds(g, e, below) ==
    IF "E" \in Results(g, e, below) THEN "E"
    ELSE IF g.op = "AND" THEN IF "F" \in Results(g, e, below) THEN "F" ELSE "T"
    ELSE IF "T" \in Results(g, e, below) \/ Results(g, e, below) = {} THEN "T" ELSE "F"

(* Every child is evaluated, so an error anywhere ends the evaluation; below *)
(* is what the recursion brings for g's groups.                              *)
evalGroupWithResults(g, e, below) ==
    IF "E" \in Results(g, e, below) THEN "E"
    ELSE IF g.op = "AND" THEN IF "F" \in Results(g, e, below) THEN "F" ELSE "T"
    ELSE IF "T" \in Results(g, e, below) THEN "T" ELSE "F"

Tested(e) ==
    LET t[g \in Groups] ==
            evalGroupWithResults(g, e, [k \in DOMAIN g.groups |-> t[g.groups[k]]])
    IN  t

(* The first group that errs or does not pass ends the evaluation. *)
EvaluateWithResults(r, e) ==
    LET stops == {i \in DOMAIN r.groups : Tested(e)[r.groups[i]] # "T"}
    IN  IF stops = {} THEN "T" ELSE Tested(e)[r.groups[Min(stops)]]

-----------------------------------------------------------------------------
(* What the rules mean: a group is as its first deciding child, a rule as   *)
(* its first group that does not hold.                                      *)

Neutral(g) == IF g.op = "AND" THEN "T" ELSE "F"

(* The k-th child of g, its groups being as below says. *)
Child(g, e, below, k) ==
    IF k <= Len(g.conds) THEN evalConditionWithExtras(g.conds[k], e)
    ELSE below[k - Len(g.conds)]

Judged(g, e, below) ==
    LET deciding == {k \in 1..(Len(g.conds) + Len(g.groups)) : Child(g, e, below, k) # Neutral(g)}
    IN  IF deciding = {} THEN Neutral(g) ELSE Child(g, e, below, Min(deciding))

Meaning(e) ==
    LET m[g \in Groups] == Judged(g, e, [k \in DOMAIN g.groups |-> m[g.groups[k]]])
    IN  m

RuleMeaning(r, e) ==
    LET failing == {i \in DOMAIN r.groups : Meaning(e)[r.groups[i]] # "T"}
    IN  IF failing = {} THEN "T" ELSE Meaning(e)[r.groups[Min(failing)]]

(* The stretches of a scheduled rule, counted over the week: for each of    *)
(* its days, from start (or midnight) to end (or the last minute), on the   *)
(* next day if end is before start.                                         *)
Covers(r, m) ==
    LET from == IF r.start = Unset THEN 0 ELSE r.start.at
        to == IF r.end = Unset THEN DayLength - 1 ELSE r.end.at
        length == (to + DayLength - from) % DayLength
        week == Week * DayLength
    IN  \E d \in (IF r.days = {} THEN Days ELSE r.days) :
            (m.day * DayLength + m.time + week - (d * DayLength + from)) % week <= length

(* CHANGELOG: "Fixed crossing-midnight rule schedules so the day follows    *)
(* the window start".  A rule is in its schedule exactly in the stretches   *)
(* that begin on its days.                                                  *)
ScheduleCovers ==
    \A i \in DOMAIN rules : inScheduleAt(rules[i], now) <=> Covers(rules[i], now)

(* Outcomes of the fetches that were not made as well. *)
Completions ==
    {e \in [Fetched -> {"got", "empty"}] :
        \A s \in Fetched : extras[s] # "unread" => e[s] = extras[s]}

(* Rules that the message matches, or whose evaluation errs; a rule that    *)
(* holds is in time if it is in its schedule.                               *)
Holding(e) == {i \in DOMAIN rules : rules[i].enabled /\ RuleMeaning(rules[i], e) # "F"}

InTime(i, e) == RuleMeaning(rules[i], e) = "T" => Covers(rules[i], now)

IsFirst(i, e) == i \in Holding(e) /\ \A j \in Holding(e) : i <= j

(* docs: "First matching rule's actions execute".  The first enabled rule   *)
(* that errs, or holds and is in its schedule, ends Match if none before it *)
(* holds; if none holds at all, none is returned; and a rule that is        *)
(* returned holds, is in its schedule, and comes after none like it.  What  *)
(* was not fetched could not have changed that, and whatever was fetched    *)
(* has been the same for all conditions.  What Match makes of a message     *)
(* whose first rule is out of its schedule, OutOfScheduleWaits is about.    *)
FirstMatchWins ==
    Done => \A e \in Completions :
        /\ Holding(e) = {} => pc = "none"
        /\ \A i \in DOMAIN rules : IsFirst(i, e) /\ InTime(i, e) =>
              IF RuleMeaning(rules[i], e) = "E" THEN pc = "failed"
              ELSE pc = "matched" /\ result = i
        /\ pc = "matched" =>
              /\ result \in Holding(e) /\ RuleMeaning(rules[result], e) = "T"
              /\ InTime(result, e)
              /\ \A i \in Holding(e) : i < result => ~InTime(i, e)

(* docs: "A scheduled rule that doesn't match the current time is skipped - *)
(* the message stays unseen and is re-checked on the next tick."  While the *)
(* first rule that holds is out of its schedule, no other rule takes the    *)
(* message.                                                                 *)
OutOfScheduleWaits ==
    Done => \A e \in Completions, i \in DOMAIN rules :
        IsFirst(i, e) /\ ~InTime(i, e) => pc = "none"

(* ensureBody "fetches the message body at most once", ensureHeader "a      *)
(* header at most once per name": over all the rules, failures included.    *)
FetchedOnce == \A s \in Fetched : fetches[s] <= 1

(* The captures a matched rule's actions are filled in with come from its   *)
(* own conditions, not from a rule that was tried before.                   *)
CapturesAreTheRules == pc = "matched" => captures \subseteq {result}

(* A group's own conditions and those of the groups below it. *)
AllConditions ==
    LET a[g \in Groups] == Range(g.conds) \cup UNION {a[g.groups[k]] : k \in DOMAIN g.groups}
    IN  a

MayErr(g) == \E c \in AllConditions[g] : "E" \in {c.val, c.blank}

(* The rule test says what a tick makes of the message: the same, although  *)
(* it evaluates every condition, or an error where the tick may have got by *)
(* without evaluating a broken condition.                                   *)
TestAgrees ==
    Done => \A e \in Completions, i \in DOMAIN rules :
        vals[i] # "skipped" =>
            \/ EvaluateWithResults(rules[i], e) = vals[i]
            \/ /\ EvaluateWithResults(rules[i], e) = "E"
               /\ \E k \in DOMAIN rules[i].groups : MayErr(rules[i].groups[k])
=============================================================================
