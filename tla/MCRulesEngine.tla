--------------------------- MODULE MCRulesEngine ----------------------------
(* Rule lists for TLC. *)
EXTENDS RuleFile

Cond(src, val, blank) == [src |-> src, val |-> val, blank |-> blank, regex |-> FALSE]

(* Conditions on the envelope, a regular expression, one that does not      *)
(* compile, a malformed date, and contains and not_contains on what has to  *)
(* be fetched.                                                              *)
Pool == {Cond("message", "T", "T"), Cond("message", "F", "F"), Cond("message", "E", "E"),
         [Cond("message", "T", "T") EXCEPT !.regex = TRUE],
         [Cond("message", "F", "F") EXCEPT !.regex = TRUE],
         Cond("body", "T", "F"), Cond("body", "F", "T"), Cond("header", "T", "F")}

(* The malformed date and the expression that does not compile.             *)
Malformed == {c \in Pool : c.val = "E" \/ (c.regex /\ c.val = "F")}

Group(op, cs, gs) == [op |-> op, conds |-> cs, groups |-> gs]

Flat(n) == {Group(op, cs, <<>>) : op \in {"AND", "OR"}, cs \in BoundedSeq(Pool, n)}

Inner == {Group(op, <<c>>, <<>>) : op \in {"AND", "OR"},
                                   c \in {d \in Pool : d.src # "header" /\ ~d.regex}}
         \cup {Group("OR", <<>>, <<>>)}

Nested == {Group(op, cs, gs) : op \in {"AND", "OR"}, cs \in BoundedSeq(Pool, 1),
                               gs \in BoundedSeq(Inner, 2)}

AllLayers == <<Flat(2) \cup Inner, Nested>>

Plain(gs) == [enabled |-> TRUE, groups |-> gs, days |-> {}, start |-> Unset, end |-> Unset]

AnyMoment == [day |-> 0, time |-> 1]
Case(rs) == [rules |-> rs, now |-> AnyMoment]

(* A tree of groups, and a rule on the body after it. *)
Trees == {Case(<<Plain(<<g>>), Plain(<<Group("AND", <<Cond("body", "T", "F")>>, <<>>)>>)>>) :
            g \in Flat(2) \cup Nested}

(* Two groups in a rule. *)
Pairs == {Case(<<Plain(<<g, h>>)>>) : g, h \in Flat(1)}

(* Two small rules, enabled or not, in their schedule or not. *)
Lists == {Case(<<[Plain(<<g>>) EXCEPT !.enabled = x, !.days = d], Plain(<<h>>)>>) :
            g, h \in Flat(1), x \in BOOLEAN, d \in {{}, {1}}}

(* Every schedule at every moment, before a catch-all. *)
Schedules(times) ==
    {[rules |-> <<[Plain(<<>>) EXCEPT !.days = d, !.start = s, !.end = t], Plain(<<>>)>>,
      now |-> m] :
        d \in SUBSET Days, s, t \in times \cup {Unset}, m \in Moments}

(* Schedules as the form writes them. *)
ScheduledCases == Schedules({t \in Written : t.padded})

AllCases == {Case(<<>>)} \cup Trees \cup Pairs \cup Lists \cup ScheduledCases

(* Schedules as validation accepts them, with or without leading zeros.     *)
WrittenSchedules == Schedules(Written)

(* The flat rules a form can store. *)
FormCases == {Case(<<Plain(<<g>>)>>) : g \in Flat(2)}
=============================================================================
