----------------------------- MODULE RulesProofs ----------------------------
(***************************************************************************)
(* Proofs about RulesRepo: the types of tables and requests, the catch-all *)
(* and the lists that ticks read, for any number of requests, rules and    *)
(* names, and anything they may submit.                                    *)
(***************************************************************************)
EXTENDS RulesRepo, FiniteSetTheorems, TLAPS

-----------------------------------------------------------------------------
(* The types of tables and requests. *)

RuleRow == [name : Names \cup {CatchAll}, pri : Nat, enabled : BOOLEAN]
GroupRow == [gid : 1..MaxGid, rule : Ids, op : {"AND", "OR"}]

Request == [pc : Labels, id : Ids \cup {0}, form : Form, given : SUBSET Parts,
            order : Seq(Ids), file : Seq(Form), taken : SUBSET (Names \cup {CatchAll}),
            ids : SUBSET Ids, groups : SUBSET GroupRow, conds : SUBSET (1..MaxGid)]

(* Ids are given out once, so a rule that is gone never comes back.         *)
Given(i) == i \in Ids /\ i < nextId

Tables ==
    /\ \A i \in live : Given(i)
    /\ ruleRows \in [Ids -> RuleRow]
    /\ groups \subseteq GroupRow /\ \A g \in groups : Given(g.rule)
    /\ conds \subseteq 1..MaxGid
    /\ acts \in [Ids -> SUBSET ActionKinds]
    /\ nextId \in 1..(MaxId + 1) /\ nextGid \in 1..(MaxGid + 1)

Reading == {"readGroups", "readConds", "readActs"}

(* A request that is about one rule has its id.                             *)
Knows(q) ==
    /\ req[q].pc \in {"update", "delete"} => Given(req[q].id)
    /\ q \in Mcp \cup Enablers /\ req[q].pc \in Reading => Given(req[q].id)

TypesInv ==
    /\ Tables
    /\ req \in [Requests -> Request]
    /\ \A q \in Requests : Knows(q) /\ (q \notin clients => req[q] = Idle)
    /\ clients \subseteq Requests

-----------------------------------------------------------------------------
(* The catch-all. *)

NamesUnique == \A i, j \in live : ruleRows[i].name = ruleRows[j].name => i = j

(* Rule c comes last, has no groups and moves the mail.                     *)
Catches(c) ==
    /\ \A i \in live \ {c} : Precedes(i, c)
    /\ \A g \in groups : g.rule # c
    /\ "move_to_folder" \in acts[c]

OnlyForms ==
    /\ clients \subseteq Web \cup Ticks
    /\ \A p, q, r \in clients \cap Web : p = q \/ q = r \/ p = r

(* What a form looked up to delete it is not the catch-all by now: the      *)
(* other form cannot give its name to a rule without repairing it first.    *)
CatchInv ==
    OnlyForms =>
        /\ NamesUnique
        /\ Settled => \E c \in CatchAlls : Catches(c)
        /\ \A q \in Web : req[q].pc = "delete" => req[q].id \notin CatchAlls

-----------------------------------------------------------------------------
(* The lists that ticks read. *)

Complete(i) == HasConditions(i, groups, conds)

Proper(f) == f.op # "none" /\ f.name # CatchAll

OnlyComplete ==
    /\ clients \cap (Mcp \cup Enablers) = {}
    /\ \A f \in Forms(clients) : Proper(f)

(* Group ids are given out once.                                            *)
Keys ==
    /\ \A g \in groups : g.gid < nextGid
    /\ \A g, h \in groups : g.gid = h.gid => g = h

(* What a request is about to write is proper, all of it.                   *)
Submits(q) ==
    /\ req[q].pc \in {"create", "update"} => Proper(req[q].form)
    /\ req[q].pc = "update" => req[q].given = Parts
    /\ \A k \in DOMAIN req[q].file : Proper(req[q].file[k])

(* What a tick lists are user rules; the groups it has read are of the      *)
(* past; and whatever rule has these groups still, it has read conditions   *)
(* for.                                                                     *)
Sees(q) ==
    q \in Ticks =>
        /\ req[q].pc \in Reading \cup {"listed"} =>
            \A i \in req[q].ids : Given(i) /\ i \notin CatchAlls
        /\ req[q].pc \in {"readConds", "readActs", "listed"} =>
            \A g \in req[q].groups : g.gid < nextGid
        /\ req[q].pc \in {"readActs", "listed"} =>
            \A i \in req[q].ids :
                Overtaken(q, i) \/ HasConditions(i, req[q].groups, req[q].conds)

(* User rules are complete at all times, so who reads conditions of groups  *)
(* that are still there finds some.                                         *)
ListsInv ==
    OnlyComplete =>
        /\ Keys
        /\ \A i \in live \ CatchAlls : Complete(i)
        /\ \A q \in Requests : Submits(q) /\ Sees(q)

(* A step of the tables: the groups of a user rule stay, or it gets one     *)
(* with an id that is new; no other rule becomes a catch-all, and none that *)
(* is gone comes back.                                                      *)
Steady ==
    /\ Keys' /\ nextGid' \in Nat /\ nextGid' >= nextGid
    /\ \A i \in live' \ CatchAlls' : Complete(i)'
    /\ \A i \in Ids : Given(i) /\ i \notin CatchAlls =>
        /\ Given(i)' /\ i \notin CatchAlls'
        /\ i \in live' => i \in live
        /\ i \in live' => GroupsOf(i)' = GroupsOf(i)
                          \/ \E g \in GroupsOf(i)' : g.gid >= nextGid

-----------------------------------------------------------------------------
(* Finite sets. *)

(* Of finitely many rules one has the highest priority.                     *)
LEMMA HighestExists ==
  ASSUME NEW S, IsFiniteSet(S), S # {}, NEW f \in [S -> Nat]
  PROVE  \E h \in S : \A i \in S : f[i] <= f[h]
  <1> DEFINE Above(i) == {j \in S : f[j] > f[i]}
             T == {Above(i) : i \in S}
  <1>1. IsWellFoundedOn(StrictSubsetOrdering(S), SUBSET S)
    BY FS_StrictSubsetOrderingWellFounded, FS_FiniteSubsetsOfFinite
  <1>2. T \subseteq SUBSET S /\ T # {}
    <2>1. T \subseteq SUBSET S
      OBVIOUS
    <2>2. PICK i \in S : TRUE
      OBVIOUS
    <2>3. Above(i) \in T
      BY <2>2
    <2> QED BY <2>1, <2>3
  <1> HIDE DEF T
  <1>3. PICK x \in T : \A y \in T : ~(<<y, x>> \in StrictSubsetOrdering(S))
    BY <1>1, <1>2, WFMin
  <1>4. PICK h \in S : x = Above(h)
    BY <1>3 DEF T
  <1>5. ASSUME NEW i \in S, f[i] > f[h]
        PROVE  FALSE
    <2>1. Above(i) \in T /\ Above(i) \in SUBSET S /\ Above(h) \in SUBSET S
      BY DEF T
    <2>2. Above(i) \subseteq Above(h) /\ i \in Above(h) /\ i \notin Above(i)
      BY <1>5
    <2>3. <<Above(i), Above(h)>> \in StrictSubsetOrdering(S)
      BY <2>1, <2>2 DEF StrictSubsetOrdering
    <2> QED BY <1>3, <1>4, <2>1, <2>3
  <1> QED BY <1>5

(* The maximum with 0 that priorities are counted from.                     *)
LEMMA MaxFact ==
  ASSUME NEW S, IsFiniteSet(S), NEW f \in [S -> Nat],
         NEW m, m = Max({0} \cup {f[i] : i \in S})
  PROVE  m \in Nat /\ \A i \in S : f[i] <= m
  <1> DEFINE M == {0} \cup {f[i] : i \in S}
  <1>1. M \subseteq Nat
    OBVIOUS
  <1>2. \E x \in M : \A y \in M : x >= y
    <2>1. CASE S = {}
      BY <2>1
    <2>2. CASE S # {}
      <3>1. PICK h \in S : \A i \in S : f[i] <= f[h]
        BY <2>2, HighestExists
      <3>2. f[h] \in M /\ f[h] \in Nat
        OBVIOUS
      <3>3. ASSUME NEW y \in M
            PROVE  f[h] >= y
        BY <3>1, <3>2, <3>3
      <3> QED BY <3>2, <3>3
    <2> QED BY <2>1, <2>2
  <1>3. m \in M /\ \A y \in M : m >= y
    <2> HIDE DEF M
    <2>1. m = CHOOSE x \in M : \A y \in M : x >= y
      BY DEF Max, M
    <2> QED BY <1>2, <2>1
  <1>4. \A i \in S : f[i] \in M
    OBVIOUS
  <1> QED BY <1>1, <1>3, <1>4

(* The rows of the rules are finitely many.                                 *)
LEMMA LiveFinite ==
  ASSUME live \subseteq Ids, NEW S, S \subseteq live
  PROVE  IsFiniteSet(S) /\ Cardinality(S) \in Nat
  <1>1. IsFiniteSet(Ids)
    BY FS_Interval, RulesAssumption DEF Ids
  <1>2. S \in SUBSET Ids
    OBVIOUS
  <1>3. IsFiniteSet(S)
    BY <1>1, <1>2, FS_Subset
  <1> QED BY <1>3, FS_CardinalityType

(* The highest priority of some rules bounds theirs.                       *)
LEMMA MaxPriorityFact ==
  ASSUME Tables, NEW S, S \subseteq live
  PROVE  MaxPriority(S) \in Nat /\ \A i \in S : ruleRows[i].pri <= MaxPriority(S)
  <1> DEFINE f == [i \in S |-> ruleRows[i].pri]
  <1>1. f \in [S -> Nat] /\ \A i \in S : f[i] = ruleRows[i].pri
    BY DEF Tables, Given, RuleRow
  <1>2. {f[i] : i \in S} = {ruleRows[i].pri : i \in S}
    BY <1>1
  <1> HIDE DEF f
  <1>3. MaxPriority(S) = Max({0} \cup {f[i] : i \in S})
    BY <1>2 DEF MaxPriority
  <1>4. IsFiniteSet(S)
    BY LiveFinite DEF Tables, Given
  <1> QED BY <1>1, <1>3, <1>4, MaxFact

(* List's order is total on the rules.                                      *)
LEMMA PrecedesFact ==
  ASSUME Tables, NEW i \in live, NEW j \in live
  PROVE  /\ Precedes(i, j) \/ Precedes(j, i) \/ i = j
         /\ ~Precedes(i, i)
         /\ \A k \in live : Precedes(i, j) /\ Precedes(j, k) => Precedes(i, k)
  <1>1. \A k \in live : ruleRows[k].pri \in Nat /\ k \in Nat
    BY RulesAssumption DEF Tables, Given, RuleRow, Ids
  <1> QED BY <1>1 DEF Precedes

(* So the rules can be listed in it, which is what ListOrder chooses.       *)
LEMMA ListOrderFact ==
  ASSUME Tables
  PROVE  /\ Cardinality(live) \in Nat
         /\ ListOrder \in [1..Cardinality(live) -> live]
  <1> DEFINE n == Cardinality(live)
             before == [i \in live |-> {j \in live : Precedes(j, i)}]
             rank == [i \in live |-> Cardinality(before[i]) + 1]
  <1>1. IsFiniteSet(live) /\ n \in Nat
    BY LiveFinite DEF Tables, Given
  <1>2. ASSUME NEW i \in live
        PROVE  /\ before[i] \in SUBSET live /\ i \notin before[i]
               /\ IsFiniteSet(before[i]) /\ Cardinality(before[i]) \in Nat
               /\ rank[i] \in 1..n
    <2>1. before[i] \in SUBSET live /\ i \notin before[i]
      BY PrecedesFact
    <2>2. IsFiniteSet(before[i]) /\ Cardinality(before[i]) <= n /\ (n = Cardinality(before[i]) => live = before[i])
      BY <1>1, <2>1, FS_Subset
    <2>3. Cardinality(before[i]) \in Nat
      BY <2>2, FS_CardinalityType
    <2>4. Cardinality(before[i]) # n
      BY <2>1, <2>2
    <2> QED BY <1>1, <2>1, <2>2, <2>3, <2>4
  <1>3. ASSUME NEW i \in live, NEW j \in live, Precedes(i, j)
        PROVE  rank[i] < rank[j]
    <2>1. before[i] \subseteq before[j]
      BY <1>3, PrecedesFact
    <2>2. i \in before[j] /\ i \notin before[i]
      BY <1>2, <1>3
    <2>3. Cardinality(before[i]) <= Cardinality(before[j])
          /\ (Cardinality(before[j]) = Cardinality(before[i]) => before[j] = before[i])
      BY <1>2, <2>1, FS_Subset
    <2> QED BY <1>2, <2>2, <2>3
  <1>4. rank \in Injection(live, 1..n)
    <2>1. rank \in [live -> 1..n]
      BY <1>2
    <2>2. ASSUME NEW i \in live, NEW j \in live, rank[i] = rank[j]
          PROVE  i = j
      <3> HIDE DEF rank, before
      <3>1. rank[i] \in Nat /\ rank[j] \in Nat
        BY <1>1, <1>2
      <3> QED BY <1>3, <2>2, <3>1, PrecedesFact
    <2> HIDE DEF rank
    <2> QED BY <2>1, <2>2 DEF Injection, IsInjective
  <1>5. rank \in Surjection(live, 1..n)
    <2>1. IsFiniteSet(1..n) /\ Cardinality(1..n) = n
      BY <1>1, FS_Interval
    <2> HIDE DEF rank
    <2> QED BY <1>4, <2>1, FS_Injection
  <1> HIDE DEF rank, before
  <1> DEFINE s == [k \in 1..n |-> CHOOSE i \in live : rank[i] = k]
  <1>6. ASSUME NEW k \in 1..n
        PROVE  s[k] \in live /\ rank[s[k]] = k
    <2>1. \E i \in live : rank[i] = k
      BY <1>5 DEF Surjection
    <2> QED BY <2>1
  <1>7. s \in [1..n -> live] /\ DOMAIN s = 1..n
    BY <1>6
  <1> HIDE DEF s
  <1>8. s \in Orders /\ Len(s) = n
    <2>1. \A j, k \in DOMAIN s : s[j] = s[k] => j = k
      BY <1>6, <1>7
    <2>2. s \in UNION {[1..m -> live] : m \in 0..n}
      BY <1>1, <1>7
    <2> QED BY <1>1, <1>7, <2>1, <2>2 DEF Orders
  <1>9. \A j, k \in DOMAIN s : j < k => Precedes(s[j], s[k])
    <2> SUFFICES ASSUME NEW j \in 1..n, NEW k \in 1..n, j < k
                 PROVE  Precedes(s[j], s[k])
      BY <1>7
    <2>1. s[j] \in live /\ s[k] \in live /\ rank[s[j]] = j /\ rank[s[k]] = k
      BY <1>6
    <2>2. ~Precedes(s[k], s[j]) /\ s[j] # s[k]
      BY <1>1, <1>3, <2>1
    <2> QED BY <2>1, <2>2, PrecedesFact
  <1>10. \E r \in Orders : /\ Len(r) = n
                           /\ \A j, k \in DOMAIN r : j < k => Precedes(r[j], r[k])
    BY <1>8, <1>9
  <1>11. ListOrder \in Orders /\ Len(ListOrder) = n
    BY <1>10 DEF ListOrder
  <1>12. PICK m \in 0..n : ListOrder \in [1..m -> live]
    BY <1>1, <1>11 DEF Orders
  <1>13. m = n
    BY <1>11, <1>12
  <1> QED BY <1>1, <1>12, <1>13

-----------------------------------------------------------------------------
(* The transactions keep the types. *)

(* What requests submit, and the rows made of it, have their types.        *)
LEMMA FormFact ==
  /\ NoForm \in Form
  /\ \A C \in SUBSET Requests : \A f \in Forms(C) : f \in Form
  /\ \A f \in Form : Row(f) \in RuleRow
  /\ NoRow \in RuleRow
  BY RulesAssumption DEF NoForm, Form, Operators, ActionKinds, Row, RuleRow, NoRow

(* Groups, conditions and actions that are saved have their types.         *)
LEMMA SaveChildrenTypes ==
  ASSUME Tables, NEW i \in Ids, NEW form \in Form, NEW full, SaveChildren(i, form, full)
  PROVE  /\ groups' \subseteq GroupRow /\ conds' \subseteq 1..MaxGid
         /\ \A g \in groups' : Given(g.rule) \/ g.rule = i
         /\ acts' \in [Ids -> SUBSET ActionKinds]
         /\ nextGid' \in 1..(MaxGid + 1)
  <1>1. acts' \in [Ids -> SUBSET ActionKinds]
    <2>1. form.acts \in SUBSET ActionKinds
      BY DEF Form
    <2> QED BY <2>1 DEF SaveChildren, Tables
  <1>2. CASE form.op = "none"
    BY <1>1, <1>2 DEF SaveChildren, DropGroups, Tables
  <1>3. CASE form.op # "none"
    <2>1. nextGid \in 1..MaxGid /\ nextGid' = nextGid + 1 /\ MaxGid \in Nat
      BY <1>3, RulesAssumption DEF SaveChildren, Tables
    <2>2. [gid |-> nextGid, rule |-> i, op |-> form.op] \in GroupRow
      BY <1>3, <2>1 DEF GroupRow, Form, Operators
    <2>3. /\ groups' \subseteq groups \cup {[gid |-> nextGid, rule |-> i, op |-> form.op]}
          /\ conds' \subseteq conds \cup {nextGid}
      BY <1>3 DEF SaveChildren
    <2> QED BY <1>1, <2>1, <2>2, <2>3 DEF Tables
  <1> QED BY <1>2, <1>3

(* A new rule gets an id that no rule ever had.                            *)
LEMMA CreateTypes ==
  ASSUME Tables, NEW form \in Form, Create(form)
  PROVE  Tables' /\ nextId' >= nextId
  <1>1. nextId \in Ids /\ nextId' = nextId + 1 /\ MaxId \in Nat
    BY RulesAssumption DEF Create, Tables, Ids
  <1>2. /\ groups' \subseteq GroupRow /\ conds' \subseteq 1..MaxGid
        /\ \A g \in groups' : Given(g.rule) \/ g.rule = nextId
        /\ acts' \in [Ids -> SUBSET ActionKinds]
        /\ nextGid' \in 1..(MaxGid + 1)
    BY <1>1, SaveChildrenTypes DEF Create
  <1>3. ruleRows' \in [Ids -> RuleRow]
    BY FormFact DEF Create, Tables
  <1>4. /\ nextId' \in 1..(MaxId + 1)
        /\ \A i : Given(i) => Given(i)'
    BY <1>1 DEF Tables, Ids, Given
  <1>5. nextId \in Ids /\ nextId < nextId'
    BY <1>1 DEF Ids
  <1>6. \A i \in live' : Given(i)'
    BY <1>4, <1>5 DEF Create, Tables, Given
  <1>7. \A g \in groups' : Given(g.rule)'
    BY <1>2, <1>4, <1>5 DEF Given
  <1>8. nextId' >= nextId
    BY <1>1 DEF Ids
  <1> QED BY <1>2, <1>3, <1>4, <1>6, <1>7, <1>8 DEF Tables

(* An update writes a row and children of a rule that once was given out.  *)
LEMMA UpdateTypes ==
  ASSUME Tables, NEW i, Given(i), NEW form \in Form, NEW full,
         Update(i, form, full)
  PROVE  Tables'
  <1>1. SaveChildren(i, form, full) /\ UNCHANGED <<live, nextId>>
    BY DEF Update
  <1>2. ruleRows' \in [Ids -> RuleRow]
    BY FormFact DEF Update, Tables
  <1> QED BY <1>1, <1>2, SaveChildrenTypes DEF Tables, Given

(* A deletion leaves rows of the types there were.                         *)
LEMMA DeleteTypes ==
  ASSUME Tables, NEW i, Given(i), Delete(i)
  PROVE  Tables'
  <1>1. /\ ruleRows' \in [Ids -> RuleRow]
        /\ live' \subseteq live /\ UNCHANGED <<nextId, nextGid>>
    BY FormFact DEF Delete, Tables
  <1>2. /\ groups' \subseteq groups /\ conds' \subseteq conds
        /\ acts' \in [Ids -> SUBSET ActionKinds]
    BY DEF Delete, DropGroups, Tables
  <1> QED BY <1>1, <1>2 DEF Tables, Given

(* The places of rules in an order, and the priority behind them all.       *)
LEMMA ReorderFact ==
  ASSUME Tables, NEW ids, NEW n \in Nat, DOMAIN ids = 1..n, Reorder(ids)
  PROVE  /\ UNCHANGED <<live, groups, conds, acts, nextId, nextGid>>
         /\ ruleRows' \in [Ids -> RuleRow]
         /\ \A i \in Ids : ruleRows'[i].name = ruleRows[i].name
         /\ \A c \in CatchAlls : \A i \in live \ CatchAlls : ruleRows'[i].pri < ruleRows'[c].pri
  <1> DEFINE at(i) == CHOOSE k \in DOMAIN ids : ids[k] = i
             pri(i) == IF \E k \in DOMAIN ids : ids[k] = i THEN at(i) - 1 ELSE ruleRows[i].pri
             S == live \ CatchAlls
             f == [i \in S |-> pri(i)]
             max == Max({0} \cup {pri(i) : i \in S})
  <1>1. ruleRows' = [i \in Ids |->
                    IF i \notin live THEN ruleRows[i]
                    ELSE [ruleRows[i] EXCEPT !.pri = IF i \in CatchAlls THEN max + 1 ELSE pri(i)]]
    BY DEF Reorder
  <1>2. UNCHANGED <<live, groups, conds, acts, nextId, nextGid>>
    BY DEF Reorder
  <1>3. ASSUME NEW i \in Ids
        PROVE  pri(i) \in Nat
    <2>1. ruleRows[i].pri \in Nat
      BY DEF Tables, RuleRow
    <2>2. ASSUME NEW k \in DOMAIN ids, ids[k] = i
          PROVE  at(i) - 1 \in Nat
      <3>1. at(i) \in DOMAIN ids
        BY <2>2
      <3> HIDE DEF at
      <3> QED BY <3>1
    <2> QED BY <2>1, <2>2
  <1> HIDE DEF pri
  <1>4. f \in [S -> Nat] /\ \A i \in S : f[i] = pri(i)
    BY <1>3 DEF Tables, Given
  <1> HIDE DEF f
  <1>5. {f[i] : i \in S} = {pri(i) : i \in S}
    BY <1>4
  <1>6. max = Max({0} \cup {f[i] : i \in S}) /\ IsFiniteSet(S)
    BY <1>5, LiveFinite DEF Tables, Given
  <1> HIDE DEF max
  <1>7. max \in Nat /\ \A i \in S : pri(i) <= max
    BY <1>4, <1>6, MaxFact
  <1>8. \A i \in Ids : ruleRows[i] \in RuleRow
    BY DEF Tables
  <1>9. ASSUME NEW i \in Ids
        PROVE  /\ ruleRows'[i] \in RuleRow /\ ruleRows'[i].name = ruleRows[i].name
               /\ i \in live => ruleRows'[i].pri = IF i \in CatchAlls THEN max + 1 ELSE pri(i)
    <2> DEFINE p == IF i \in CatchAlls THEN max + 1 ELSE pri(i)
    <2>1. p \in Nat
      BY <1>3, <1>7
    <2>2. ruleRows'[i] = IF i \notin live THEN ruleRows[i] ELSE [ruleRows[i] EXCEPT !.pri = p]
      BY <1>1
    <2> HIDE DEF p
    <2>3. /\ ruleRows'[i] \in RuleRow /\ ruleRows'[i].name = ruleRows[i].name
          /\ i \in live => ruleRows'[i].pri = p
      BY <1>8, <2>1, <2>2 DEF RuleRow
    <2> QED BY <2>3 DEF p
  <1>10. ruleRows' \in [Ids -> RuleRow]
    <2>1. DOMAIN ruleRows' = Ids /\ ruleRows' = [i \in Ids |-> ruleRows'[i]]
      BY <1>1
    <2> QED BY <1>9, <2>1
  <1>11. ASSUME NEW c \in CatchAlls, NEW i \in live \ CatchAlls
         PROVE  ruleRows'[i].pri < ruleRows'[c].pri
    <2>1. c \in live /\ c \in Ids /\ i \in live /\ i \in Ids
      BY DEF CatchAlls, Tables, Given
    <2>2. ruleRows'[i].pri = pri(i) /\ ruleRows'[c].pri = max + 1
      BY <1>9, <1>11, <2>1
    <2> QED BY <1>3, <1>7, <1>11, <2>1, <2>2
  <1> QED BY <1>2, <1>9, <1>10, <1>11

(* EnsureCatchAll, whatever it finds, leaves one catch-all that catches.    *)
LEMMA EnsureFact ==
  ASSUME Tables, EnsureCatchAll
  PROVE  /\ Tables'
         /\ nextId' >= nextId /\ live \subseteq live' /\ live' \subseteq live \cup {nextId}
         /\ \A i \in live : ruleRows'[i].name = ruleRows[i].name
         /\ NamesUnique => NamesUnique' /\ \E c \in CatchAlls' : Catches(c)'
  <1>1. CASE CatchAlls # {}
    <2> DEFINE top == MaxPriority(live \ CatchAlls) + 1
    <2>1. /\ ruleRows' = [i \in Ids |-> IF i \in CatchAlls THEN [ruleRows[i] EXCEPT !.pri = top]
                                     ELSE ruleRows[i]]
          /\ DropGroups(CatchAlls)
          /\ acts' = [i \in Ids |-> IF i \in CatchAlls THEN acts[i] \cup {"move_to_folder"}
                                    ELSE acts[i]]
          /\ UNCHANGED <<live, nextId, nextGid>>
      BY <1>1 DEF EnsureCatchAll
    <2>2. top \in Nat /\ \A i \in live \ CatchAlls : ruleRows[i].pri < top
      <3> DEFINE S == live \ CatchAlls
                 m == MaxPriority(S)
      <3>1. S \subseteq live
        OBVIOUS
      <3> HIDE DEF S
      <3>2. m \in Nat /\ \A i \in S : ruleRows[i].pri <= m
        BY <3>1, MaxPriorityFact
      <3>3. \A i \in S : ruleRows[i].pri \in Nat
        BY <3>1 DEF Tables, Given, RuleRow
      <3> HIDE DEF m
      <3>4. m + 1 \in Nat /\ \A i \in S : ruleRows[i].pri < m + 1
        BY <3>2, <3>3
      <3> QED BY <3>4 DEF m, S
    <2> HIDE DEF top
    <2>3. ASSUME NEW i \in Ids
          PROVE  /\ ruleRows'[i] \in RuleRow /\ ruleRows'[i].name = ruleRows[i].name
                 /\ ruleRows'[i].pri = IF i \in CatchAlls THEN top ELSE ruleRows[i].pri
      <3>1. ruleRows[i] \in RuleRow
        BY DEF Tables
      <3> QED BY <2>1, <2>2, <3>1 DEF RuleRow
    <2>4. ruleRows' \in [Ids -> RuleRow] /\ acts' \in [Ids -> SUBSET ActionKinds]
      <3>1. ruleRows' = [i \in Ids |-> ruleRows'[i]]
        BY <2>1
      <3>2. "move_to_folder" \in ActionKinds
        BY DEF ActionKinds
      <3> QED BY <2>1, <2>3, <3>1, <3>2 DEF Tables
    <2>5. /\ groups' \subseteq groups /\ conds' \subseteq conds
          /\ \A g \in groups' : g.rule \notin CatchAlls
      BY <2>1 DEF DropGroups
    <2>6. Tables'
      BY <2>1, <2>4, <2>5 DEF Tables, Given
    <2>7. \A i \in live : i \in Ids
      BY DEF Tables, Given
    <2>8. ASSUME NamesUnique
          PROVE  NamesUnique' /\ \E c \in CatchAlls' : Catches(c)'
      <3>1. PICK c \in CatchAlls : TRUE
        BY <1>1
      <3>2. c \in live /\ c \in Ids /\ ruleRows[c].name = CatchAll
        BY <2>7 DEF CatchAlls
      <3>3. c \in CatchAlls'
        BY <2>1, <2>3, <3>2 DEF CatchAlls
      <3>4. ASSUME NEW i \in live \ {c}
            PROVE  Precedes(i, c)'
        <4>1. i \notin CatchAlls
          BY <2>8, <3>2 DEF NamesUnique, CatchAlls
        <4>2. ruleRows'[i].pri < ruleRows'[c].pri
          BY <2>2, <2>3, <2>7, <3>1, <3>2, <4>1
        <4> QED BY <4>2 DEF Precedes
      <3>5. \A g \in groups' : g.rule # c
        BY <2>5
      <3>6. "move_to_folder" \in acts'[c]
        BY <2>1, <3>1, <3>2
      <3>7. Catches(c)'
        BY <2>1, <3>4, <3>5, <3>6 DEF Catches
      <3>8. NamesUnique'
        BY <2>1, <2>3, <2>7, <2>8 DEF NamesUnique
      <3> QED BY <3>3, <3>7, <3>8
    <2> QED BY <2>1, <2>3, <2>6, <2>7, <2>8 DEF Tables
  <1>2. CASE CatchAlls = {}
    <2> DEFINE p == IF live = {} THEN 999 ELSE MaxPriority(live) + 1
               row == [name |-> CatchAll, enabled |-> TRUE, pri |-> p]
    <2>1. /\ nextId <= MaxId /\ live' = live \cup {nextId}
          /\ ruleRows' = [ruleRows EXCEPT ![nextId] = row]
          /\ acts' = [acts EXCEPT ![nextId] = {"move_to_folder"}]
          /\ nextId' = nextId + 1
          /\ UNCHANGED <<groups, conds, nextGid>>
      BY <1>2 DEF EnsureCatchAll
    <2>2. p \in Nat /\ \A i \in live : ruleRows[i].pri < p
      <3>1. /\ MaxPriority(live) \in Nat
            /\ \A i \in live : ruleRows[i].pri <= MaxPriority(live)
        BY MaxPriorityFact
      <3>2. \A i \in live : ruleRows[i].pri \in Nat
        BY DEF Tables, Given, RuleRow
      <3> QED BY <3>1, <3>2
    <2> HIDE DEF p
    <2>3. row \in RuleRow /\ row.name = CatchAll /\ row.pri = p
      BY <2>2 DEF RuleRow
    <2> HIDE DEF row
    <2>4. nextId \in Ids /\ nextId \in Nat /\ nextId' \in 1..(MaxId + 1)
      BY <2>1, RulesAssumption DEF Tables, Ids
    <2>5. \A i : Given(i) => i \in Ids /\ i # nextId /\ i < nextId'
      BY <2>1, <2>4, RulesAssumption DEF Given, Ids
    <2>6. /\ ruleRows'[nextId] = row /\ \A i \in Ids : i # nextId => ruleRows'[i] = ruleRows[i]
          /\ ruleRows' \in [Ids -> RuleRow]
      BY <2>1, <2>3, <2>4 DEF Tables
    <2>7. /\ acts'[nextId] = {"move_to_folder"}
          /\ acts' \in [Ids -> SUBSET ActionKinds]
      BY <2>1, <2>4 DEF Tables, ActionKinds
    <2>8. \A i \in live' : Given(i)'
      BY <2>1, <2>4, <2>5 DEF Tables, Given
    <2>9. \A g \in groups' : Given(g.rule)'
      BY <2>1, <2>5 DEF Tables, Given
    <2>10. Tables'
      BY <2>1, <2>4, <2>6, <2>7, <2>8, <2>9 DEF Tables
    <2>11. \A i \in live : i \in Ids /\ i # nextId
      BY <2>5 DEF Tables
    <2>12. nextId \in CatchAlls'
      BY <2>1, <2>3, <2>6 DEF CatchAlls
    <2>13. ASSUME NEW c, c = nextId
           PROVE  Catches(c)'
      <3>1. \A i \in live' \ {c} : ruleRows'[i].pri < ruleRows'[c].pri
        BY <2>1, <2>2, <2>3, <2>6, <2>11, <2>13
      <3>2. \A g \in groups' : g.rule # c
        BY <2>1, <2>5, <2>13 DEF Tables
      <3> QED BY <2>7, <2>13, <3>1, <3>2 DEF Catches, Precedes
    <2>14. NamesUnique => NamesUnique'
      <3>1. \A i \in live : ruleRows[i].name # CatchAll
        BY <1>2 DEF CatchAlls
      <3> QED BY <2>1, <2>3, <2>6, <2>11, <3>1 DEF NamesUnique
    <2>15. \A i \in live : ruleRows'[i].name = ruleRows[i].name
      BY <2>6, <2>11
    <2>16. nextId' >= nextId /\ live \subseteq live' /\ live' \subseteq live \cup {nextId}
      BY <2>1, <2>4
    <2> QED BY <2>10, <2>12, <2>13, <2>14, <2>15, <2>16
  <1> QED BY <1>1, <1>2 DEF EnsureCatchAll
-----------------------------------------------------------------------------
(* Requests keep the types. *)

(* A request that is done, or has not begun.                                *)
LEMMA IdleFact ==
  /\ Idle \in Request /\ Idle.pc = "idle"
  /\ [Idle EXCEPT !.pc = "ensure"] \in Request
  /\ [Idle EXCEPT !.pc = "ensure"].pc = "ensure"
  <1>1. <<>> \in Seq(Ids) /\ <<>> \in Seq(Form)
    OBVIOUS
  <1> QED BY <1>1, FormFact DEF Idle, Request, Labels, Parts

(* Nothing happens to the tables.                                           *)
LEMMA SameTables ==
  ASSUME Tables, UNCHANGED tables
  PROVE  Tables' /\ nextId' = nextId /\ nextId' >= nextId
  BY RulesAssumption DEF Tables, tables, Given

(* A request goes on as o, in tables that have their types.                 *)
LEMMA BecomeTypes ==
  ASSUME TypesInv, UNCHANGED clients, Tables', nextId' >= nextId,
         NEW q \in clients, NEW o, o \in Request, Become(q, o),
         o.pc \in {"update", "delete"} \/ (q \in Mcp \cup Enablers /\ o.pc \in Reading)
            => o.id \in Ids /\ o.id < nextId'
  PROVE  TypesInv'
  <1>1. q \in Requests /\ clients' = clients
    BY DEF TypesInv
  <1>2. req' \in [Requests -> Request] /\ req'[q] = o
        /\ \A p \in Requests : p # q => req'[p] = req[p]
    BY <1>1 DEF TypesInv, Become
  <1>3. \A i : Given(i) => Given(i)'
    BY RulesAssumption DEF Given, Tables, Ids, TypesInv
  <1>4. ASSUME NEW p \in Requests
        PROVE  Knows(p)' /\ (p \notin clients' => req'[p] = Idle)
    <2>1. CASE p = q
      BY <1>1, <1>2, <2>1 DEF Knows, Given
    <2>2. CASE p # q
      <3>1. req'[p] = req[p] /\ Knows(p) /\ (p \notin clients => req[p] = Idle)
        BY <1>2, <2>2 DEF TypesInv
      <3> QED BY <1>1, <1>3, <3>1 DEF Knows
    <2> QED BY <2>1, <2>2
  <1> QED BY <1>1, <1>2, <1>4 DEF TypesInv

(* A request ends.                                                          *)
LEMMA EndTypes ==
  ASSUME TypesInv, UNCHANGED clients, Tables', nextId' >= nextId,
         NEW q \in clients, Become(q, Idle) \/ Become(q, AfterWrite(q))
  PROVE  TypesInv'
  <1>1. CASE Become(q, Idle)
    BY <1>1, IdleFact, BecomeTypes DEF Reading
  <1>2. CASE Become(q, AfterWrite(q))
    BY <1>2, IdleFact, BecomeTypes DEF Reading, AfterWrite
  <1> QED BY <1>1, <1>2

(* A request takes effect at once.                                          *)
LEMMA StayTypes ==
  ASSUME TypesInv, UNCHANGED clients, Tables', nextId' >= nextId, UNCHANGED req
  PROVE  TypesInv'
  <1>1. \A i : Given(i) => Given(i)'
    BY RulesAssumption DEF Given, Tables, Ids, TypesInv
  <1> QED BY <1>1 DEF TypesInv, Knows

(* A form that is to be written, whatever its name, priority and switch     *)
(* are set to.                                                              *)
LEMMA FormWith ==
  ASSUME NEW f, f \in Form, NEW n \in Names \cup {CatchAll}, NEW p \in Nat, NEW e \in BOOLEAN
  PROVE  /\ [f EXCEPT !.pri = p] \in Form
         /\ [f EXCEPT !.pri = p, !.enabled = e] \in Form
         /\ [f EXCEPT !.name = n] \in Form
         /\ [f EXCEPT !.name = n, !.pri = p, !.enabled = e] \in Form
  BY DEF Form

(* The requests that read whole rules.                                      *)
LEMMA ReadTypes ==
  ASSUME TypesInv, UNCHANGED clients, NEW q \in clients, ReadStep(q)
  PROVE  TypesInv'
  <1>1. q \in Requests /\ req[q] \in Request /\ Tables /\ Knows(q)
    BY DEF TypesInv
  <1>2. Tables' /\ nextId' = nextId /\ nextId' >= nextId
    BY <1>1, SameTables DEF ReadStep, ReadGroups, ReadConditions, ReadActions, Reads
  <1>3. \A g \in groups : g \in GroupRow
    BY <1>1 DEF Tables
  <1>4. CASE ReadGroups(q)
    <2> DEFINE gs == {g \in groups : g.rule \in req[q].ids}
               o == [[req[q] EXCEPT !.groups = gs] EXCEPT !.pc = "readConds"]
    <2>1. gs \in SUBSET GroupRow
      BY <1>3
    <2> HIDE DEF gs
    <2>2. o \in Request /\ o.pc = "readConds" /\ o.id = req[q].id
      BY <1>1, <2>1 DEF Request, Labels
    <2>3. Become(q, o) /\ req[q].pc = "readGroups"
      BY <1>4 DEF ReadGroups, Reads, gs
    <2> HIDE DEF o
    <2> QED BY <1>1, <1>2, <2>2, <2>3, BecomeTypes DEF Knows, Reading, Given
  <1>5. CASE ReadConditions(q)
    <2> DEFINE asked == IF q \in Ticks THEN conds
                        ELSE conds \cap {g.gid : g \in {h \in groups : h.rule = req[q].id}}
               cs == {g.gid : g \in req[q].groups} \cap asked
               o == [[req[q] EXCEPT !.conds = cs] EXCEPT !.pc = "readActs"]
    <2>1. cs \in SUBSET (1..MaxGid)
      BY <1>1 DEF Tables
    <2>2. Become(q, o) /\ req[q].pc = "readConds"
      BY <1>5 DEF ReadConditions, Reads
    <2> HIDE DEF cs
    <2>3. o \in Request /\ o.pc = "readActs" /\ o.id = req[q].id
      BY <1>1, <2>1 DEF Request, Labels
    <2> HIDE DEF o
    <2> QED BY <1>1, <1>2, <2>2, <2>3, BecomeTypes DEF Knows, Reading, Given
  <1>6. CASE ReadActions(q)
    <2>1. CASE q \in Ticks /\ Reads(q, "readActs", "listed", req[q])
      <3> DEFINE o == [req[q] EXCEPT !.pc = "listed"]
      <3>1. o \in Request /\ o.pc = "listed"
        BY <1>1 DEF Request, Labels
      <3>2. Become(q, o)
        BY <2>1 DEF Reads
      <3> HIDE DEF o
      <3> QED BY <1>2, <3>1, <3>2, BecomeTypes DEF Reading
    <2>2. CASE ~(q \in Ticks /\ Reads(q, "readActs", "listed", req[q]))
      <3> DEFINE op == IF req[q].groups = {} THEN "none"
                       ELSE (CHOOSE g \in req[q].groups : TRUE).op
                 as == IF "actions" \in req[q].given THEN req[q].form.acts ELSE acts[req[q].id]
                 fop == IF "conditions" \in req[q].given THEN req[q].form.op ELSE op
                 o == [[req[q] EXCEPT !.groups = {}, !.ids = {},
                                      !.form.acts = IF "actions" \in req[q].given THEN @
                                                    ELSE acts[req[q].id],
                                      !.form.op = IF "conditions" \in req[q].given THEN @
                                                  ELSE op]
                         EXCEPT !.pc = "update"]
      <3>1. q \in Mcp \cup Enablers /\ req[q].pc = "readActs" /\ Become(q, o)
        BY <1>6, <2>2 DEF ReadActions, Reads
      <3>2. Given(req[q].id) /\ req[q].id \in Ids /\ req[q].id < nextId
        BY <1>1, <3>1 DEF Knows, Reading, Given
      <3>3. req[q].form \in Form /\ req[q].groups \in SUBSET GroupRow
        BY <1>1 DEF Request
      <3>4. op \in Operators
        <4>1. CASE req[q].groups = {}
          BY <4>1 DEF Operators
        <4>2. CASE req[q].groups # {}
          <5> DEFINE g == CHOOSE g \in req[q].groups : TRUE
          <5>1. g \in GroupRow
            BY <3>3, <4>2
          <5>2. op = g.op
            BY <4>2
          <5> HIDE DEF g, op
          <5> QED BY <5>1, <5>2 DEF GroupRow, Operators
        <4> QED BY <4>1, <4>2
      <3>5. as \in SUBSET ActionKinds
        BY <1>1, <3>2, <3>3 DEF Tables, Form
      <3> HIDE DEF op
      <3>6. fop \in Operators
        BY <3>3, <3>4 DEF Form
      <3> DEFINE f == [req[q].form EXCEPT !.acts = as, !.op = fop]
                 p == [req[q] EXCEPT !.pc = "update", !.groups = {}, !.ids = {}, !.form = f]
      <3>7. o = p
        BY <1>1, <3>3 DEF Request, Form
      <3> HIDE DEF o, as, fop
      <3>8. f \in Form
        BY <3>3, <3>5, <3>6 DEF Form
      <3> HIDE DEF f
      <3>9. p \in Request /\ p.pc = "update" /\ p.id = req[q].id
        BY <1>1, <3>8 DEF Request, Labels
      <3> HIDE DEF p
      <3> QED BY <1>2, <3>1, <3>2, <3>7, <3>9, BecomeTypes
    <2> QED BY <2>1, <2>2
  <1> QED BY <1>4, <1>5, <1>6 DEF ReadStep
(* A request starts, having looked at the tables.                           *)
LEMMA StartTypes ==
  ASSUME TypesInv, UNCHANGED clients, NEW q \in clients, NEW o, o \in Request, Starts(q, o),
         o.pc \in {"update", "delete"} \/ (q \in Mcp \cup Enablers /\ o.pc \in Reading)
            => o.id \in Ids /\ o.id < nextId
  PROVE  TypesInv'
  <1>1. Tables' /\ nextId' = nextId /\ nextId' >= nextId
    BY SameTables DEF Starts, TypesInv
  <1> QED BY <1>1, BecomeTypes DEF Starts

(* A request that writes a form has one, and its id.                        *)
LEMMA WritesFact ==
  ASSUME TypesInv, NEW q \in clients
  PROVE  /\ q \in Requests /\ req[q] \in Request /\ Tables /\ clients \in SUBSET Requests
         /\ req[q].form \in Form
         /\ req[q].pc \in {"update", "delete"} =>
              req[q].id \in Ids /\ req[q].id < nextId /\ Given(req[q].id)
         /\ \A f \in Forms(clients) : f \in Form
         /\ \A i \in live : i \in Ids /\ i < nextId /\ ruleRows[i] \in RuleRow
         /\ Cardinality(live \ CatchAlls) \in Nat /\ 0 \in Nat /\ 1 \in Nat
  <1>1. live \subseteq Ids /\ live \ CatchAlls \subseteq live
    BY DEF TypesInv, Tables, Given
  <1>2. Cardinality(live \ CatchAlls) \in Nat
    BY <1>1, LiveFinite
  <1> QED BY <1>2, FormFact DEF TypesInv, Tables, Given, Knows, Request

(* Rule forms that are opened or sent.                                      *)
LEMMA WebStartTypes ==
  ASSUME TypesInv, UNCHANGED clients, NEW q \in clients,
         WebCreate(q) \/ WebUpdate(q) \/ WebDelete(q) \/ WebReorderMove(q)
  PROVE  TypesInv'
  <1>1. CASE WebCreate(q)
    <2>1. PICK f \in Forms(clients) :
             Starts(q, [Idle EXCEPT !.pc = "create",
                          !.form = [f EXCEPT !.pri = IF @ = Blank
                                                     THEN Cardinality(live \ CatchAlls)
                                                     ELSE @]])
      BY <1>1 DEF WebCreate
    <2> DEFINE p == IF f.pri = Blank THEN Cardinality(live \ CatchAlls) ELSE f.pri
               g == [f EXCEPT !.pri = p]
               o == [Idle EXCEPT !.pc = "create", !.form = g]
    <2>2. Starts(q, o)
      BY <2>1
    <2>3. f \in Form /\ p \in Nat
      BY WritesFact DEF Form
    <2> HIDE DEF p
    <2>4. g \in Form
      BY <2>3 DEF Form
    <2> HIDE DEF g
    <2>5. o \in Request /\ o.pc = "create"
      BY <2>4, IdleFact DEF Request, Labels
    <2> HIDE DEF o
    <2> QED BY <2>2, <2>5, StartTypes DEF Reading
  <1>2. CASE WebUpdate(q)
    <2>1. PICK i \in live, f \in Forms(clients) :
             Starts(q, [Idle EXCEPT !.pc = "update", !.id = i, !.given = Parts,
                          !.form = [f EXCEPT !.pri = IF @ = Blank THEN ruleRows[i].pri ELSE @]])
      BY <1>2 DEF WebUpdate
    <2> DEFINE p == IF f.pri = Blank THEN ruleRows[i].pri ELSE f.pri
               g == [f EXCEPT !.pri = p]
               o == [Idle EXCEPT !.pc = "update", !.id = i, !.given = Parts, !.form = g]
    <2>2. Starts(q, o)
      BY <2>1
    <2>3. f \in Form /\ p \in Nat /\ i \in Ids /\ i < nextId
      BY WritesFact DEF Form, RuleRow
    <2> HIDE DEF p
    <2>4. g \in Form
      BY <2>3 DEF Form
    <2> HIDE DEF g
    <2>5. o \in Request /\ o.pc = "update" /\ o.id = i
      BY <2>3, <2>4, IdleFact DEF Request, Labels
    <2> HIDE DEF o
    <2> QED BY <2>2, <2>3, <2>5, StartTypes
  <1>3. CASE WebDelete(q)
    <2>1. PICK i \in live \ CatchAlls : Starts(q, [Idle EXCEPT !.pc = "delete", !.id = i])
      BY <1>3 DEF WebDelete
    <2> DEFINE o == [Idle EXCEPT !.pc = "delete", !.id = i]
    <2>2. i \in Ids /\ i < nextId
      BY WritesFact
    <2>3. o \in Request /\ o.pc = "delete" /\ o.id = i
      BY <2>2, IdleFact DEF Request, Labels
    <2>4. Starts(q, o)
      BY <2>1
    <2> HIDE DEF o
    <2> QED BY <2>2, <2>3, <2>4, StartTypes
  <1>4. CASE WebReorderMove(q)
    <2>1. PICK k \in 1..(Cardinality(live) - 1) :
             Starts(q, [Idle EXCEPT !.pc = "reorder",
                          !.order = [ListOrder EXCEPT ![k] = ListOrder[k + 1],
                                                      ![k + 1] = ListOrder[k]]])
      BY <1>4 DEF WebReorderMove
    <2> DEFINE n == Cardinality(live)
               L == ListOrder
               s == [L EXCEPT ![k] = L[k + 1], ![k + 1] = L[k]]
               o == [Idle EXCEPT !.pc = "reorder", !.order = s]
    <2>2. Starts(q, o)
      BY <2>1
    <2>3. n \in Nat /\ L \in [1..n -> live] /\ \A i \in live : i \in Ids
      BY ListOrderFact, WritesFact
    <2> HIDE DEF n, L
    <2>4. s \in [1..n -> Ids]
      <3>1. k \in 1..n /\ (k + 1) \in 1..n
        BY <2>3 DEF n
      <3> QED BY <2>3, <3>1
    <2> HIDE DEF s
    <2>5. s \in Seq(Ids)
      BY <2>3, <2>4
    <2>6. o \in Request /\ o.pc = "reorder"
      BY <2>5, IdleFact DEF Request, Labels
    <2> HIDE DEF o
    <2> QED BY <2>2, <2>6, StartTypes DEF Reading
  <1> QED BY <1>1, <1>2, <1>3, <1>4

(* What is written has the types of the tables.                             *)
LEMMA TryCreateTypes ==
  ASSUME TypesInv, UNCHANGED clients, NEW q \in clients, NEW f, f \in Form, TryCreate(q, f)
  PROVE  TypesInv'
  <1>0. Tables
    BY DEF TypesInv
  <1>1. CASE NameTaken(f.name, 0)
    BY <1>0, <1>1, SameTables, EndTypes DEF TryCreate
  <1>2. CASE ~NameTaken(f.name, 0)
    <2>1. Create(f) /\ Become(q, AfterWrite(q))
      BY <1>2 DEF TryCreate
    <2>2. Tables' /\ nextId' >= nextId
      BY <1>0, <2>1, CreateTypes
    <2> QED BY <2>1, <2>2, EndTypes
  <1> QED BY <1>1, <1>2

(* A request writes back the form it holds, to the rule it knows.          *)
LEMMA DoUpdateTypes ==
  ASSUME TypesInv, UNCHANGED clients, NEW q \in clients, DoUpdate(q)
  PROVE  TypesInv'
  <1> DEFINE i == req[q].id
             f == req[q].form
             full == "conditions" \in req[q].given \/ req[q].conds # {}
  <1>1. Tables /\ req[q].pc = "update" /\ f \in Form /\ Given(i)
    BY WritesFact DEF DoUpdate
  <1>2. Become(q, Idle) \/ Become(q, AfterWrite(q))
    BY DEF DoUpdate
  <1>3. UNCHANGED tables \/ Update(i, f, full)
    BY DEF DoUpdate
  <1> HIDE DEF i, f, full
  <1>4. Tables' /\ nextId' >= nextId
    <2>1. CASE UNCHANGED tables
      BY <1>1, <2>1, SameTables
    <2>2. CASE Update(i, f, full)
      <3>1. Tables'
        BY <1>1, <2>2, UpdateTypes
      <3>2. nextId' = nextId /\ nextId \in Nat
        BY <1>1, <2>2, RulesAssumption DEF Update, Tables
      <3> QED BY <3>1, <3>2
    <2> QED BY <1>3, <2>1, <2>2
  <1> QED BY <1>2, <1>4, EndTypes

(* A rule is deleted by its id.                                            *)
LEMMA DeleteStepTypes ==
  ASSUME TypesInv, UNCHANGED clients, NEW q \in clients, DoDelete(q) \/ McpDelete(q)
  PROVE  TypesInv'
  <1>1. PICK i : Given(i) /\ Delete(i)
    BY WritesFact DEF DoDelete, McpDelete, Given
  <1>2. Become(q, Idle) \/ UNCHANGED req
    BY DEF DoDelete, McpDelete
  <1>3. Tables'
    BY <1>1, DeleteTypes DEF TypesInv
  <1>4. nextId' = nextId /\ nextId \in Nat
    BY <1>1, RulesAssumption DEF Delete, TypesInv, Tables
  <1> QED BY <1>2, <1>3, <1>4, EndTypes, StayTypes

(* An order is a sequence, whatever it names.                               *)
LEMMA ReorderStepOrder ==
  ASSUME TypesInv, NEW q \in clients, DoReorder(q) \/ WebReorder(q)
  PROVE  \E ids : Reorder(ids) /\ \E n \in Nat : DOMAIN ids = 1..n
  <1>1. CASE DoReorder(q)
    <2>1. req[q].order \in Seq(Ids)
      BY WritesFact DEF Request
    <2> QED BY <1>1, <2>1 DEF DoReorder
  <1>2. CASE WebReorder(q)
    <2>1. PICK ids \in Orders : Reorder(ids)
      BY <1>2 DEF WebReorder
    <2>2. PICK n \in 0..Cardinality(live) : ids \in [1..n -> live]
      BY <2>1 DEF Orders
    <2> QED BY <2>1, <2>2
  <1> QED BY <1>1, <1>2

(* An order changes priorities, and to natural numbers.                    *)
LEMMA ReorderStepTypes ==
  ASSUME TypesInv, UNCHANGED clients, NEW q \in clients, DoReorder(q) \/ WebReorder(q)
  PROVE  TypesInv'
  <1>1. PICK ids : Reorder(ids) /\ \E n \in Nat : DOMAIN ids = 1..n
    BY ReorderStepOrder
  <1>2. Become(q, Idle) \/ UNCHANGED req
    BY DEF DoReorder, WebReorder
  <1>3. /\ ruleRows' \in [Ids -> RuleRow]
        /\ UNCHANGED <<live, groups, conds, acts, nextId, nextGid>>
    BY <1>1, ReorderFact DEF TypesInv
  <1>4. Tables'
    BY <1>3 DEF TypesInv, Tables, Given
  <1>5. nextId' >= nextId
    BY <1>3, RulesAssumption DEF TypesInv, Tables
  <1> QED BY <1>2, <1>4, <1>5, EndTypes, StayTypes

(* Tools that read a rule to write it back take its id along.              *)
LEMMA McpStartTypes ==
  ASSUME TypesInv, UNCHANGED clients, NEW q \in clients, McpUpdate(q) \/ McpEnable(q)
  PROVE  TypesInv'
  <1>1. CASE McpUpdate(q)
    <2>1. PICK i \in live, f \in Forms(clients), given \in SUBSET Parts :
             Starts(q, [Idle EXCEPT !.pc = "readGroups", !.id = i, !.ids = {i}, !.given = given,
                          !.form = [f EXCEPT !.pri = IF @ = Blank THEN ruleRows[i].pri ELSE @,
                                             !.enabled = ruleRows[i].enabled]])
      BY <1>1 DEF McpUpdate
    <2> DEFINE p == IF f.pri = Blank THEN ruleRows[i].pri ELSE f.pri
               e == ruleRows[i].enabled
               g == [f EXCEPT !.pri = p, !.enabled = e]
               o == [Idle EXCEPT !.pc = "readGroups", !.id = i, !.ids = {i}, !.given = given,
                                 !.form = g]
    <2>2. Starts(q, o)
      BY <2>1
    <2>3. f \in Form /\ p \in Nat /\ e \in BOOLEAN /\ i \in Ids /\ i < nextId
      BY WritesFact DEF Form, RuleRow
    <2> HIDE DEF p, e
    <2>4. g \in Form
      BY <2>3 DEF Form
    <2> HIDE DEF g
    <2>5. o \in Request /\ o.pc = "readGroups" /\ o.id = i
      BY <2>3, <2>4, IdleFact DEF Request, Labels
    <2> HIDE DEF o
    <2> QED BY <2>2, <2>3, <2>5, StartTypes
  <1>2. CASE McpEnable(q)
    <2>1. PICK i \in live, e \in BOOLEAN :
             Starts(q, [Idle EXCEPT !.pc = "readGroups", !.id = i, !.ids = {i},
                          !.form = [NoForm EXCEPT !.name = ruleRows[i].name, !.pri = ruleRows[i].pri,
                                                  !.enabled = e]])
      BY <1>2 DEF McpEnable
    <2> DEFINE n == ruleRows[i].name
               p == ruleRows[i].pri
               g == [NoForm EXCEPT !.name = n, !.pri = p, !.enabled = e]
               o == [Idle EXCEPT !.pc = "readGroups", !.id = i, !.ids = {i}, !.form = g]
    <2>2. Starts(q, o)
      BY <2>1
    <2>3. /\ n \in Names \cup {CatchAll} /\ p \in Nat
          /\ i \in Ids /\ i < nextId
      BY WritesFact DEF RuleRow
    <2> HIDE DEF n, p
    <2>4. g \in Form
      BY <2>3, FormFact DEF Form
    <2> HIDE DEF g
    <2>5. o \in Request /\ o.pc = "readGroups" /\ o.id = i
      BY <2>3, <2>4, IdleFact DEF Request, Labels
    <2> HIDE DEF o
    <2> QED BY <2>2, <2>3, <2>5, StartTypes
  <1> QED BY <1>1, <1>2
(* An import takes its file and the names apart.                            *)
LEMMA ImportTypes ==
  ASSUME TypesInv, UNCHANGED clients, NEW q \in clients, Import(q)
  PROVE  TypesInv'
  <1>1. PICK f \in Forms(clients), g \in Forms(clients) :
           Starts(q, [Idle EXCEPT !.pc = "import", !.file = <<f, g>>,
                                  !.taken = {ruleRows[i].name : i \in live}])
    BY DEF Import
  <1> DEFINE fs == <<f, g>>
             ns == {ruleRows[i].name : i \in live}
             o == [Idle EXCEPT !.pc = "import", !.file = fs, !.taken = ns]
  <1>2. Starts(q, o)
    BY <1>1
  <1>3. f \in Form /\ g \in Form /\ \A i \in live : ruleRows[i] \in RuleRow
    BY WritesFact
  <1>4. fs \in Seq(Form) /\ ns \in SUBSET (Names \cup {CatchAll})
    BY <1>3 DEF RuleRow
  <1> HIDE DEF fs, ns
  <1>5. o \in Request /\ o.pc = "import"
    BY <1>4, IdleFact DEF Request, Labels
  <1> HIDE DEF o
  <1> QED BY <1>2, <1>5, StartTypes DEF Reading

(* One rule of an import, under its own name or another.                   *)
LEMMA ImportAsTypes ==
  ASSUME TypesInv, UNCHANGED clients, NEW q \in clients, NEW f, f \in Form,
         req[q].pc = "import", req[q].file # <<>>, ImportAs(q, f)
  PROVE  TypesInv'
  <1>0. Tables /\ req[q] \in Request
    BY WritesFact
  <1>1. CASE Become(q, Idle) /\ UNCHANGED tables
    BY <1>0, <1>1, SameTables, EndTypes
  <1>2. CASE ~(Become(q, Idle) /\ UNCHANGED tables)
    <2> DEFINE fs == Tail(req[q].file)
               ns == req[q].taken \cup {f.name}
               o == [req[q] EXCEPT !.file = fs, !.taken = ns]
    <2>1. Create(f) /\ Become(q, o)
      BY <1>2 DEF ImportAs
    <2>2. Tables' /\ nextId' >= nextId
      BY <1>0, <2>1, CreateTypes
    <2>3. fs \in Seq(Form) /\ ns \in SUBSET (Names \cup {CatchAll})
      <3>1. req[q].file \in Seq(Form) /\ req[q].taken \in SUBSET (Names \cup {CatchAll})
        BY <1>0 DEF Request
      <3>2. f.name \in Names \cup {CatchAll}
        BY DEF Form
      <3> QED BY <3>1, <3>2
    <2> HIDE DEF fs, ns
    <2>4. o \in Request /\ o.pc = "import"
      BY <1>0, <2>3 DEF Request
    <2> HIDE DEF o
    <2> QED BY <2>1, <2>2, <2>4, BecomeTypes DEF Reading
  <1> QED BY <1>1, <1>2

(* An import goes on to the next rule of its file.                         *)
LEMMA ImportRuleTypes ==
  ASSUME TypesInv, UNCHANGED clients, NEW q \in clients, ImportRule(q)
  PROVE  TypesInv'
  <1> DEFINE f == Head(req[q].file)
  <1>1. /\ Tables /\ req[q] \in Request /\ req[q].pc = "import" /\ req[q].file # <<>>
        /\ req[q].file \in Seq(Form)
    BY WritesFact DEF ImportRule, Request
  <1>2. f \in Form
    BY <1>1
  <1>3. CASE Become(q, [req[q] EXCEPT !.file = Tail(@)]) /\ UNCHANGED tables
    <2> DEFINE fs == Tail(req[q].file)
               o == [req[q] EXCEPT !.file = fs]
    <2>1. Become(q, o) /\ Tables' /\ nextId' >= nextId
      BY <1>1, <1>3, SameTables
    <2>2. fs \in Seq(Form)
      BY <1>1
    <2> HIDE DEF fs
    <2>3. o \in Request /\ o.pc = "import"
      BY <1>1, <2>2 DEF Request
    <2> HIDE DEF o
    <2> QED BY <2>1, <2>3, BecomeTypes DEF Reading
  <1>4. CASE \E n \in Names \ req[q].taken : ImportAs(q, [f EXCEPT !.name = n])
    <2>1. PICK n \in Names : ImportAs(q, [f EXCEPT !.name = n])
      BY <1>4
    <2> DEFINE g == [f EXCEPT !.name = n]
    <2>2. g \in Form
      <3> HIDE DEF f
      <3> QED BY <1>2 DEF Form
    <2>3. ImportAs(q, g)
      BY <2>1
    <2> HIDE DEF g
    <2> QED BY <1>1, <2>2, <2>3, ImportAsTypes
  <1>5. CASE ImportAs(q, f)
    <2> HIDE DEF f
    <2> QED BY <1>1, <1>2, <1>5, ImportAsTypes
  <1> QED BY <1>3, <1>4, <1>5 DEF ImportRule

(* A tick asks for the list, works with it and is done.                     *)
LEMMA TickTypes ==
  ASSUME TypesInv, UNCHANGED clients, NEW q \in clients,
         List(q) \/ Listed(q) \/ ImportDone(q), q \in Ticks \/ ImportDone(q)
  PROVE  TypesInv'
  <1>0. Tables
    BY WritesFact
  <1>1. CASE List(q) /\ q \in Ticks
    <2> DEFINE is == live \ CatchAlls
               o == [Idle EXCEPT !.pc = "readGroups", !.ids = is]
    <2>1. Starts(q, o)
      BY <1>1 DEF List
    <2>2. is \in SUBSET Ids
      BY WritesFact
    <2> HIDE DEF is
    <2>3. o \in Request /\ o.pc = "readGroups" /\ q \notin Mcp \cup Enablers
      BY <1>1, <2>2, IdleFact, RulesAssumption DEF Request, Labels
    <2> HIDE DEF o
    <2> QED BY <2>1, <2>3, StartTypes
  <1>2. CASE Listed(q) \/ ImportDone(q)
    BY <1>0, <1>2, SameTables, EndTypes DEF Listed, ImportDone
  <1> QED BY <1>1, <1>2

(* The catch-all is repaired, by a form or by a start.                      *)
LEMMA EnsureTypes ==
  ASSUME TypesInv, UNCHANGED clients, EnsureCatchAll,
         (\E q \in clients : Become(q, Idle)) \/ req' = [q \in Requests |-> Idle]
  PROVE  TypesInv'
  <1>1. Tables' /\ nextId' >= nextId
    BY EnsureFact DEF TypesInv
  <1>2. CASE req' = [q \in Requests |-> Idle]
    <2>1. req' \in [Requests -> Request] /\ \A q \in Requests : req'[q] = Idle
      BY <1>2, IdleFact
    <2> QED BY <1>1, <2>1, IdleFact DEF TypesInv, Knows, Reading
  <1> QED BY <1>1, <1>2, EndTypes

(* A fresh database, with the catch-all.                                    *)
LEMMA TypesInit == StoreInit => TypesInv
  <1> SUFFICES ASSUME StoreInit
               PROVE  TypesInv
    OBVIOUS
  <1>1. 1 \in Ids /\ 2 \in 1..(MaxId + 1) /\ 1 \in 1..(MaxGid + 1) /\ \A i \in Ids : i \in Nat
    BY RulesAssumption DEF Ids
  <1>3. clients \subseteq Requests
    BY RulesAssumption DEF StoreInit
  <1>4. req = [q \in Requests |-> Idle]
    BY DEF StoreInit
  <1>5. ruleRows \in [Ids -> RuleRow]
    <2>1. [name |-> CatchAll, pri |-> 999, enabled |-> TRUE] \in RuleRow
      BY DEF RuleRow
    <2> QED BY <2>1, FormFact DEF StoreInit
  <1>6. acts \in [Ids -> SUBSET ActionKinds]
    BY DEF StoreInit, ActionKinds
  <1>7. Tables
    <2>1. live = {1} /\ groups = {} /\ conds = {} /\ nextId = 2 /\ nextGid = 1
      BY DEF StoreInit
    <2>2. Given(1)
      BY <1>1, <2>1 DEF Given
    <2> QED BY <1>1, <1>5, <1>6, <2>1, <2>2 DEF Tables
  <1> QED BY <1>3, <1>4, <1>7, IdleFact DEF TypesInv, Knows, Reading

(* Every step of every request keeps the types.                            *)
LEMMA TypesNext == TypesInv /\ [StoreNext]_storeVars => TypesInv'
  <1> SUFFICES ASSUME TypesInv, [StoreNext]_storeVars
               PROVE  TypesInv'
    OBVIOUS
  <1>1. CASE UNCHANGED storeVars
    <2>1. UNCHANGED clients /\ UNCHANGED req /\ UNCHANGED tables
      BY <1>1 DEF storeVars
    <2> QED BY <2>1, StayTypes, SameTables DEF TypesInv
  <1>2. CASE StoreNext
    <2>0. UNCHANGED clients
      BY <1>2 DEF StoreNext
    <2>1. ASSUME NEW q \in clients, WebStep(q)
          PROVE  TypesInv'
      <3>1. CASE WebCreate(q) \/ WebUpdate(q) \/ WebDelete(q) \/ WebReorderMove(q)
        BY <2>0, <3>1, WebStartTypes
      <3>2. CASE WebReorder(q) \/ DoReorder(q)
        BY <2>0, <3>2, ReorderStepTypes
      <3>3. CASE DoCreate(q)
        BY <2>0, <3>3, TryCreateTypes, WritesFact DEF DoCreate
      <3>4. CASE DoUpdate(q)
        BY <2>0, <3>4, DoUpdateTypes
      <3>5. CASE DoDelete(q)
        BY <2>0, <3>5, DeleteStepTypes
      <3>6. CASE Ensure(q)
        BY <2>0, <3>6, EnsureTypes DEF Ensure
      <3> QED BY <2>1, <3>1, <3>2, <3>3, <3>4, <3>5, <3>6 DEF WebStep
    <2>2. ASSUME NEW q \in clients, McpStep(q) \/ EnableStep(q)
          PROVE  TypesInv'
      <3>1. CASE McpCreate(q)
        <4>1. PICK f \in Forms(clients) :
                 TryCreate(q, [f EXCEPT !.pri = IF @ = Blank THEN 1 ELSE @, !.enabled = TRUE])
          BY <3>1 DEF McpCreate
        <4> DEFINE p == IF f.pri = Blank THEN 1 ELSE f.pri
                   g == [f EXCEPT !.pri = p, !.enabled = TRUE]
        <4>2. f \in Form /\ p \in Nat
          BY WritesFact DEF Form
        <4>3. TryCreate(q, g)
          BY <4>1
        <4> HIDE DEF p
        <4>4. g \in Form
          BY <4>2 DEF Form
        <4> HIDE DEF g
        <4> QED BY <2>0, <4>3, <4>4, TryCreateTypes
      <3>2. CASE McpUpdate(q) \/ McpEnable(q)
        BY <2>0, <3>2, McpStartTypes
      <3>3. CASE McpDelete(q)
        BY <2>0, <3>3, DeleteStepTypes
      <3>4. CASE ReadStep(q)
        BY <2>0, <3>4, ReadTypes
      <3>5. CASE DoUpdate(q)
        BY <2>0, <3>5, DoUpdateTypes
      <3> QED BY <2>2, <3>1, <3>2, <3>3, <3>4, <3>5 DEF McpStep, EnableStep
    <2>3. ASSUME NEW q \in clients, ImportStep(q)
          PROVE  TypesInv'
      BY <2>0, <2>3, ImportTypes, ImportRuleTypes, TickTypes DEF ImportStep
    <2>4. ASSUME NEW q \in clients \cap Ticks, TickStep(q)
          PROVE  TypesInv'
      BY <2>0, <2>4, ReadTypes, TickTypes DEF TickStep
    <2>5. CASE Restart
      BY <2>0, <2>5, EnsureTypes DEF Restart
    <2> QED BY <1>2, <2>1, <2>2, <2>3, <2>4, <2>5 DEF StoreNext
  <1> QED BY <1>1, <1>2

(* The tables hold rows of their columns, ids that were given out and no    *)
(* others, and priorities that are never negative, whatever the requests    *)
(* submit and write back, and in whatever order.                            *)
THEOREM TablesHaveTypes == StoreSpec => []StoreTypeOK
  <1>1. TypesInv => StoreTypeOK
    BY RulesAssumption DEF TypesInv, StoreTypeOK, Tables, Given, RuleRow, GroupRow, Request
  <1> QED BY <1>1, TypesInit, TypesNext, PTL DEF StoreSpec
-----------------------------------------------------------------------------
(* The catch-all, where only forms write rules. *)

(* The requests of the rule forms, of which there are two.                  *)
LEMMA FormsFact ==
  ASSUME TypesInv, OnlyForms
  PROVE  /\ \A q \in Web : q \notin clients => req[q] = Idle /\ req[q].pc = "idle"
         /\ \A p, q \in clients \cap Web : p # q =>
              \A r \in Web : r # p /\ r # q => req[r].pc = "idle"
  <1>1. ASSUME NEW q \in Web, q \notin clients
        PROVE  req[q] = Idle /\ req[q].pc = "idle"
    BY <1>1, IdleFact DEF TypesInv, Requests
  <1>2. ASSUME NEW p \in clients \cap Web, NEW q \in clients \cap Web, p # q,
               NEW r \in Web, r # p, r # q
        PROVE  req[r].pc = "idle"
    BY <1>1, <1>2 DEF OnlyForms
  <1> QED BY <1>1, <1>2

(* A step of a request is one of that request only.                         *)
LEMMA BecomeFact ==
  ASSUME TypesInv, NEW q \in clients, NEW o, Become(q, o)
  PROVE  q \in Requests /\ req'[q] = o /\ \A p \in Requests : p # q => req'[p] = req[p]
  BY DEF TypesInv, Become

(* A request goes on, the tables stay, and a form that is to delete a rule  *)
(* has seen that it is not the catch-all.                                   *)
LEMMA LooksKeep ==
  ASSUME TypesInv, CatchInv, OnlyForms, UNCHANGED tables,
         NEW q \in clients, req[q].pc # "ensure", \E o : Become(q, o),
         req'[q].pc = "delete" => req'[q].id \notin CatchAlls
  PROVE  CatchInv'
  <1>1. \A p \in Requests : p # q => req'[p] = req[p]
    BY BecomeFact
  <1>2. UNCHANGED <<live, ruleRows, groups, acts>>
    BY DEF tables
  <1>3. CatchAlls' = CatchAlls /\ (NamesUnique => NamesUnique')
        /\ \A c : Catches(c) => Catches(c)'
    BY <1>2 DEF CatchAlls, NamesUnique, Catches, Precedes
  <1>4. Settled' => Settled
    BY <1>1 DEF Settled, Requests
  <1>5. ASSUME NEW p \in Web, req'[p].pc = "delete"
        PROVE  req'[p].id \notin CatchAlls
    BY <1>1, <1>5 DEF CatchInv, Requests
  <1> QED BY <1>3, <1>4, <1>5 DEF CatchInv

(* The steps that only look.                                                *)
LEMMA LooksFact ==
  ASSUME TypesInv, NEW q \in clients,
         \/ WebCreate(q) \/ WebUpdate(q) \/ WebDelete(q) \/ WebReorderMove(q)
         \/ List(q) \/ ReadStep(q) \/ Listed(q)
  PROVE  /\ UNCHANGED tables /\ req[q].pc # "ensure" /\ \E o : Become(q, o)
         /\ req'[q].pc = "delete" => req'[q].id \notin CatchAlls
  <1>0. q \in Requests /\ DOMAIN req = Requests /\ req[q] \in Request
    BY DEF TypesInv
  <1>1. CASE WebCreate(q)
    BY <1>0, <1>1 DEF WebCreate, Starts, Become, Idle
  <1>2. CASE WebUpdate(q)
    BY <1>0, <1>2 DEF WebUpdate, Starts, Become, Idle
  <1>3. CASE WebDelete(q)
    BY <1>0, <1>3 DEF WebDelete, Starts, Become, Idle
  <1>4. CASE WebReorderMove(q)
    BY <1>0, <1>4 DEF WebReorderMove, Starts, Become, Idle
  <1>5. CASE List(q)
    BY <1>0, <1>5 DEF List, Starts, Become, Idle
  <1>6. CASE Listed(q)
    BY <1>0, <1>6 DEF Listed, Become, Idle
  <1>7. CASE ReadGroups(q)
    BY <1>0, <1>7 DEF ReadGroups, Reads, Become, Request
  <1>8. CASE ReadConditions(q)
    BY <1>0, <1>8 DEF ReadConditions, Reads, Become, Request
  <1>9. CASE ReadActions(q)
    <2> DEFINE op == IF req[q].groups = {} THEN "none"
                     ELSE (CHOOSE g \in req[q].groups : TRUE).op
               o == [req[q] EXCEPT !.groups = {}, !.ids = {},
                                   !.form.acts = IF "actions" \in req[q].given THEN @
                                                 ELSE acts[req[q].id],
                                   !.form.op = IF "conditions" \in req[q].given THEN @ ELSE op]
    <2>1. req[q].pc = "readActs" /\ UNCHANGED tables
      BY <1>9 DEF ReadActions, Reads
    <2>2. Become(q, [req[q] EXCEPT !.pc = "listed"]) \/ Become(q, [o EXCEPT !.pc = "update"])
      BY <1>9 DEF ReadActions, Reads
    <2>3. DOMAIN o = DOMAIN req[q] /\ "pc" \in DOMAIN req[q]
      BY <1>0 DEF Request
    <2> HIDE DEF o
    <2>4. req'[q].pc \in {"listed", "update"} /\ \E x : Become(q, x)
      BY <2>2, <2>3, BecomeFact
    <2> QED BY <2>1, <2>4
  <1> QED BY <1>1, <1>2, <1>3, <1>4, <1>5, <1>6, <1>7, <1>8, <1>9 DEF ReadStep

(* A form wrote a rule: now it repairs the catch-all, and no other form has *)
(* looked up the catch-all to delete it.                                    *)
LEMMA WritesKeep ==
  ASSUME TypesInv, CatchInv, OnlyForms, NamesUnique', UNCHANGED clients,
         NEW q \in clients \cap Web, req[q].pc \in {"create", "update"}, Become(q, AfterWrite(q)),
         ASSUME NEW c \in CatchAlls, NEW i \in Ids, Given(i), i \notin CatchAlls
         PROVE  i \notin CatchAlls'
  PROVE  CatchInv'
  <1>1. req'[q].pc = "ensure" /\ \A p \in Requests : p # q => req'[p] = req[p]
    BY IdleFact DEF TypesInv, Become, AfterWrite
  <1>2. ~Settled'
    BY <1>1 DEF Settled
  <1>3. ASSUME NEW p \in Web, req'[p].pc = "delete"
        PROVE  req'[p].id \notin CatchAlls'
    <2>1. p # q /\ req'[p] = req[p] /\ p \in clients
      BY <1>1, <1>3, FormsFact DEF Requests
    <2>2. req[p].id \in Ids /\ Given(req[p].id)
      BY <1>3, <2>1, WritesFact
    <2>3. req[p].id \notin CatchAlls
      BY <1>3, <2>1 DEF CatchInv
    <2>4. Settled
      BY <1>3, <2>1, FormsFact DEF Settled
    <2>5. PICK c \in CatchAlls : TRUE
      BY <2>4 DEF CatchInv
    <2> QED BY <2>1, <2>2, <2>3, <2>5
  <1> QED BY <1>2, <1>3 DEF CatchInv

(* A new rule has a name of its own, so it is no second catch-all.          *)
LEMMA CreateCatches ==
  ASSUME TypesInv, CatchInv, OnlyForms, UNCHANGED clients, NEW q \in clients \cap Web, DoCreate(q)
  PROVE  CatchInv'
  <1> DEFINE f == req[q].form
  <1>0. req[q].pc = "create" /\ TryCreate(q, f)
    BY DEF DoCreate
  <1>1. Tables /\ \A i : Given(i) => i \in Ids /\ i # nextId
    BY RulesAssumption DEF TypesInv, Given, Ids, Tables
  <1> HIDE DEF f
  <1>2. CASE NameTaken(f.name, 0)
    BY <1>0, <1>2, IdleFact, BecomeFact, LooksKeep DEF TryCreate
  <1>3. CASE ~NameTaken(f.name, 0)
    <2>1. Become(q, AfterWrite(q)) /\ live' = live \cup {nextId} /\ nextId <= MaxId
          /\ ruleRows' = [ruleRows EXCEPT ![nextId] = Row(f)]
      BY <1>0, <1>3 DEF TryCreate, Create
    <2>2. \A i \in live : i \in Ids /\ i # nextId /\ i # 0 /\ ruleRows[i].name # f.name
      BY <1>1, <1>3, RulesAssumption DEF NameTaken, Tables, Ids
    <2>3. nextId \in Ids
      BY <1>1, <2>1, RulesAssumption DEF Tables, Ids
    <2>4. ruleRows'[nextId].name = f.name /\ \A i \in live : ruleRows'[i] = ruleRows[i]
      BY <1>1, <2>1, <2>2, <2>3 DEF Tables, Row
    <2>5. NamesUnique'
      BY <2>1, <2>2, <2>4 DEF NamesUnique, CatchInv
    <2>6. ASSUME NEW i \in Ids, Given(i), i \notin CatchAlls
          PROVE  i \notin CatchAlls'
      BY <1>1, <2>1, <2>4, <2>6 DEF CatchAlls
    <2> QED BY <1>0, <2>1, <2>5, <2>6, WritesKeep
  <1> QED BY <1>2, <1>3

(* A rule that gets the name of the catch-all is the catch-all already.     *)
LEMMA UpdateCatches ==
  ASSUME TypesInv, CatchInv, OnlyForms, UNCHANGED clients, NEW q \in clients \cap Web, DoUpdate(q)
  PROVE  CatchInv'
  <1> DEFINE k == req[q].id
             f == req[q].form
             full == "conditions" \in req[q].given \/ req[q].conds # {}
  <1>0. req[q].pc = "update"
    BY DEF DoUpdate
  <1>1. \/ k \in live /\ ~NameTaken(f.name, k) /\ Update(k, f, full) /\ Become(q, AfterWrite(q))
        \/ Become(q, Idle) /\ UNCHANGED tables
        \/ Become(q, AfterWrite(q)) /\ UNCHANGED tables
    BY DEF DoUpdate
  <1> HIDE DEF k, f, full
  <1>2. Tables /\ \A i \in live : i \in Ids
    BY DEF TypesInv, Given, Tables
  <1>3. CASE Become(q, Idle) /\ UNCHANGED tables
    BY <1>0, <1>3, IdleFact, BecomeFact, LooksKeep
  <1>4. CASE Become(q, AfterWrite(q)) /\ UNCHANGED tables
    <2>1. UNCHANGED <<live, ruleRows>>
      BY <1>4 DEF tables
    <2>2. NamesUnique' /\ CatchAlls' = CatchAlls
      BY <2>1 DEF NamesUnique, CatchAlls, CatchInv
    <2> QED BY <1>0, <1>4, <2>2, WritesKeep
  <1>5. CASE k \in live /\ ~NameTaken(f.name, k) /\ Update(k, f, full) /\ Become(q, AfterWrite(q))
    <2>1. live' = live /\ ruleRows' = [ruleRows EXCEPT ![k] = Row(f)]
      BY <1>5 DEF Update
    <2>2. ruleRows'[k].name = f.name /\ \A i \in live : i # k => ruleRows'[i] = ruleRows[i]
      BY <1>2, <1>5, <2>1 DEF Tables, Row
    <2>3. \A i \in live : i # k => ruleRows[i].name # f.name
      BY <1>5 DEF NameTaken
    <2>4. NamesUnique'
      BY <2>1, <2>2, <2>3 DEF NamesUnique, CatchInv
    <2>5. ASSUME NEW c \in CatchAlls, NEW i \in Ids, Given(i), i \notin CatchAlls
          PROVE  i \notin CatchAlls'
      BY <2>1, <2>2, <2>3, <2>5 DEF CatchAlls
    <2> QED BY <1>0, <1>5, <2>4, <2>5, WritesKeep
  <1> QED BY <1>1, <1>3, <1>4, <1>5

(* What a form deletes is not the catch-all.                                *)
LEMMA DeleteCatches ==
  ASSUME TypesInv, CatchInv, OnlyForms, NEW q \in clients \cap Web, DoDelete(q)
  PROVE  CatchInv'
  <1> DEFINE k == req[q].id
  <1>1. req[q].pc = "delete" /\ Delete(k) /\ Become(q, Idle)
    BY DEF DoDelete
  <1>2. k \in Ids /\ k \notin CatchAlls /\ Tables
    BY <1>1, WritesFact DEF CatchInv
  <1> HIDE DEF k
  <1>3. /\ live' = live \ {k}
        /\ \A i \in Ids : i # k => ruleRows'[i] = ruleRows[i] /\ acts'[i] = acts[i]
        /\ groups' \subseteq groups
    BY <1>1, <1>2 DEF Delete, DropGroups, Tables
  <1>4. \A i \in live : i \in Ids
    BY <1>2 DEF Tables, Given
  <1>5. req'[q] = Idle /\ \A p \in Requests : p # q => req'[p] = req[p]
    BY <1>1 DEF TypesInv, Become
  <1>6. CatchAlls' = CatchAlls
    BY <1>2, <1>3, <1>4 DEF CatchAlls
  <1>7. NamesUnique'
    BY <1>3, <1>4 DEF NamesUnique, CatchInv
  <1>8. Settled' => Settled
    BY <1>1, <1>5 DEF Settled, Requests
  <1>9. ASSUME NEW c \in CatchAlls, Catches(c)
        PROVE  Catches(c)'
    <2>1. c \in live /\ c \in Ids /\ c # k
      BY <1>2, <1>4 DEF CatchAlls
    <2> QED BY <1>3, <1>4, <1>9, <2>1 DEF Catches, Precedes
  <1>10. ASSUME NEW p \in Web, req'[p].pc = "delete"
         PROVE  req'[p].id \notin CatchAlls'
    BY <1>5, <1>6, <1>10, IdleFact DEF CatchInv, Requests
  <1> QED BY <1>6, <1>7, <1>8, <1>9, <1>10 DEF CatchInv

(* A new order puts the catch-all behind it.                                *)
LEMMA ReorderCatches ==
  ASSUME TypesInv, CatchInv, OnlyForms, NEW q \in clients \cap Web, WebReorder(q) \/ DoReorder(q)
  PROVE  CatchInv'
  <1>1. PICK ids : Reorder(ids) /\ \E n \in Nat : DOMAIN ids = 1..n
    BY ReorderStepOrder
  <1>2. /\ UNCHANGED <<live, groups, acts>>
        /\ \A i \in Ids : ruleRows'[i].name = ruleRows[i].name
        /\ \A c \in CatchAlls : \A i \in live \ CatchAlls : ruleRows'[i].pri < ruleRows'[c].pri
    BY <1>1, ReorderFact DEF TypesInv
  <1>3. \A i \in live : i \in Ids
    BY DEF TypesInv, Tables, Given
  <1>4. CatchAlls' = CatchAlls
    BY <1>2, <1>3 DEF CatchAlls
  <1>5. NamesUnique /\ NamesUnique'
    BY <1>2, <1>3 DEF NamesUnique, CatchInv
  <1>6. /\ \A p \in Requests : req'[p] = req[p] \/ req'[p].pc = "idle"
        /\ Settled' => Settled
    BY IdleFact DEF WebReorder, DoReorder, TypesInv, Become, Settled, Requests
  <1>7. ASSUME NEW c \in CatchAlls, Catches(c)
        PROVE  Catches(c)'
    <2>1. \A i \in live \ {c} : i \notin CatchAlls
      BY <1>5 DEF CatchAlls, NamesUnique
    <2> QED BY <1>2, <1>7, <2>1 DEF Catches, Precedes
  <1>8. ASSUME NEW p \in Web, req'[p].pc = "delete"
        PROVE  req'[p].id \notin CatchAlls'
    BY <1>4, <1>6, <1>8 DEF CatchInv, Requests
  <1> QED BY <1>4, <1>5, <1>6, <1>7, <1>8 DEF CatchInv

(* The repair, by a form or at a start.                                     *)
LEMMA EnsureCatches ==
  ASSUME TypesInv, CatchInv, OnlyForms, EnsureCatchAll,
         (\E q \in clients : Become(q, Idle)) \/ req' = [q \in Requests |-> Idle]
  PROVE  CatchInv'
  <1>1. /\ NamesUnique' /\ \E c \in CatchAlls' : Catches(c)'
        /\ live' \subseteq live \cup {nextId}
        /\ \A i \in live : ruleRows'[i].name = ruleRows[i].name
    BY EnsureFact DEF TypesInv, CatchInv
  <1>2. \A p \in Requests : req'[p] = req[p] \/ req'[p].pc = "idle"
    BY IdleFact DEF TypesInv, Become
  <1>3. ASSUME NEW p \in Web, req'[p].pc = "delete"
        PROVE  req'[p].id \notin CatchAlls'
    <2>1. p \in Requests /\ req'[p] = req[p] /\ req[p].pc = "delete"
      BY <1>2, <1>3 DEF Requests
    <2>2. p \in clients
      BY <2>1, FormsFact
    <2>3. req[p].id # nextId
      BY <2>1, <2>2, WritesFact, RulesAssumption DEF Ids, Tables
    <2>4. req[p].id \notin CatchAlls
      BY <2>1, <1>3 DEF CatchInv
    <2> QED BY <1>1, <2>1, <2>3, <2>4 DEF CatchAlls
  <1> QED BY <1>1, <1>3 DEF CatchInv

(* The catch-all of a fresh database.                                       *)
LEMMA CatchInit == StoreInit => CatchInv
  <1> SUFFICES ASSUME StoreInit
               PROVE  CatchInv
    OBVIOUS
  <1>1. live = {1} /\ groups = {} /\ 1 \in Ids
    BY RulesAssumption DEF StoreInit, Ids
  <1>2. ruleRows[1].name = CatchAll /\ acts[1] = {"move_to_folder"}
    BY <1>1 DEF StoreInit
  <1>3. 1 \in CatchAlls /\ Catches(1) /\ NamesUnique
    BY <1>1, <1>2 DEF CatchAlls, Catches, NamesUnique
  <1>4. \A q \in Web : req[q].pc = "idle"
    BY IdleFact DEF StoreInit, Requests
  <1> QED BY <1>3, <1>4 DEF CatchInv

(* Every step of forms and ticks, and a restart, keeps the catch-all.      *)
LEMMA CatchNext == TypesInv /\ CatchInv /\ [StoreNext]_storeVars => CatchInv'
  <1> SUFFICES ASSUME TypesInv, CatchInv, [StoreNext]_storeVars, OnlyForms'
               PROVE  CatchInv'
    BY DEF CatchInv
  <1>1. CASE UNCHANGED storeVars
    BY <1>1 DEF storeVars, tables, CatchInv, OnlyForms, NamesUnique, Settled, Catches,
                Precedes, CatchAlls
  <1>2. CASE StoreNext
    <2>0. UNCHANGED clients /\ OnlyForms
      BY <1>2 DEF StoreNext, OnlyForms
    <2>1. ASSUME NEW q \in clients \cap Web, WebStep(q)
          PROVE  CatchInv'
      <3>1. CASE WebCreate(q) \/ WebUpdate(q) \/ WebDelete(q) \/ WebReorderMove(q)
        BY <2>0, <3>1, LooksFact, LooksKeep
      <3>2. CASE WebReorder(q) \/ DoReorder(q)
        BY <2>0, <3>2, ReorderCatches
      <3>3. CASE DoCreate(q)
        BY <2>0, <3>3, CreateCatches
      <3>4. CASE DoUpdate(q)
        BY <2>0, <3>4, UpdateCatches
      <3>5. CASE DoDelete(q)
        BY <2>0, <3>5, DeleteCatches
      <3>6. CASE Ensure(q)
        BY <2>0, <3>6, EnsureCatches DEF Ensure
      <3> QED BY <2>1, <3>1, <3>2, <3>3, <3>4, <3>5, <3>6 DEF WebStep
    <2>2. ASSUME NEW q \in clients \cap Ticks, TickStep(q)
          PROVE  CatchInv'
      BY <2>0, <2>2, LooksFact, LooksKeep DEF TickStep
    <2>5. CASE Restart
      BY <2>0, <2>5, EnsureCatches DEF Restart
    <2>6. clients \cap (Mcp \cup Enablers \cup Importers) = {}
      BY <2>0, RulesAssumption DEF OnlyForms
    <2> QED BY <1>2, <2>1, <2>2, <2>5, <2>6 DEF StoreNext
  <1> QED BY <1>1, <1>2

(* docs: what no rule matches is left to the catch-all.  It is there, with  *)
(* no conditions and a move, and comes last, whatever two forms do to the   *)
(* rules at once, after any crash; every form repairs what it may break.    *)
THEOREM TheCatchAllCatches == StoreSpec => []CatchAllCatches
  <1>1. CatchInv => CatchAllCatches
    BY DEF CatchInv, CatchAllCatches, OnlyForms, Catches
  <1> QED BY <1>1, TypesInit, TypesNext, CatchInit, CatchNext, PTL DEF StoreSpec
-----------------------------------------------------------------------------
(* The lists of ticks, where every rule that is submitted is proper. *)

(* The tables go on steadily, and so does the request whose step it is.     *)
LEMMA StepLists ==
  ASSUME TypesInv, ListsInv, OnlyComplete, Steady,
         \A q \in Requests : req'[q] = req[q] \/ (Submits(q)' /\ Sees(q)')
  PROVE  ListsInv'
  <1>1. nextGid \in Nat /\ nextGid' \in Nat /\ \A q \in Requests : req[q] \in Request
    BY DEF TypesInv, Tables, Steady
  <1>2. ASSUME NEW q \in Requests, req'[q] = req[q]
        PROVE  Submits(q)' /\ Sees(q)'
    <2>1. Submits(q) /\ Sees(q)
      BY DEF ListsInv
    <2>2. Submits(q)'
      BY <1>2, <2>1 DEF Submits
    <2>3. req[q].groups \subseteq GroupRow /\ req[q].ids \subseteq Ids
          /\ \A g \in GroupRow : g.gid \in Int
      BY <1>1 DEF Request, GroupRow
    <2>4. ASSUME q \in Ticks
          PROVE  /\ req[q].pc \in Reading \cup {"listed"} =>
                     \A i \in req[q].ids : Given(i)' /\ i \notin CatchAlls'
                 /\ req[q].pc \in {"readConds", "readActs", "listed"} =>
                     \A g \in req[q].groups : g.gid < nextGid'
      BY <1>1, <2>1, <2>3, <2>4 DEF Sees, Steady
    <2>5. ASSUME q \in Ticks, req[q].pc \in {"readActs", "listed"},
                 NEW i \in req[q].ids, ~Overtaken(q, i)'
          PROVE  HasConditions(i, req[q].groups, req[q].conds)
      <3>1. i \in Ids /\ Given(i) /\ i \notin CatchAlls
        BY <2>1, <2>3, <2>5 DEF Sees, Reading
      <3>2. i \in live' /\ GroupsOf(i)' = {g \in req[q].groups : g.rule = i}
        BY <1>2, <2>5 DEF Overtaken
      <3>3. i \in live
        BY <3>1, <3>2 DEF Steady
      <3>4. \A g \in GroupsOf(i)' : ~(g.gid >= nextGid)
        BY <1>1, <2>1, <2>3, <2>5, <3>2 DEF Sees
      <3>5. GroupsOf(i)' = GroupsOf(i)
        BY <3>1, <3>2, <3>4 DEF Steady
      <3>6. ~Overtaken(q, i)
        BY <3>2, <3>3, <3>5 DEF Overtaken
      <3> QED BY <2>1, <2>5, <3>6 DEF Sees
    <2>6. Sees(q)'
      BY <1>2, <2>4, <2>5 DEF Sees
    <2> QED BY <2>2, <2>6
  <1> QED BY <1>2 DEF ListsInv, Steady

(* Reads are steady.                                                        *)
LEMMA LookingSteady ==
  ASSUME TypesInv, ListsInv, OnlyComplete, UNCHANGED tables
  PROVE  Steady
  <1>1. nextGid \in Nat
    BY DEF TypesInv, Tables
  <1>2. Keys /\ \A i \in live \ CatchAlls : Complete(i)
    BY DEF ListsInv
  <1> QED BY <1>1, <1>2
          DEF tables, Steady, Keys, Complete, HasConditions, CatchAlls, Given, GroupsOf

(* A request that is done writes and lists nothing.                         *)
LEMMA IdleLists ==
  ASSUME NEW q, req'[q] = Idle \/ req'[q] = [Idle EXCEPT !.pc = "ensure"]
  PROVE  Submits(q)' /\ Sees(q)'
  BY DEF Submits, Sees, Idle, Reading

(* So is one that ends while the tables go on.                              *)
LEMMA EndLists ==
  ASSUME TypesInv, ListsInv, OnlyComplete, Steady,
         \/ \E q \in clients : Become(q, Idle) \/ Become(q, AfterWrite(q))
         \/ UNCHANGED req
         \/ req' = [q \in Requests |-> Idle]
  PROVE  ListsInv'
  <1>1. ASSUME NEW q \in Requests
        PROVE  req'[q] = req[q] \/ req'[q] = Idle \/ req'[q] = [Idle EXCEPT !.pc = "ensure"]
    BY BecomeFact DEF AfterWrite
  <1> QED BY <1>1, IdleLists, StepLists

(* One request goes on.                                                     *)
LEMMA OnLists ==
  ASSUME TypesInv, ListsInv, OnlyComplete, Steady, NEW q \in clients, \E o : Become(q, o),
         Submits(q)' /\ Sees(q)'
  PROVE  ListsInv'
  BY BecomeFact, StepLists

(* Groups that go take no conditions of other rules along.                  *)
LEMMA DropKeeps ==
  ASSUME Keys, NEW S, DropGroups(S), UNCHANGED nextGid
  PROVE  /\ Keys'
         /\ \A j : j \notin S => GroupsOf(j)' = GroupsOf(j) /\ (Complete(j) => Complete(j)')
  <1>1. groups' = {g \in groups : g.rule \notin S}
        /\ conds' = conds \ {g.gid : g \in {h \in groups : h.rule \in S}}
    BY DEF DropGroups
  <1>2. Keys'
    BY <1>1 DEF Keys
  <1>3. ASSUME NEW j, j \notin S
        PROVE  GroupsOf(j)' = GroupsOf(j)
    BY <1>1, <1>3 DEF GroupsOf
  <1>4. ASSUME NEW j, j \notin S, Complete(j)
        PROVE  Complete(j)'
    <2>1. PICK g \in groups : g.rule = j /\ g.gid \in conds
      BY <1>4 DEF Complete, HasConditions
    <2>2. g \in groups' /\ g.gid \in conds'
      BY <1>1, <1>4, <2>1 DEF Keys
    <2> QED BY <2>1, <2>2 DEF Complete, HasConditions
  <1> QED BY <1>2, <1>3, <1>4

(* The children of a rule are replaced by a group with conditions that is   *)
(* new.                                                                     *)
LEMMA SavesComplete ==
  ASSUME Tables, Keys, NEW i \in Ids, NEW form, form.op # "none", SaveChildren(i, form, TRUE)
  PROVE  /\ Keys' /\ nextGid' \in Nat /\ nextGid' >= nextGid
         /\ Complete(i)' /\ \E g \in GroupsOf(i)' : g.gid >= nextGid
         /\ \A j : j # i => GroupsOf(j)' = GroupsOf(j) /\ (Complete(j) => Complete(j)')
  <1> DEFINE n == [gid |-> nextGid, rule |-> i, op |-> form.op]
  <1>1. /\ groups' = (groups \ GroupsOf(i)) \cup {n} /\ nextGid' = nextGid + 1
        /\ conds' = (conds \ {g.gid : g \in GroupsOf(i)}) \cup {nextGid}
    BY DEF SaveChildren
  <1>2. n.gid = nextGid /\ n.rule = i
    OBVIOUS
  <1> HIDE DEF n
  <1>3. nextGid \in Nat /\ \A g \in groups : g.gid \in Int
    BY DEF Tables, GroupRow
  <1>4. Keys'
    BY <1>1, <1>2, <1>3 DEF Keys
  <1>5. Complete(i)' /\ \E g \in GroupsOf(i)' : g.gid >= nextGid
    BY <1>1, <1>2, <1>3 DEF Complete, HasConditions, GroupsOf
  <1>6. ASSUME NEW j, j # i
        PROVE  GroupsOf(j)' = GroupsOf(j)
    BY <1>1, <1>2, <1>6 DEF GroupsOf
  <1>7. ASSUME NEW j, j # i, Complete(j)
        PROVE  Complete(j)'
    <2>1. PICK g \in groups : g.rule = j /\ g.gid \in conds
      BY <1>7 DEF Complete, HasConditions
    <2>2. g \in groups' /\ g.gid \in conds'
      BY <1>1, <1>7, <2>1 DEF Keys, GroupsOf
    <2> QED BY <2>1, <2>2 DEF Complete, HasConditions
  <1> QED BY <1>1, <1>3, <1>4, <1>5, <1>6, <1>7

(* A proper rule that is created is complete.                               *)
LEMMA CreateSteady ==
  ASSUME Tables, Keys, \A i \in live \ CatchAlls : Complete(i),
         NEW f, f \in Form, Proper(f), Create(f)
  PROVE  Steady
  <1>0. PICK k : k = nextId
    OBVIOUS
  <1>1. k \in Ids /\ nextId' > k /\ \A i : Given(i) => i # k /\ Given(i)'
    BY <1>0, RulesAssumption DEF Create, Tables, Ids, Given
  <1>2. /\ live' = live \cup {k} /\ ruleRows' = [ruleRows EXCEPT ![k] = Row(f)]
        /\ SaveChildren(k, f, TRUE)
    BY <1>0 DEF Create
  <1>3. /\ Keys' /\ nextGid' \in Nat /\ nextGid' >= nextGid /\ Complete(k)'
        /\ \A j : j # k => GroupsOf(j)' = GroupsOf(j) /\ (Complete(j) => Complete(j)')
    BY <1>1, <1>2, SavesComplete DEF Proper
  <1>4. \A i \in Ids : i # k => ruleRows'[i] = ruleRows[i]
    BY <1>2 DEF Tables
  <1>5. \A i \in live : i \in Ids /\ i # k
    BY <1>1 DEF Tables, Given
  <1>6. \A i \in Ids : i # k => (i \in CatchAlls' <=> i \in CatchAlls)
    BY <1>2, <1>4 DEF CatchAlls
  <1>7. \A i \in live' \ CatchAlls' : Complete(i)'
    BY <1>2, <1>3, <1>5, <1>6
  <1> QED BY <1>1, <1>2, <1>3, <1>6, <1>7 DEF Steady

(* So is one that is written over.                                          *)
LEMMA UpdateSteady ==
  ASSUME Tables, Keys, \A i \in live \ CatchAlls : Complete(i),
         NEW k \in Ids, NEW f, f \in Form, Proper(f), Update(k, f, TRUE)
  PROVE  Steady
  <1>1. SaveChildren(k, f, TRUE) /\ live' = live /\ nextId' = nextId
        /\ ruleRows' = [ruleRows EXCEPT ![k] = Row(f)]
    BY DEF Update
  <1>2. /\ Keys' /\ nextGid' \in Nat /\ nextGid' >= nextGid
        /\ Complete(k)' /\ \E g \in GroupsOf(k)' : g.gid >= nextGid
        /\ \A j : j # k => GroupsOf(j)' = GroupsOf(j) /\ (Complete(j) => Complete(j)')
    BY <1>1, SavesComplete DEF Proper
  <1>3. /\ \A i \in Ids : i # k => ruleRows'[i] = ruleRows[i]
        /\ ruleRows'[k].name # CatchAll
    BY <1>1 DEF Tables, Row, Proper
  <1>4. \A i \in live : i \in Ids
    BY DEF Tables, Given
  <1>5. \A i \in Ids : i # k => (i \in CatchAlls' <=> i \in CatchAlls)
    BY <1>1, <1>3 DEF CatchAlls
  <1>6. k \notin CatchAlls'
    BY <1>3 DEF CatchAlls
  <1>7. \A i \in live' \ CatchAlls' : Complete(i)'
    BY <1>1, <1>2, <1>4, <1>5
  <1> QED BY <1>1, <1>2, <1>5, <1>6, <1>7 DEF Steady, Given

(* A rule that goes takes its own groups only.                              *)
LEMMA DeleteSteady ==
  ASSUME Tables, Keys, \A i \in live \ CatchAlls : Complete(i), NEW k, Delete(k)
  PROVE  Steady
  <1>1. live' = live \ {k} /\ UNCHANGED <<nextId, nextGid>> /\ DropGroups({k})
        /\ \A i \in Ids : i # k => ruleRows'[i] = ruleRows[i]
    BY DEF Delete, Tables
  <1>2. (\A i \in live : i \in Ids) /\ nextGid \in Nat
    BY DEF Tables, Given
  <1>3. CatchAlls' = CatchAlls \ {k}
    BY <1>1, <1>2 DEF CatchAlls
  <1>4. Keys' /\ \A j : j # k => GroupsOf(j)' = GroupsOf(j) /\ (Complete(j) => Complete(j)')
    BY <1>1, DropKeeps
  <1>5. \A i \in live' \ CatchAlls' : Complete(i)'
    BY <1>1, <1>3, <1>4
  <1> QED BY <1>1, <1>2, <1>3, <1>4, <1>5 DEF Steady, Given

(* An order takes no groups and changes no names.                          *)
LEMMA ReorderSteady ==
  ASSUME Tables, Keys, \A i \in live \ CatchAlls : Complete(i),
         NEW ids, NEW n \in Nat, DOMAIN ids = 1..n, Reorder(ids)
  PROVE  Steady
  <1>1. /\ UNCHANGED <<live, groups, conds, nextId, nextGid>>
        /\ \A i \in Ids : ruleRows'[i].name = ruleRows[i].name
    BY ReorderFact DEF Reorder
  <1>2. CatchAlls' = CatchAlls /\ nextGid \in Nat
    BY <1>1 DEF CatchAlls, Tables, Given
  <1> QED BY <1>1, <1>2 DEF Steady, Keys, Complete, HasConditions, Given, GroupsOf

(* The repair takes the groups of the catch-all, which no tick lists.       *)
LEMMA EnsureSteady ==
  ASSUME Tables, Keys, \A i \in live \ CatchAlls : Complete(i), EnsureCatchAll
  PROVE  Steady
  <1>1. /\ nextId' >= nextId /\ live' \subseteq live \cup {nextId}
        /\ live \subseteq live' /\ \A i \in live : ruleRows'[i].name = ruleRows[i].name
    BY EnsureFact
  <1>2. (\A i : Given(i) => i # nextId /\ Given(i)') /\ nextGid \in Nat
    BY <1>1, RulesAssumption, EnsureFact DEF Given, Ids, Tables
  <1>3. \A i \in Ids : Given(i) /\ i \notin CatchAlls =>
            i \notin CatchAlls' /\ (i \in live' => i \in live)
    BY <1>1, <1>2 DEF CatchAlls
  <1>4. CASE CatchAlls # {}
    <2>1. live' = live /\ DropGroups(CatchAlls) /\ UNCHANGED nextGid
      BY <1>4 DEF EnsureCatchAll
    <2>2. Keys' /\ \A j : j \notin CatchAlls => GroupsOf(j)' = GroupsOf(j) /\ (Complete(j) => Complete(j)')
      BY <2>1, DropKeeps
    <2>3. \A i \in live' \ CatchAlls' : i \in live \ CatchAlls
      BY <1>1, <2>1 DEF CatchAlls
    <2>4. \A i \in live' \ CatchAlls' : Complete(i)'
      BY <2>2, <2>3
    <2> QED BY <1>2, <1>3, <2>1, <2>2, <2>4 DEF Steady
  <1>5. CASE CatchAlls = {}
    <2>1. nextId \in CatchAlls' /\ UNCHANGED <<conds, groups, nextGid>>
      <3>1. nextId \in Ids
        BY <1>5, RulesAssumption DEF EnsureCatchAll, Ids, Tables
      <3> QED BY <1>5, <3>1 DEF EnsureCatchAll, Tables, CatchAlls
    <2>2. \A i \in live' \ CatchAlls' : i \in live \ CatchAlls
      BY <1>1, <1>5, <2>1
    <2> QED BY <1>2, <1>3, <2>1, <2>2
            DEF Steady, Keys, Complete, HasConditions, GroupsOf
  <1> QED BY <1>4, <1>5

(* A rule form, sent.                                                       *)
LEMMA FormLists ==
  ASSUME TypesInv, ListsInv, OnlyComplete, NEW q \in clients, WebCreate(q) \/ WebUpdate(q)
  PROVE  ListsInv'
  <1>0. Steady /\ \E o : Become(q, o)
    BY LookingSteady, LooksFact DEF WebCreate, WebUpdate, Starts
  <1>1. CASE WebCreate(q)
    <2>1. PICK f \in Forms(clients) :
             Starts(q, [Idle EXCEPT !.pc = "create",
                          !.form = [f EXCEPT !.pri = IF @ = Blank
                                                     THEN Cardinality(live \ CatchAlls)
                                                     ELSE @]])
      BY <1>1 DEF WebCreate
    <2> DEFINE g == [f EXCEPT !.pri = IF @ = Blank THEN Cardinality(live \ CatchAlls) ELSE @]
               o == [Idle EXCEPT !.pc = "create", !.form = g]
    <2>2. Become(q, o)
      BY <2>1 DEF Starts
    <2>3. Proper(g)
      BY WritesFact DEF Form, Proper, OnlyComplete
    <2> HIDE DEF g
    <2>4. o.pc = "create" /\ o.form = g /\ o.file = <<>>
      BY DEF Idle
    <2> HIDE DEF o
    <2>5. req'[q] = o
      BY <2>2, BecomeFact
    <2>6. Submits(q)' /\ Sees(q)'
      BY <2>3, <2>4, <2>5 DEF Submits, Sees, Reading
    <2> QED BY <1>0, <2>6, OnLists
  <1>2. CASE WebUpdate(q)
    <2>1. PICK i \in live, f \in Forms(clients) :
             Starts(q, [Idle EXCEPT !.pc = "update", !.id = i, !.given = Parts,
                          !.form = [f EXCEPT !.pri = IF @ = Blank THEN ruleRows[i].pri ELSE @]])
      BY <1>2 DEF WebUpdate
    <2> DEFINE g == [f EXCEPT !.pri = IF @ = Blank THEN ruleRows[i].pri ELSE @]
               o == [Idle EXCEPT !.pc = "update", !.id = i, !.given = Parts, !.form = g]
    <2>2. Become(q, o)
      BY <2>1 DEF Starts
    <2>3. Proper(g)
      BY WritesFact DEF Form, Proper, OnlyComplete
    <2> HIDE DEF g
    <2>4. o.pc = "update" /\ o.form = g /\ o.given = Parts /\ o.file = <<>>
      BY DEF Idle
    <2> HIDE DEF o
    <2>5. req'[q] = o
      BY <2>2, BecomeFact
    <2>6. Submits(q)' /\ Sees(q)'
      BY <2>3, <2>4, <2>5 DEF Submits, Sees, Reading
    <2> QED BY <1>0, <2>6, OnLists
  <1> QED BY <1>1, <1>2

(* A deletion or a move, about to be made.                                  *)
LEMMA AskLists ==
  ASSUME TypesInv, ListsInv, OnlyComplete, NEW q \in clients, WebDelete(q) \/ WebReorderMove(q)
  PROVE  ListsInv'
  <1>1. Steady /\ \E o : Become(q, o)
    BY LookingSteady DEF WebDelete, WebReorderMove, Starts
  <1>2. req'[q].pc \in {"delete", "reorder"} /\ req'[q].file = <<>>
    <2>1. q \in Requests /\ DOMAIN req = Requests
      BY DEF TypesInv
    <2>2. CASE WebDelete(q)
      BY <2>1, <2>2 DEF WebDelete, Starts, Become, Idle
    <2>3. CASE WebReorderMove(q)
      BY <2>1, <2>3 DEF WebReorderMove, Starts, Become, Idle
    <2> QED BY <2>2, <2>3
  <1> QED BY <1>1, <1>2, OnLists DEF Submits, Sees, Reading

(* A tick lists the rules but the catch-all, and then reads their groups,   *)
(* the conditions of these, and the actions.                                *)
LEMMA TickLists ==
  ASSUME TypesInv, ListsInv, OnlyComplete, NEW q \in clients \cap Ticks,
         List(q) \/ ReadStep(q) \/ Listed(q)
  PROVE  ListsInv'
  <1>0. /\ q \in Requests /\ DOMAIN req = Requests /\ req[q] \in Request
        /\ Submits(q) /\ Sees(q) /\ q \notin Mcp \cup Enablers
        /\ Keys /\ \A i \in live \ CatchAlls : Given(i) /\ Complete(i)
    BY DEF TypesInv, ListsInv, Tables, OnlyComplete
  <1>1. UNCHANGED tables /\ Steady /\ \E o : Become(q, o)
    BY LookingSteady, LooksFact
  <1>2. /\ \A i : Given(i)' = Given(i) /\ GroupsOf(i)' = GroupsOf(i)
        /\ CatchAlls' = CatchAlls /\ live' = live /\ nextGid' = nextGid
    BY <1>1 DEF tables, Given, GroupsOf, CatchAlls
  <1>3. req[q].pc \in Reading => \A i \in req[q].ids : Given(i) /\ i \notin CatchAlls
    BY <1>0 DEF Sees
  <1>4. CASE List(q)
    <2>1. req'[q] = [Idle EXCEPT !.pc = "readGroups", !.ids = live \ CatchAlls]
      BY <1>4, BecomeFact DEF List, Starts
    <2>2. req'[q].pc = "readGroups" /\ req'[q].ids = live \ CatchAlls /\ req'[q].file = <<>>
      BY <2>1 DEF Idle
    <2>3. Submits(q)' /\ Sees(q)'
      BY <1>0, <1>2, <2>2 DEF Submits, Sees, Reading
    <2> QED BY <1>1, <2>3, OnLists
  <1>5. CASE ReadGroups(q)
    <2> DEFINE gs == {g \in groups : g.rule \in req[q].ids}
    <2>1. req[q].pc = "readGroups"
          /\ req'[q] = [[req[q] EXCEPT !.groups = gs] EXCEPT !.pc = "readConds"]
      BY <1>5, BecomeFact DEF ReadGroups, Reads
    <2>2. /\ req'[q].pc = "readConds" /\ req'[q].ids = req[q].ids /\ req'[q].groups = gs
          /\ req'[q].file = req[q].file
      BY <1>0, <2>1 DEF Request
    <2>3. \A g \in gs : g.gid < nextGid
      BY <1>0 DEF Keys
    <2> HIDE DEF gs
    <2>4. Submits(q)'
      BY <1>0, <2>2 DEF Submits
    <2>5. Sees(q)'
      BY <1>2, <1>3, <2>1, <2>2, <2>3 DEF Sees, Reading
    <2> QED BY <1>1, <2>4, <2>5, OnLists
  <1>6. CASE ReadConditions(q)
    <2> DEFINE cs == {g.gid : g \in req[q].groups} \cap conds
    <2>1. req[q].pc = "readConds"
          /\ req'[q] = [[req[q] EXCEPT !.conds = cs] EXCEPT !.pc = "readActs"]
      BY <1>6, BecomeFact DEF ReadConditions, Reads
    <2>2. /\ req'[q].pc = "readActs" /\ req'[q].ids = req[q].ids
          /\ req'[q].groups = req[q].groups /\ req'[q].conds = cs
          /\ req'[q].file = req[q].file
      BY <1>0, <2>1 DEF Request
    <2>3. ASSUME NEW i \in req[q].ids, ~Overtaken(q, i)
          PROVE  HasConditions(i, req[q].groups, cs)
      <3>1. Complete(i) /\ \A g \in groups : g.rule = i => g \in req[q].groups
        BY <1>0, <1>3, <2>1, <2>3 DEF Overtaken, GroupsOf, Reading
      <3> QED BY <3>1 DEF Complete, HasConditions
    <2>4. \A i : Overtaken(q, i)' <=> Overtaken(q, i)
      BY <1>2, <2>2 DEF Overtaken
    <2>5. \A g \in req[q].groups : g.gid < nextGid
      BY <1>0, <2>1 DEF Sees
    <2> HIDE DEF cs
    <2>6. Submits(q)'
      BY <1>0, <2>2 DEF Submits
    <2>7. Sees(q)'
      BY <1>2, <1>3, <2>1, <2>2, <2>3, <2>4, <2>5 DEF Sees, Reading
    <2> QED BY <1>1, <2>6, <2>7, OnLists
  <1>7. CASE ReadActions(q)
    <2>1. req[q].pc = "readActs" /\ req'[q] = [req[q] EXCEPT !.pc = "listed"]
      BY <1>0, <1>7, BecomeFact DEF ReadActions, Reads
    <2>2. /\ req'[q].pc = "listed" /\ req'[q].ids = req[q].ids
          /\ req'[q].groups = req[q].groups /\ req'[q].conds = req[q].conds
          /\ req'[q].file = req[q].file
      BY <1>0, <2>1 DEF Request
    <2>3. Submits(q)'
      BY <1>0, <2>2 DEF Submits
    <2>4. \A i : Overtaken(q, i)' <=> Overtaken(q, i)
      BY <1>2, <2>2 DEF Overtaken
    <2>5. Sees(q)'
      BY <1>0, <1>2, <1>3, <2>1, <2>2, <2>4 DEF Sees, Reading
    <2> QED BY <1>1, <2>3, <2>5, OnLists
  <1>8. CASE Listed(q)
    BY <1>1, <1>8, EndLists DEF Listed
  <1> QED BY <1>4, <1>5, <1>6, <1>7, <1>8 DEF ReadStep

(* An import takes its rules from the file, one after the other.            *)
LEMMA ImportLists ==
  ASSUME TypesInv, ListsInv, OnlyComplete, NEW q \in clients, ImportStep(q)
  PROVE  ListsInv'
  <1>0. /\ q \in Requests /\ req[q] \in Request /\ Submits(q) /\ Tables
        /\ req[q].file \in Seq(Form) /\ Keys /\ \A i \in live \ CatchAlls : Complete(i)
    BY DEF TypesInv, ListsInv, Request
  <1>1. CASE Import(q)
    <2>1. PICK f \in Forms(clients), g \in Forms(clients) :
             Starts(q, [Idle EXCEPT !.pc = "import", !.file = <<f, g>>,
                                    !.taken = {ruleRows[i].name : i \in live}])
      BY <1>1 DEF Import
    <2>2. Proper(f) /\ Proper(g)
      BY DEF Proper, OnlyComplete
    <2> DEFINE fs == <<f, g>>
               o == [Idle EXCEPT !.pc = "import", !.file = fs,
                                 !.taken = {ruleRows[i].name : i \in live}]
    <2>3. \A k \in DOMAIN fs : Proper(fs[k])
      BY <2>2
    <2>4. Become(q, o) /\ UNCHANGED tables
      BY <2>1 DEF Starts
    <2> HIDE DEF fs
    <2>5. o.pc = "import" /\ o.file = fs
      BY DEF Idle
    <2> HIDE DEF o
    <2>6. req'[q] = o
      BY <2>4, BecomeFact
    <2>7. Submits(q)' /\ Sees(q)'
      BY <2>3, <2>5, <2>6 DEF Submits, Sees, Reading
    <2> QED BY <2>4, <2>7, LookingSteady, OnLists
  <1>2. CASE ImportDone(q)
    BY <1>2, LookingSteady, EndLists DEF ImportDone
  <1>3. CASE ImportRule(q)
    <2> DEFINE f == Head(req[q].file)
               fs == Tail(req[q].file)
    <2>1. req[q].pc = "import" /\ req[q].file # <<>>
      BY <1>3 DEF ImportRule
    <2>2. Proper(f) /\ f \in Form
      <3>1. 1 \in DOMAIN req[q].file /\ f = req[q].file[1] /\ f \in Form
        BY <1>0, <2>1
      <3> QED BY <1>0, <3>1 DEF Submits
    <2>3. \A k \in DOMAIN fs : Proper(fs[k])
      <3>1. \A k \in DOMAIN fs : (k + 1) \in DOMAIN req[q].file /\ fs[k] = req[q].file[k + 1]
        BY <1>0, <2>1
      <3> HIDE DEF fs
      <3> QED BY <1>0, <3>1 DEF Submits
    <2>4. ASSUME NEW g, g \in Form, Proper(g), ImportAs(q, g)
          PROVE  ListsInv'
      <3>1. CASE Become(q, Idle) /\ UNCHANGED tables
        BY <3>1, LookingSteady, EndLists
      <3>2. CASE Create(g) /\ Become(q, [req[q] EXCEPT !.file = Tail(@),
                                                       !.taken = @ \cup {g.name}])
        <4> DEFINE o == [req[q] EXCEPT !.file = fs, !.taken = req[q].taken \cup {g.name}]
        <4>1. Become(q, o)
          BY <3>2
        <4> HIDE DEF fs
        <4>2. o.pc = "import" /\ o.file = fs
          BY <1>0, <2>1 DEF Request
        <4> HIDE DEF o
        <4>3. req'[q] = o
          BY <4>1, BecomeFact
        <4>4. Submits(q)' /\ Sees(q)'
          BY <2>3, <4>2, <4>3 DEF Submits, Sees, Reading
        <4> QED BY <1>0, <2>4, <3>2, <4>1, <4>4, CreateSteady, OnLists
      <3> QED BY <2>4, <3>1, <3>2 DEF ImportAs
    <2>5. CASE Become(q, [req[q] EXCEPT !.file = Tail(@)]) /\ UNCHANGED tables
      <3> DEFINE o == [req[q] EXCEPT !.file = fs]
      <3>1. Become(q, o)
        BY <2>5
      <3> HIDE DEF fs
      <3>2. o.pc = "import" /\ o.file = fs
        BY <1>0, <2>1 DEF Request
      <3> HIDE DEF o
      <3>3. req'[q] = o
        BY <3>1, BecomeFact
      <3>4. Submits(q)' /\ Sees(q)'
        BY <2>3, <3>2, <3>3 DEF Submits, Sees, Reading
      <3> QED BY <2>5, <3>1, <3>4, LookingSteady, OnLists
    <2>6. CASE \E n \in Names \ req[q].taken : ImportAs(q, [f EXCEPT !.name = n])
      <3>1. PICK n \in Names : ImportAs(q, [f EXCEPT !.name = n])
        BY <2>6
      <3> DEFINE g == [f EXCEPT !.name = n]
      <3> HIDE DEF f
      <3>2. g \in Form /\ Proper(g)
        BY <2>2, RulesAssumption DEF Form, Proper
      <3> HIDE DEF g
      <3>3. ImportAs(q, g)
        BY <3>1 DEF g
      <3> QED BY <2>4, <3>2, <3>3
    <2>7. CASE ImportAs(q, f)
      <3> HIDE DEF f
      <3> QED BY <2>2, <2>4, <2>7
    <2> QED BY <1>3, <2>5, <2>6, <2>7 DEF ImportRule
  <1> QED BY <1>1, <1>2, <1>3 DEF ImportStep

(* What forms write, delete, order and repair.                              *)
LEMMA WriteLists ==
  ASSUME TypesInv, ListsInv, OnlyComplete, NEW q \in clients,
         \/ DoCreate(q) \/ DoUpdate(q) \/ DoDelete(q) \/ DoReorder(q) \/ WebReorder(q)
         \/ Ensure(q)
  PROVE  ListsInv'
  <1> DEFINE f == req[q].form
             k == req[q].id
             full == "conditions" \in req[q].given \/ req[q].conds # {}
  <1>0. /\ q \in Requests /\ req[q] \in Request /\ Submits(q) /\ Tables /\ f \in Form
        /\ k \in Ids \cup {0} /\ Keys /\ \A i \in live \ CatchAlls : Complete(i)
    BY DEF TypesInv, ListsInv, Request
  <1>1. CASE DoCreate(q)
    <2>1. req[q].pc = "create" /\ TryCreate(q, f)
      BY <1>1 DEF DoCreate
    <2>2. Proper(f)
      BY <1>0, <2>1 DEF Submits
    <2> HIDE DEF f
    <2>3. Steady
      BY <1>0, <2>1, <2>2, CreateSteady, LookingSteady DEF TryCreate
    <2> QED BY <2>1, <2>3, EndLists DEF TryCreate
  <1>2. CASE DoUpdate(q)
    <2>1. req[q].pc = "update" /\ (Become(q, Idle) \/ Become(q, AfterWrite(q)))
          /\ (UNCHANGED tables \/ Update(k, f, full))
      BY <1>2 DEF DoUpdate
    <2>2. Proper(f) /\ full = TRUE
      BY <1>0, <2>1 DEF Submits, Parts
    <2>3. k \in Ids
      BY <2>1, WritesFact
    <2> HIDE DEF f, k, full
    <2>4. Steady
      BY <1>0, <2>1, <2>2, <2>3, UpdateSteady, LookingSteady
    <2> QED BY <2>1, <2>4, EndLists
  <1>3. CASE DoDelete(q)
    BY <1>0, <1>3, DeleteSteady, EndLists DEF DoDelete
  <1>4. CASE DoReorder(q) \/ WebReorder(q)
    <2>1. PICK ids : Reorder(ids) /\ \E n \in Nat : DOMAIN ids = 1..n
      BY <1>4, ReorderStepOrder
    <2> QED BY <1>0, <1>4, <2>1, ReorderSteady, EndLists DEF DoReorder, WebReorder
  <1>5. CASE Ensure(q)
    BY <1>0, <1>5, EnsureSteady, EndLists DEF Ensure
  <1> QED BY <1>1, <1>2, <1>3, <1>4, <1>5

(* Before the first rule is written there is only the catch-all.            *)
LEMMA ListsInit == StoreInit => ListsInv
  <1> SUFFICES ASSUME StoreInit
               PROVE  ListsInv
    OBVIOUS
  <1>1. live \ CatchAlls = {}
    <2>1. live = {1} /\ 1 \in Ids /\ ruleRows[1].name = CatchAll
      BY RulesAssumption DEF StoreInit, Ids
    <2> QED BY <2>1 DEF CatchAlls
  <1>2. \A q \in Requests : req[q] = Idle
    BY DEF StoreInit
  <1>3. \A q \in Requests : Submits(q) /\ Sees(q)
    BY <1>2 DEF Submits, Sees, Idle, Reading
  <1>4. Keys
    BY DEF StoreInit, Keys
  <1> QED BY <1>1, <1>3, <1>4 DEF ListsInv

(* Every step keeps rules and lists complete.                              *)
LEMMA ListsNext == TypesInv /\ ListsInv /\ [StoreNext]_storeVars => ListsInv'
  <1> SUFFICES ASSUME TypesInv, ListsInv, [StoreNext]_storeVars, OnlyComplete'
               PROVE  ListsInv'
    BY DEF ListsInv
  <1>1. CASE UNCHANGED storeVars
    <2>1. UNCHANGED tables /\ UNCHANGED req /\ UNCHANGED clients
      BY <1>1 DEF storeVars
    <2>2. OnlyComplete
      BY <2>1 DEF OnlyComplete
    <2> QED BY <2>1, <2>2, LookingSteady, EndLists
  <1>2. CASE StoreNext
    <2>0. UNCHANGED clients
      BY <1>2 DEF StoreNext
    <2>1. OnlyComplete
      BY <2>0 DEF OnlyComplete
    <2>2. ASSUME NEW q \in clients, WebStep(q)
          PROVE  ListsInv'
      BY <2>1, <2>2, FormLists, AskLists, WriteLists DEF WebStep
    <2>3. ASSUME NEW q \in clients \cap Ticks, TickStep(q)
          PROVE  ListsInv'
      BY <2>1, <2>3, TickLists DEF TickStep
    <2>4. ASSUME NEW q \in clients, ImportStep(q)
          PROVE  ListsInv'
      BY <2>1, <2>4, ImportLists
    <2>5. CASE Restart
      <3>1. Steady
        BY <2>1, <2>5, EnsureSteady DEF Restart, TypesInv, ListsInv
      <3> QED BY <2>1, <2>5, <3>1, EndLists DEF Restart
    <2>6. clients \cap (Mcp \cup Enablers) = {}
      BY <2>1 DEF OnlyComplete
    <2> QED BY <1>2, <2>2, <2>3, <2>4, <2>5, <2>6 DEF StoreNext
  <1> QED BY <1>1, <1>2

(* A tick that has read its list in four queries, with forms and imports    *)
(* between any two, has conditions for every rule that no update and no     *)
(* deletion overtook, if every rule that was submitted had some.            *)
THEOREM TicksListWholeRules == StoreSpec => []ListedRulesComplete
  <1>1. ListsInv => ListedRulesComplete
    BY DEF ListsInv, ListedRulesComplete, OnlyComplete, Proper, Sees, Requests
  <1> QED BY <1>1, TypesInit, TypesNext, ListsInit, ListsNext, PTL DEF StoreSpec
=============================================================================
