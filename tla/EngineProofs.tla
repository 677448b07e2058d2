---------------------------- MODULE EngineProofs ----------------------------
(***************************************************************************)
(* Proofs about RulesEngine, for any rules, trees of groups, schedules and *)
(* outcomes of the fetches.  The trees are finite (EngineAssumption), so   *)
(* what recurses over them is defined for all of them, and what holds of a *)
(* group if it holds of the groups in it holds of all (LayerInduction).    *)
(***************************************************************************)
EXTENDS RulesEngine, FiniteSetTheorems, WellFoundedInduction, TLAPS

-----------------------------------------------------------------------------
(* Recursion over trees. *)

(* A set of natural numbers that is not empty has a smallest member.        *)
LEMMA WellOrdered ==
    ASSUME NEW S \in SUBSET Nat, S # {}
    PROVE  \E n \in S : \A m \in S : n <= m
<1> DEFINE T == {0..n : n \in S}
<1>1. T \subseteq FiniteSubsetsOf(Nat)
  <2>1. ASSUME NEW n \in S
        PROVE  0..n \in SUBSET Nat /\ IsFiniteSet(0..n)
    BY FS_Interval
  <2> QED BY <2>1 DEF FiniteSubsetsOf
<1>2. IsWellFoundedOn(StrictSubsetOrdering(Nat), FiniteSubsetsOf(Nat))
  BY FS_StrictSubsetOrderingWellFounded
<1>3. T # {}
  OBVIOUS
<1>4. PICK x \in T : \A y \in T : ~(<<y, x>> \in StrictSubsetOrdering(Nat))
  <2> HIDE DEF T
  <2> QED BY <1>1, <1>2, <1>3, WFMin
<1>5. PICK n \in S : x = 0..n
  OBVIOUS
<1>6. ASSUME NEW m \in S, m < n
      PROVE  FALSE
  <2>1. 0..m \in T
    OBVIOUS
  <2>2. 0..m \subseteq 0..n /\ 0..m # 0..n
    <3>1. n \in 0..n /\ n \notin 0..m
      BY <1>6
    <3>2. ASSUME NEW q \in 0..m
          PROVE  q \in 0..n
      BY <1>6
    <3> QED BY <3>1, <3>2
  <2>3. 0..m \in SUBSET Nat /\ 0..n \in SUBSET Nat
    OBVIOUS
  <2>4. <<0..m, 0..n>> \in StrictSubsetOrdering(Nat)
    BY <2>2, <2>3 DEF StrictSubsetOrdering
  <2> QED BY <1>4, <1>5, <2>1, <2>4
<1>7. \A m \in S : n <= m
  BY <1>6
<1> QED BY <1>7

(* The layers' assumption, group by group. *)
LEMMA LayerFact ==
    ASSUME NEW n \in 1..Len(Layers), NEW g \in Layers[n]
    PROVE  /\ g \in Upto(n) /\ g \in Groups
           /\ g.op \in {"AND", "OR"}
           /\ g.conds \in Seq(Conditions)
           /\ g.groups \in Seq(Upto(n - 1)) /\ g.groups \in Seq(Groups)
<1>1. Len(Layers) \in Nat
  BY EngineAssumption
<1>2. g \in Upto(n)
  BY <1>1 DEF Upto
<1>3. \A m \in 0..Len(Layers) : Upto(m) \subseteq Groups
  BY <1>1 DEF Upto, Groups
<1>4. g.op \in {"AND", "OR"} /\ g.conds \in Seq(Conditions) /\ g.groups \in Seq(Upto(n - 1))
  BY EngineAssumption
<1>5. Upto(n - 1) \subseteq Groups /\ Upto(n) \subseteq Groups
  BY <1>1, <1>3
<1>6. g.groups \in Seq(Groups)
  BY <1>4, <1>5
<1> QED BY <1>2, <1>4, <1>5, <1>6

(* The same of a group whose layer does not matter. *)
LEMMA GroupFact ==
    ASSUME NEW g \in Groups
    PROVE  /\ g.op \in {"AND", "OR"}
           /\ g.conds \in Seq(Conditions)
           /\ g.groups \in Seq(Groups)
           /\ \A k \in DOMAIN g.groups : g.groups[k] \in Groups
<1>1. PICK n \in 1..Len(Layers) : g \in Layers[n]
  BY DEF Groups, Upto
<1> QED BY <1>1, LayerFact

(* What holds of a group whenever it holds of the groups in it holds of     *)
(* every group.                                                             *)
LEMMA LayerInduction ==
    ASSUME NEW S,
           \A g \in Groups : (\A k \in DOMAIN g.groups : g.groups[k] \in S) => g \in S
    PROVE  Groups \subseteq S
<1> DEFINE Bad == {n \in 1..Len(Layers) : ~(Layers[n] \subseteq S)}
<1>1. SUFFICES ASSUME Bad # {} PROVE FALSE
  BY DEF Groups, Upto
<1>2. Bad \in SUBSET Nat
  BY EngineAssumption
<1>3. PICK n \in Bad : \A m \in Bad : n <= m
  <2> HIDE DEF Bad
  <2> QED BY <1>1, <1>2, WellOrdered
<1>4. PICK g \in Layers[n] : g \notin S
  OBVIOUS
<1>5. n \in 1..Len(Layers) /\ Len(Layers) \in Nat
  BY EngineAssumption
<1>6. Upto(n - 1) \subseteq S
  <2>1. ASSUME NEW m \in 1..(n - 1)
        PROVE  Layers[m] \subseteq S
    <3>1. m \in 1..Len(Layers) /\ ~(n <= m)
      BY <1>5
    <3> QED BY <1>3, <3>1
  <2> QED BY <2>1 DEF Upto
<1>7. g \in Groups /\ g.groups \in Seq(Upto(n - 1))
  BY <1>5, LayerFact
<1>8. \A k \in DOMAIN g.groups : g.groups[k] \in S
  BY <1>6, <1>7
<1> QED BY <1>4, <1>7, <1>8

(* f for the groups in g. *)
Below(f, g) == [k \in DOMAIN g.groups |-> f[g.groups[k]]]

(* H makes a value of V of a group and of values of the groups in it.       *)
Yields(H, V) == \A g \in Groups : \A b \in [DOMAIN g.groups -> V] : H[<<g, b>>] \in V

(* f is made by H. *)
Solves(f, H) == \A g \in Groups : f[g] = H[<<g, Below(f, g)>>]

(* There is a value of each group that is made of those of the groups in it. *)
LEMMA RecursionOverGroups ==
    ASSUME NEW V, NEW H, Yields(H, V)
    PROVE  \E f \in [Groups -> V] : Solves(f, H)
<1> DEFINE Made(n, f) == f = [g \in Upto(n) |-> H[<<g, [k \in DOMAIN g.groups |-> f[g.groups[k]]]>>]]
           Bad == {n \in 0..Len(Layers) : ~\E f \in [Upto(n) -> V] : Made(n, f)}
<1>1. Len(Layers) \in Nat
  BY EngineAssumption
<1>2. Bad = {}
  <2>1. SUFFICES ASSUME Bad # {} PROVE FALSE
    OBVIOUS
  <2>2. Bad \in SUBSET Nat
    BY <1>1
  <2>3. PICK n \in Bad : \A m \in Bad : n <= m
    <3> HIDE DEF Bad
    <3> QED BY <2>1, <2>2, WellOrdered
  <2>4. n \in 0..Len(Layers)
    OBVIOUS
  <2>5. n # 0
    <3>1. ASSUME n = 0 PROVE FALSE
      <4>1. Upto(0) = {}
        BY DEF Upto
      <4> DEFINE f == [g \in Upto(0) |-> 0]
      <4>2. f \in [Upto(0) -> V] /\ Made(0, f)
        BY <4>1
      <4> QED BY <3>1, <4>2
    <3> QED BY <3>1
  <2>6. n - 1 \in 0..Len(Layers) /\ n - 1 \notin Bad
    <3>1. ~(n <= n - 1) /\ n - 1 \in 0..Len(Layers)
      BY <1>1, <2>4, <2>5
    <3> HIDE DEF Bad
    <3> QED BY <2>3, <3>1
  <2>7. PICK f \in [Upto(n - 1) -> V] : Made(n - 1, f)
    BY <2>6
  <2>8. \A g \in Upto(n) : /\ g \in Groups
                           /\ \A k \in DOMAIN g.groups : g.groups[k] \in Upto(n - 1)
    <3>1. ASSUME NEW g \in Upto(n)
          PROVE  g \in Groups /\ \A k \in DOMAIN g.groups : g.groups[k] \in Upto(n - 1)
      <4>1. PICK m \in 1..n : g \in Layers[m]
        BY <3>1 DEF Upto
      <4>2. m \in 1..Len(Layers)
        BY <1>1, <2>4
      <4>3. g \in Groups /\ g.groups \in Seq(Upto(m - 1))
        BY <4>1, <4>2, LayerFact
      <4>4. Upto(m - 1) \subseteq Upto(n - 1)
        BY <2>4, <4>2 DEF Upto
      <4> QED BY <4>3, <4>4
    <3> QED BY <3>1
  <2>9. Upto(n - 1) \subseteq Upto(n)
    BY <1>1, <2>4, <2>5 DEF Upto
  <2> DEFINE h == [g \in Upto(n) |-> H[<<g, [k \in DOMAIN g.groups |-> f[g.groups[k]]]>>]]
  <2>10. h \in [Upto(n) -> V]
    <3>1. ASSUME NEW g \in Upto(n)
          PROVE  H[<<g, [k \in DOMAIN g.groups |-> f[g.groups[k]]]>>] \in V
      <4>1. [k \in DOMAIN g.groups |-> f[g.groups[k]]] \in [DOMAIN g.groups -> V]
        BY <2>7, <2>8
      <4> QED BY <2>8, <4>1 DEF Yields
    <3> QED BY <3>1
  <2>11. \A g \in Upto(n - 1) : h[g] = f[g]
    BY <2>7, <2>9
  <2>12. Made(n, h)
    <3>1. ASSUME NEW g \in Upto(n)
          PROVE  [k \in DOMAIN g.groups |-> h[g.groups[k]]] = [k \in DOMAIN g.groups |-> f[g.groups[k]]]
      <4> HIDE DEF h
      <4> QED BY <2>8, <2>11
    <3>2. h = [g \in Upto(n) |-> H[<<g, [k \in DOMAIN g.groups |-> h[g.groups[k]]]>>]]
      BY <3>1
    <3> QED BY <3>2
  <2>13. n \in Bad
    OBVIOUS
  <2>14. ~\E x \in [Upto(n) -> V] : Made(n, x)
    <3> HIDE DEF Made
    <3> QED BY <2>13
  <2> HIDE DEF h, Made
  <2> QED BY <2>10, <2>12, <2>14
<1>3. PICK f \in [Groups -> V] : Made(Len(Layers), f)
  <2>1. Len(Layers) \in 0..Len(Layers)
    BY <1>1
  <2> HIDE DEF Made
  <2> QED BY <1>2, <2>1 DEF Groups
<1>4. Solves(f, H)
  BY <1>3 DEF Groups, Solves, Below
<1> QED BY <1>4

(* The outcomes of all fetches. *)
Brought == [Fetched -> {"got", "empty"}]

(* What a condition yields is a value, in Match and in the rule test alike. *)
LEMMA ConditionFact ==
    ASSUME NEW c \in Conditions, NEW e
    PROVE  /\ evalConditionWithExtras(c, e) \in Values
           /\ evalConditionWithResult(c, e) = evalConditionWithExtras(c, e)
BY DEF Conditions, evalConditionWithExtras, evalConditionWithResult

(* The first of some numbers. *)
LEMMA MinFact ==
    ASSUME NEW S \in SUBSET Nat, S # {}
    PROVE  /\ Min(S) \in S
           /\ \A n \in S : Min(S) <= n
<1>1. PICK n \in S : \A m \in S : n <= m
  BY WellOrdered
<1> QED BY <1>1 DEF Min

(* The judgement of a group is a value if those of its groups are. *)
LEMMA JudgedFact ==
    ASSUME NEW g \in Groups, NEW e, NEW b \in [DOMAIN g.groups -> Values]
    PROVE  /\ Judged(g, e, b) \in Values
           /\ \A k \in 1..(Len(g.conds) + Len(g.groups)) : Child(g, e, b, k) \in Values
<1>1. g.conds \in Seq(Conditions) /\ g.groups \in Seq(Groups)
  BY GroupFact
<1>7. Len(g.conds) \in Nat /\ Len(g.groups) \in Nat
  BY <1>1
<1>8. PICK n \in Nat : n = Len(g.conds)
  BY <1>7
<1>9. PICK m \in Nat : m = Len(g.groups)
  BY <1>7
<1>2. DOMAIN g.groups = 1..m /\ DOMAIN g.conds = 1..n
  BY <1>1, <1>8, <1>9
<1>3. ASSUME NEW k \in 1..(n + m)
      PROVE  Child(g, e, b, k) \in Values
  <2>1. CASE k <= n
    <3>1. k \in 1..n
      BY <1>2, <2>1
    <3>2. g.conds[k] \in Conditions
      BY <1>1, <1>2, <3>1
    <3> QED BY <1>8, <2>1, <3>2, ConditionFact DEF Child
  <2>2. CASE ~(k <= n)
    <3>1. k - n \in 1..m
      BY <2>2
    <3> QED BY <1>2, <1>8, <2>2, <3>1 DEF Child
  <2> QED BY <2>1, <2>2
<1> DEFINE D == {k \in 1..(n + m) : Child(g, e, b, k) # Neutral(g)}
<1>4. D \in SUBSET Nat
  OBVIOUS
<1>5. CASE D = {}
  BY <1>8, <1>9, <1>5 DEF Judged, Neutral, Values
<1>6. CASE D # {}
  <2>1. Min(D) \in D
    <3> HIDE DEF D
    <3> QED BY <1>4, <1>6, MinFact
  <2>2. Judged(g, e, b) = Child(g, e, b, Min(D))
    BY <1>8, <1>9, <1>6 DEF Judged
  <2>3. Min(D) \in 1..(n + m)
    BY <2>1
  <2> HIDE DEF D
  <2> QED BY <1>3, <1>8, <1>9, <2>2, <2>3
<1> QED BY <1>3, <1>5, <1>6, <1>8, <1>9

(* Meaning is what its definition says, for every group there is. *)
LEMMA MeaningFact ==
    ASSUME NEW e
    PROVE  /\ Meaning(e) \in [Groups -> Values]
           /\ \A g \in Groups : Meaning(e)[g] = Judged(g, e, Below(Meaning(e), g))
<1> DEFINE D(f) == [g \in Groups |-> Judged(g, e, [k \in DOMAIN g.groups |-> f[g.groups[k]]])]
           H == [p \in Groups \X Seq(Values) |-> Judged(p[1], e, p[2])]
<1>1. ASSUME NEW g \in Groups, NEW b \in [DOMAIN g.groups -> Values]
      PROVE  H[<<g, b>>] = Judged(g, e, b) /\ H[<<g, b>>] \in Values
  <2>1. g.groups \in Seq(Groups)
    BY GroupFact
  <2>2. b \in Seq(Values)
    BY <2>1
  <2>3. H[<<g, b>>] = Judged(g, e, b)
    BY <2>2
  <2>4. Judged(g, e, b) \in Values
    BY JudgedFact
  <2> QED BY <2>3, <2>4
<1>2. PICK f \in [Groups -> Values] : Solves(f, H)
  <2> HIDE DEF H
  <2>1. Yields(H, Values)
    BY <1>1 DEF Yields
  <2> QED BY <2>1, RecursionOverGroups
<1>3. f = D(f)
  <2>1. ASSUME NEW g \in Groups
        PROVE  f[g] = Judged(g, e, [k \in DOMAIN g.groups |-> f[g.groups[k]]])
    <3>1. [k \in DOMAIN g.groups |-> f[g.groups[k]]] \in [DOMAIN g.groups -> Values]
      BY GroupFact
    <3> HIDE DEF H
    <3> QED BY <1>1, <1>2, <3>1 DEF Solves, Below
  <2> QED BY <2>1
<1>4. Meaning(e) = CHOOSE h : h = D(h)
  BY DEF Meaning
<1>5. Meaning(e) = D(Meaning(e))
  <2> HIDE DEF D
  <2> QED BY <1>3, <1>4
<1>6. \A g \in Groups : Meaning(e)[g] = Judged(g, e, Below(Meaning(e), g))
  BY <1>5 DEF Below
<1>7. Groups \subseteq {g \in Groups : Meaning(e)[g] \in Values}
  <2> DEFINE S == {g \in Groups : Meaning(e)[g] \in Values}
  <2>1. ASSUME NEW g \in Groups, \A k \in DOMAIN g.groups : g.groups[k] \in S
        PROVE  g \in S
    <3>1. Below(Meaning(e), g) \in [DOMAIN g.groups -> Values]
      BY <2>1 DEF Below
    <3>2. Meaning(e)[g] \in Values
      BY <1>6, <3>1, JudgedFact
    <3> QED BY <3>2
  <2> HIDE DEF S
  <2>2. Groups \subseteq S
    BY <2>1, LayerInduction
  <2> QED BY <2>2 DEF S
<1>8. Meaning(e) \in [Groups -> Values]
  BY <1>5, <1>7
<1> QED BY <1>6, <1>8

(* The result of a group is a value if those of its groups are. *)
LEMMA ResultsFact ==
    ASSUME NEW g \in Groups, NEW e, NEW b \in [DOMAIN g.groups -> Values]
    PROVE  evalGroupWithResults(g, e, b) \in Values
BY DEF evalGroupWithResults, Values

(* So is what the rule test makes of a group. *)
LEMMA TestedFact ==
    ASSUME NEW e
    PROVE  /\ Tested(e) \in [Groups -> Values]
           /\ \A g \in Groups : Tested(e)[g] = evalGroupWithResults(g, e, Below(Tested(e), g))
<1> DEFINE D(f) == [g \in Groups |-> evalGroupWithResults(g, e, [k \in DOMAIN g.groups |-> f[g.groups[k]]])]
           H == [p \in Groups \X Seq(Values) |-> evalGroupWithResults(p[1], e, p[2])]
<1>1. ASSUME NEW g \in Groups, NEW b \in [DOMAIN g.groups -> Values]
      PROVE  H[<<g, b>>] = evalGroupWithResults(g, e, b) /\ H[<<g, b>>] \in Values
  <2>1. g.groups \in Seq(Groups)
    BY GroupFact
  <2>2. b \in Seq(Values)
    BY <2>1
  <2>3. H[<<g, b>>] = evalGroupWithResults(g, e, b)
    BY <2>2
  <2>4. evalGroupWithResults(g, e, b) \in Values
    BY ResultsFact
  <2> QED BY <2>3, <2>4
<1>2. PICK f \in [Groups -> Values] : Solves(f, H)
  <2> HIDE DEF H
  <2>1. Yields(H, Values)
    BY <1>1 DEF Yields
  <2> QED BY <2>1, RecursionOverGroups
<1>3. f = D(f)
  <2>1. ASSUME NEW g \in Groups
        PROVE  f[g] = evalGroupWithResults(g, e, [k \in DOMAIN g.groups |-> f[g.groups[k]]])
    <3>1. [k \in DOMAIN g.groups |-> f[g.groups[k]]] \in [DOMAIN g.groups -> Values]
      BY GroupFact
    <3> HIDE DEF H
    <3> QED BY <1>1, <1>2, <3>1 DEF Solves, Below
  <2> QED BY <2>1
<1>4. Tested(e) = CHOOSE h : h = D(h)
  BY DEF Tested
<1>5. Tested(e) = D(Tested(e))
  <2> HIDE DEF D
  <2> QED BY <1>3, <1>4
<1>6. \A g \in Groups : Tested(e)[g] = evalGroupWithResults(g, e, Below(Tested(e), g))
  BY <1>5 DEF Below
<1>7. Groups \subseteq {g \in Groups : Tested(e)[g] \in Values}
  <2> DEFINE S == {g \in Groups : Tested(e)[g] \in Values}
  <2>1. ASSUME NEW g \in Groups, \A k \in DOMAIN g.groups : g.groups[k] \in S
        PROVE  g \in S
    <3>1. Below(Tested(e), g) \in [DOMAIN g.groups -> Values]
      BY <2>1 DEF Below
    <3>2. Tested(e)[g] \in Values
      BY <1>6, <3>1, ResultsFact
    <3> QED BY <3>2
  <2> HIDE DEF S
  <2>2. Groups \subseteq S
    BY <2>1, LayerInduction
  <2> QED BY <2>2 DEF S
<1>8. Tested(e) \in [Groups -> Values]
  BY <1>5, <1>7
<1> QED BY <1>6, <1>8

(* The conditions below a group are its own and those below its groups. *)
LEMMA AllConditionsFact ==
    /\ AllConditions \in [Groups -> SUBSET Conditions]
    /\ \A g \in Groups :
        AllConditions[g] = Range(g.conds) \cup UNION {AllConditions[g.groups[k]] : k \in DOMAIN g.groups}
<1> DEFINE D(f) == [g \in Groups |-> Range(g.conds) \cup UNION {f[g.groups[k]] : k \in DOMAIN g.groups}]
           H == [p \in Groups \X Seq(SUBSET Conditions) |->
                    Range(p[1].conds) \cup UNION {p[2][k] : k \in DOMAIN p[2]}]
<1>1. ASSUME NEW g \in Groups, NEW b \in [DOMAIN g.groups -> SUBSET Conditions]
      PROVE  /\ H[<<g, b>>] = Range(g.conds) \cup UNION {b[k] : k \in DOMAIN g.groups}
             /\ H[<<g, b>>] \in SUBSET Conditions
  <2>1. g.groups \in Seq(Groups) /\ g.conds \in Seq(Conditions)
    BY GroupFact
  <2>2. b \in Seq(SUBSET Conditions) /\ DOMAIN b = DOMAIN g.groups
    BY <2>1
  <2>3. H[<<g, b>>] = Range(g.conds) \cup UNION {b[k] : k \in DOMAIN g.groups}
    BY <2>2
  <2>4. Range(g.conds) \in SUBSET Conditions
    BY <2>1 DEF Range
  <2>5. UNION {b[k] : k \in DOMAIN g.groups} \in SUBSET Conditions
    OBVIOUS
  <2> HIDE DEF H
  <2> QED BY <2>3, <2>4, <2>5
<1>2. PICK f \in [Groups -> SUBSET Conditions] : Solves(f, H)
  <2> HIDE DEF H
  <2>1. Yields(H, SUBSET Conditions)
    BY <1>1 DEF Yields
  <2> QED BY <2>1, RecursionOverGroups
<1>3. f = D(f)
  <2>1. ASSUME NEW g \in Groups
        PROVE  f[g] = Range(g.conds) \cup UNION {f[g.groups[k]] : k \in DOMAIN g.groups}
    <3>1. /\ Below(f, g) \in [DOMAIN g.groups -> SUBSET Conditions]
          /\ \A k \in DOMAIN g.groups : Below(f, g)[k] = f[g.groups[k]]
      BY GroupFact DEF Below
    <3>2. f[g] = Range(g.conds) \cup UNION {Below(f, g)[k] : k \in DOMAIN g.groups}
      <4> HIDE DEF H
      <4> QED BY <1>1, <1>2, <3>1 DEF Solves
    <3> QED BY <3>1, <3>2
  <2> QED BY <2>1
<1>4. AllConditions = CHOOSE h : h = D(h)
  BY DEF AllConditions
<1>5. AllConditions = D(AllConditions)
  <2> HIDE DEF D
  <2> QED BY <1>3, <1>4
<1>6. \A g \in Groups :
        AllConditions[g] = Range(g.conds) \cup UNION {AllConditions[g.groups[k]] : k \in DOMAIN g.groups}
  BY <1>5
<1>7. Groups \subseteq {g \in Groups : AllConditions[g] \in SUBSET Conditions}
  <2> DEFINE S == {g \in Groups : AllConditions[g] \in SUBSET Conditions}
  <2>1. ASSUME NEW g \in Groups, \A k \in DOMAIN g.groups : g.groups[k] \in S
        PROVE  g \in S
    <3>1. Range(g.conds) \in SUBSET Conditions
      BY GroupFact DEF Range
    <3>2. AllConditions[g] \in SUBSET Conditions
      BY <1>6, <2>1, <3>1
    <3> QED BY <3>2
  <2> HIDE DEF S
  <2>2. Groups \subseteq S
    BY <2>1, LayerInduction
  <2> QED BY <2>2 DEF S
<1>8. AllConditions \in [Groups -> SUBSET Conditions]
  BY <1>5, <1>7
<1> QED BY <1>6, <1>8

-----------------------------------------------------------------------------
(* The rule test and the meaning of the rules. *)

(* A number of a set that no other is below is its smallest.                *)
LEMMA MinIs ==
    ASSUME NEW S \in SUBSET Nat, NEW n \in S, \A m \in S : n <= m
    PROVE  Min(S) = n
<1>1. Min(S) \in S /\ Min(S) <= n
  BY MinFact
<1>2. n <= Min(S)
  BY <1>1
<1>3. n \in Nat /\ Min(S) \in Nat
  BY <1>1
<1> QED BY <1>1, <1>2, <1>3

(* The rule test errs at a group only if there is a broken condition in it. *)
LEMMA ErrsOnlyIfBroken ==
    ASSUME NEW e, NEW g \in Groups, Tested(e)[g] = "E"
    PROVE  MayErr(g)
<1> DEFINE S == {h \in Groups : Tested(e)[h] = "E" => MayErr(h)}
<1>1. ASSUME NEW h \in Groups, \A k \in DOMAIN h.groups : h.groups[k] \in S,
             Tested(e)[h] = "E"
      PROVE  MayErr(h)
  <2>1. evalGroupWithResults(h, e, Below(Tested(e), h)) = "E"
    BY <1>1, TestedFact
  <2>2. "E" \in Results(h, e, Below(Tested(e), h))
    BY <2>1 DEF evalGroupWithResults
  <2>3. AllConditions[h] = Range(h.conds) \cup UNION {AllConditions[h.groups[k]] : k \in DOMAIN h.groups}
    BY AllConditionsFact
  <2>4. CASE \E i \in DOMAIN h.conds : evalConditionWithResult(h.conds[i], e) = "E"
    <3>1. PICK i \in DOMAIN h.conds : evalConditionWithResult(h.conds[i], e) = "E"
      BY <2>4
    <3>2. h.conds[i] \in AllConditions[h]
      BY <2>3 DEF Range
    <3>3. "E" \in {h.conds[i].val, h.conds[i].blank}
      BY <3>1 DEF evalConditionWithResult
    <3> QED BY <3>2, <3>3 DEF MayErr
  <2>5. CASE \E i \in DOMAIN Below(Tested(e), h) : Below(Tested(e), h)[i] = "E"
    <3>1. PICK k \in DOMAIN h.groups : Tested(e)[h.groups[k]] = "E"
      BY <2>5 DEF Below
    <3>2. MayErr(h.groups[k])
      BY <1>1, <3>1
    <3> QED BY <2>3, <3>2 DEF MayErr
  <2> QED BY <2>2, <2>4, <2>5 DEF Results
<1>2. Groups \subseteq S
  <2>1. \A h \in Groups : (\A k \in DOMAIN h.groups : h.groups[k] \in S) => h \in S
    BY <1>1
  <2> HIDE DEF S
  <2> QED BY <2>1, LayerInduction
<1> QED BY <1>2

(* Where the rule test does not err, a group is what it means.              *)
LEMMA TestMeans ==
    ASSUME NEW e, NEW g \in Groups, Tested(e)[g] # "E"
    PROVE  Meaning(e)[g] = Tested(e)[g]
<1> DEFINE S == {h \in Groups : Tested(e)[h] # "E" => Meaning(e)[h] = Tested(e)[h]}
<1>1. ASSUME NEW h \in Groups, \A k \in DOMAIN h.groups : h.groups[k] \in S,
             Tested(e)[h] # "E"
      PROVE  Meaning(e)[h] = Tested(e)[h]
  <2>1. /\ h.op \in {"AND", "OR"} /\ h.conds \in Seq(Conditions) /\ h.groups \in Seq(Groups)
        /\ \A k \in DOMAIN h.groups : h.groups[k] \in Groups
    BY GroupFact
  <2>2. PICK n \in Nat : n = Len(h.conds) /\ DOMAIN h.conds = 1..n
    BY <2>1
  <2>3. PICK m \in Nat : m = Len(h.groups) /\ DOMAIN h.groups = 1..m
    BY <2>1
  <2> DEFINE b == Below(Meaning(e), h)
             t == Below(Tested(e), h)
             R == Results(h, e, t)
  <2>4. Tested(e)[h] = evalGroupWithResults(h, e, t) /\ Meaning(e)[h] = Judged(h, e, b)
    BY TestedFact, MeaningFact
  <2>5. "E" \notin R
    BY <1>1, <2>4 DEF evalGroupWithResults
  <2>6. b = t
    <3>1. ASSUME NEW k \in DOMAIN h.groups
          PROVE  Meaning(e)[h.groups[k]] = Tested(e)[h.groups[k]]
      <4>1. Tested(e)[h.groups[k]] \in R
        BY DEF Results, Below
      <4> QED BY <1>1, <2>5, <4>1
    <3> QED BY <3>1 DEF Below
  <2>7. \A k \in 1..(n + m) : Child(h, e, b, k) \in R
    <3>1. ASSUME NEW k \in 1..(n + m)
          PROVE  Child(h, e, t, k) \in R
      <4>1. CASE k <= n
        <5>1. k \in DOMAIN h.conds /\ h.conds[k] \in Conditions
          BY <2>1, <2>2, <4>1
        <5>2. Child(h, e, t, k) = evalConditionWithResult(h.conds[k], e)
          BY <2>2, <4>1, <5>1, ConditionFact DEF Child
        <5> QED BY <5>1, <5>2 DEF Results
      <4>2. CASE ~(k <= n)
        <5>1. k - n \in DOMAIN h.groups
          BY <2>3, <4>2
        <5>2. Child(h, e, t, k) = t[k - n]
          BY <2>2, <4>2 DEF Child
        <5> QED BY <5>1, <5>2 DEF Results, Below
      <4> QED BY <4>1, <4>2
    <3> QED BY <2>6, <3>1
  <2>8. \A x \in R : \E k \in 1..(n + m) : x = Child(h, e, b, k)
    <3>1. ASSUME NEW i \in DOMAIN h.conds
          PROVE  \E k \in 1..(n + m) : evalConditionWithResult(h.conds[i], e) = Child(h, e, t, k)
      <4>1. i \in 1..(n + m) /\ i <= n /\ h.conds[i] \in Conditions
        BY <2>1, <2>2
      <4>2. Child(h, e, t, i) = evalConditionWithResult(h.conds[i], e)
        BY <2>2, <4>1, ConditionFact DEF Child
      <4> QED BY <4>1, <4>2
    <3>2. ASSUME NEW i \in DOMAIN h.groups
          PROVE  \E k \in 1..(n + m) : t[i] = Child(h, e, t, k)
      <4>1. i + n \in 1..(n + m) /\ ~(i + n <= n) /\ (i + n) - n = i
        BY <2>3
      <4>2. Child(h, e, t, i + n) = t[i]
        BY <2>2, <4>1 DEF Child
      <4> QED BY <4>1, <4>2
    <3>3. DOMAIN t = DOMAIN h.groups
      BY DEF Below
    <3> HIDE DEF b, t
    <3> QED BY <2>6, <3>1, <3>2, <3>3 DEF Results
  <2>9. R \subseteq {"T", "F"}
    <3>1. t \in [DOMAIN h.groups -> Values] /\ b \in [DOMAIN h.groups -> Values]
      BY <2>1, TestedFact, MeaningFact DEF Below
    <3>2. \A k \in 1..(n + m) : Child(h, e, b, k) \in Values
      <4> HIDE DEF b
      <4> QED BY <2>2, <2>3, <3>1, JudgedFact
    <3> HIDE DEF R, b, t
    <3> QED BY <2>5, <2>8, <3>2 DEF Values
  <2> DEFINE D == {k \in 1..(n + m) : Child(h, e, b, k) # Neutral(h)}
  <2>10. Judged(h, e, b) = IF D = {} THEN Neutral(h) ELSE Child(h, e, b, Min(D))
    BY <2>2, <2>3 DEF Judged
  <2> HIDE DEF R, b, t
  <2>11. CASE D = {}
    <3>1. R \subseteq {Neutral(h)}
      BY <2>8, <2>11
    <3>2. evalGroupWithResults(h, e, t) = Neutral(h)
      BY <2>1, <3>1 DEF R, evalGroupWithResults, Neutral
    <3> QED BY <2>4, <2>10, <2>11, <3>2 DEF b, t
  <2>12. CASE D # {}
    <3>1. Min(D) \in D
      <4>1. D \in SUBSET Nat
        OBVIOUS
      <4> HIDE DEF D
      <4> QED BY <2>12, <4>1, MinFact
    <3>2. Child(h, e, b, Min(D)) \in R /\ Child(h, e, b, Min(D)) # Neutral(h)
      BY <2>7, <3>1
    <3> DEFINE x == Child(h, e, b, Min(D))
    <3>3. x \in R /\ x # Neutral(h) /\ x \in {"T", "F"}
      BY <2>9, <3>2
    <3> HIDE DEF x
    <3>4. evalGroupWithResults(h, e, t) = x
      BY <2>1, <2>5, <3>3 DEF R, evalGroupWithResults, Neutral
    <3>5. Judged(h, e, b) = x
      BY <2>10, <2>12 DEF x
    <3> QED BY <2>4, <3>4, <3>5 DEF b, t
  <2> QED BY <2>11, <2>12
<1>2. Groups \subseteq S
  <2>1. \A h \in Groups : (\A k \in DOMAIN h.groups : h.groups[k] \in S) => h \in S
    BY <1>1
  <2> HIDE DEF S
  <2> QED BY <2>1, LayerInduction
<1> QED BY <1>2

(* The rule test of a rule is what the rule means, or it errs and there is   *)
(* a broken condition in the rule.                                           *)
LEMMA RuleTestFact ==
    ASSUME NEW r, r.groups \in Seq(Groups), NEW e
    PROVE  \/ EvaluateWithResults(r, e) = RuleMeaning(r, e)
           \/ /\ EvaluateWithResults(r, e) = "E"
              /\ \E k \in DOMAIN r.groups : MayErr(r.groups[k])
<1> DEFINE stops == {i \in DOMAIN r.groups : Tested(e)[r.groups[i]] # "T"}
           failing == {i \in DOMAIN r.groups : Meaning(e)[r.groups[i]] # "T"}
<1>1. /\ EvaluateWithResults(r, e) = IF stops = {} THEN "T" ELSE Tested(e)[r.groups[Min(stops)]]
      /\ RuleMeaning(r, e) = IF failing = {} THEN "T" ELSE Meaning(e)[r.groups[Min(failing)]]
  BY DEF EvaluateWithResults, RuleMeaning
<1>2. stops \in SUBSET Nat /\ failing \in SUBSET Nat
  OBVIOUS
<1>3. \A i \in DOMAIN r.groups : r.groups[i] \in Groups
  OBVIOUS
<1>4. \A i \in DOMAIN r.groups : i \notin stops => i \notin failing
  BY <1>3, TestMeans
<1>5. CASE stops = {}
  <2>1. failing = {}
    BY <1>4, <1>5
  <2> QED BY <1>1, <1>5, <2>1
<1>6. CASE stops # {}
  <2> DEFINE i == Min(stops)
  <2>1. i \in stops /\ \A j \in stops : i <= j
    <3> HIDE DEF stops
    <3> QED BY <1>2, <1>6, MinFact
  <2>2. EvaluateWithResults(r, e) = Tested(e)[r.groups[i]]
    BY <1>1, <1>6
  <2> HIDE DEF i
  <2>3. i \in DOMAIN r.groups /\ r.groups[i] \in Groups
    BY <1>3, <2>1
  <2>4. CASE Tested(e)[r.groups[i]] = "E"
    BY <2>2, <2>3, <2>4, ErrsOnlyIfBroken
  <2>5. CASE Tested(e)[r.groups[i]] # "E"
    <3>1. Meaning(e)[r.groups[i]] = Tested(e)[r.groups[i]]
      BY <2>3, <2>5, TestMeans
    <3>2. i \in failing
      BY <2>1, <2>3, <3>1
    <3>3. \A j \in failing : i <= j
      <4>1. failing \subseteq stops
        BY <1>4
      <4> QED BY <2>1, <4>1
    <3>4. Min(failing) = i
      <4> HIDE DEF failing, stops
      <4> QED BY <1>2, <3>2, <3>3, MinIs
    <3>5. RuleMeaning(r, e) = Meaning(e)[r.groups[i]]
      <4>1. failing # {}
        BY <3>2
      <4> QED BY <1>1, <3>4, <4>1
    <3> QED BY <2>2, <3>1, <3>5
  <2> QED BY <2>4, <2>5
<1> QED BY <1>5, <1>6

-----------------------------------------------------------------------------
(* Match, step by step. *)

Working == pc \in {"groups", "eval", "return"}

Frames == [group : Groups, child : Nat \ {0}]

(* The k-th group of frame f's group is being evaluated. *)
Called(f) == f.group.groups[f.child - Len(f.group.conds)]
Calls(f) == f.child - Len(f.group.conds) \in DOMAIN f.group.groups

(* Types, and how the stack hangs together: each group on it is the one the *)
(* frame below calls, the first one the rule's.                             *)
TypeInv ==
    /\ rules \in Seq(Rules) /\ now \in Moments
    /\ pc \in {"rule", "groups", "eval", "return", "matched", "failed", "none"}
    /\ at \in 1..(Len(rules) + 1) /\ group \in Nat \ {0}
    /\ Working => at <= Len(rules)
    /\ pc \in {"eval", "return"} => group <= Len(Rule.groups)
    /\ stack \in Seq(Frames)
    /\ ret \in BOOLEAN
    /\ extras \in [Fetched -> {"unread", "got", "empty"}]
    /\ vals \in [DOMAIN rules -> Values \cup {"skipped"}]
    /\ result \in 0..Len(rules)

FetchInv ==
    /\ fetches \in [Fetched -> Nat]
    /\ \A s \in Fetched : fetches[s] = IF extras[s] = "unread" THEN 0 ELSE 1

CapturesInv ==
    /\ captures \subseteq DOMAIN rules
    /\ pc \notin {"rule", "none"} => captures \subseteq {at}
    /\ pc = "matched" => result = at

StackInv ==
    /\ pc = "eval" => stack # <<>>
    /\ pc \notin {"eval", "return"} => stack = <<>>
    /\ \A f \in DOMAIN stack : f # Len(stack) \/ pc = "return" => Calls(stack[f])
    /\ \A f \in DOMAIN stack : f # 1 => stack[f].group = Called(stack[f - 1])
    /\ stack # <<>> => stack[1].group = Rule.groups[group]

Value(b) == IF b THEN "T" ELSE "F"

ChildMeans(e, g, k) == Child(g, e, Below(Meaning(e), g), k)

(* Match ends with such a rule. *)
Decisive(e, r) ==
    /\ r.enabled
    /\ RuleMeaning(r, e) # "F"
    /\ RuleMeaning(r, e) = "T" => inSchedule(r)

(* The rest of the invariant says that what Match has found out agrees with *)
(* what the groups and rules mean under outcomes e of the fetches: no rule  *)
(* before the one at hand decides,                                          *)
PassedInv(e) == \A i \in 1..(at - 1) : ~Decisive(e, rules[i])

(* its groups before the one at hand hold,                                  *)
GroupsInv(e) ==
    Working => /\ Rule.enabled
               /\ \A j \in 1..(group - 1) : Meaning(e)[Rule.groups[j]] = "T"

(* no child of a group on the stack before the one at hand decides, and an  *)
(* error of a group on it is one of the rule's,                             *)
FramesInv(e) ==
    \A f \in DOMAIN stack :
        /\ \A k \in 1..(stack[f].child - 1) :
            ChildMeans(e, stack[f].group, k) = Neutral(stack[f].group)
        /\ Meaning(e)[stack[f].group] = "E" => Meaning(e)[Rule.groups[group]] = "E"

(* what is returned is what the group means,                                *)
ReturnInv(e) ==
    pc = "return" =>
        IF stack = <<>> THEN Meaning(e)[Rule.groups[group]] = Value(ret)
        ELSE ChildMeans(e, Top.group, Top.child) = Value(ret)

(* and so are the verdict on a rule                                         *)
ValsInv(e) == \A i \in DOMAIN rules : vals[i] # "skipped" => vals[i] = RuleMeaning(rules[i], e)

(* and how Match ends.                                                      *)
VerdictInv(e) ==
    /\ pc = "matched" => /\ at <= Len(rules) /\ Rule.enabled
                         /\ RuleMeaning(Rule, e) = "T" /\ inSchedule(Rule)
    /\ pc = "failed" => at <= Len(rules) /\ Rule.enabled /\ RuleMeaning(Rule, e) = "E"
    /\ pc = "none" => at = Len(rules) + 1

JudgeInv(e) ==
    /\ PassedInv(e) /\ GroupsInv(e) /\ FramesInv(e)
    /\ ReturnInv(e) /\ ValsInv(e) /\ VerdictInv(e)

EngineInv ==
    /\ TypeInv /\ FetchInv /\ CapturesInv /\ StackInv
    /\ \A e \in Completions : JudgeInv(e)

(* How many children a group has. *)
Size(g) == Len(g.conds) + Len(g.groups)

(* What a group means, child by child. *)
LEMMA ChildFact ==
    ASSUME NEW e, NEW g \in Groups, NEW k \in Nat \ {0}
    PROVE  /\ k <= Len(g.conds) => /\ g.conds[k] \in Conditions
                                   /\ ChildMeans(e, g, k) = evalConditionWithExtras(g.conds[k], e)
           /\ k - Len(g.conds) \in DOMAIN g.groups =>
                /\ g.groups[k - Len(g.conds)] \in Groups
                /\ k \in 1..Size(g)
                /\ ChildMeans(e, g, k) = Meaning(e)[g.groups[k - Len(g.conds)]]
<1>1. g.conds \in Seq(Conditions) /\ g.groups \in Seq(Groups)
  BY GroupFact
<1>2. PICK n \in Nat : n = Len(g.conds) /\ DOMAIN g.conds = 1..n
  BY <1>1
<1>3. PICK m \in Nat : m = Len(g.groups) /\ DOMAIN g.groups = 1..m
  BY <1>1
<1>4. ASSUME k <= n
      PROVE  g.conds[k] \in Conditions /\ ChildMeans(e, g, k) = evalConditionWithExtras(g.conds[k], e)
  <2>1. k \in 1..n
    BY <1>4
  <2> QED BY <1>1, <1>2, <1>4, <2>1 DEF ChildMeans, Child
<1>5. ASSUME k - n \in DOMAIN g.groups
      PROVE  /\ g.groups[k - n] \in Groups
             /\ k \in 1..(n + m)
             /\ ChildMeans(e, g, k) = Meaning(e)[g.groups[k - n]]
  <2>1. ~(k <= n) /\ k \in 1..(n + m)
    BY <1>3, <1>5
  <2> QED BY <1>1, <1>2, <1>5, <2>1 DEF ChildMeans, Child, Below
<1> QED BY <1>2, <1>3, <1>4, <1>5 DEF Size

(* It is a number. *)
LEMMA SizeFact ==
    ASSUME NEW g \in Groups
    PROVE  Size(g) \in Nat
<1>1. g.conds \in Seq(Conditions) /\ g.groups \in Seq(Groups)
  BY GroupFact
<1>2. PICK c \in Nat, m \in Nat : c = Len(g.conds) /\ m = Len(g.groups)
  BY <1>1
<1>3. Size(g) = c + m
  BY <1>2, Zenon DEF Size
<1>4. c + m \in Nat
  OBVIOUS
<1> QED BY <1>3, <1>4

(* The first child that decides is what a group means. *)
LEMMA GroupDecided ==
    ASSUME NEW e, NEW g \in Groups, NEW k \in 1..Size(g),
           \A j \in 1..(k - 1) : ChildMeans(e, g, j) = Neutral(g),
           ChildMeans(e, g, k) # Neutral(g)
    PROVE  Meaning(e)[g] = ChildMeans(e, g, k)
<1> DEFINE D == {j \in 1..Size(g) : ChildMeans(e, g, j) # Neutral(g)}
<1>1. Meaning(e)[g] = IF D = {} THEN Neutral(g) ELSE ChildMeans(e, g, Min(D))
  BY MeaningFact DEF ChildMeans, Judged, Size
<1>2. Size(g) \in Nat
  BY SizeFact
<1>3. D \in SUBSET Nat /\ k \in D
  BY <1>2
<1>4. ASSUME NEW j \in D
      PROVE  k <= j
  <2>1. j \in Nat /\ k \in Nat /\ j >= 1
    BY <1>2
  <2>2. j \notin 1..(k - 1)
    OBVIOUS
  <2> QED BY <2>1, <2>2
<1>5. Min(D) = k
  <2> HIDE DEF D
  <2> QED BY <1>3, <1>4, MinIs
<1> QED BY <1>1, <1>3, <1>5

(* A group no child of which decides is as its operator says. *)
LEMMA GroupUndecided ==
    ASSUME NEW e, NEW g \in Groups, NEW k \in Nat, k > Size(g),
           \A j \in 1..(k - 1) : ChildMeans(e, g, j) = Neutral(g)
    PROVE  Meaning(e)[g] = Neutral(g)
<1>1. \A j \in 1..Size(g) : j \in 1..(k - 1)
  BY SizeFact
<1>2. {j \in 1..Size(g) : ChildMeans(e, g, j) # Neutral(g)} = {}
  BY <1>1
<1> QED BY <1>2, MeaningFact DEF ChildMeans, Judged, Size

(* The first group that does not hold is what a rule means; a rule all of   *)
(* whose groups hold does.                                                  *)
LEMMA RuleDecided ==
    ASSUME NEW e, NEW r, r.groups \in Seq(Groups)
    PROVE  /\ \A i \in DOMAIN r.groups :
                /\ \A j \in 1..(i - 1) : Meaning(e)[r.groups[j]] = "T"
                /\ Meaning(e)[r.groups[i]] # "T"
                => RuleMeaning(r, e) = Meaning(e)[r.groups[i]]
           /\ (\A i \in DOMAIN r.groups : Meaning(e)[r.groups[i]] = "T") => RuleMeaning(r, e) = "T"
<1> DEFINE D == {i \in DOMAIN r.groups : Meaning(e)[r.groups[i]] # "T"}
<1>1. RuleMeaning(r, e) = IF D = {} THEN "T" ELSE Meaning(e)[r.groups[Min(D)]]
  BY DEF RuleMeaning
<1>2. PICK n \in Nat : DOMAIN r.groups = 1..n
  OBVIOUS
<1>3. ASSUME NEW i \in DOMAIN r.groups,
             \A j \in 1..(i - 1) : Meaning(e)[r.groups[j]] = "T",
             Meaning(e)[r.groups[i]] # "T"
      PROVE  RuleMeaning(r, e) = Meaning(e)[r.groups[i]]
  <2>1. D \in SUBSET Nat /\ i \in D
    BY <1>2, <1>3
  <2>2. ASSUME NEW j \in D
        PROVE  i <= j
    <3>1. j \in Nat /\ i \in Nat /\ j >= 1
      BY <1>2
    <3>2. j \notin 1..(i - 1)
      BY <1>3
    <3> QED BY <3>1, <3>2
  <2>3. Min(D) = i
    <3> HIDE DEF D
    <3> QED BY <2>1, <2>2, MinIs
  <2> QED BY <1>1, <2>1, <2>3
<1>4. ASSUME \A i \in DOMAIN r.groups : Meaning(e)[r.groups[i]] = "T"
      PROVE  RuleMeaning(r, e) = "T"
  <2>1. D = {}
    BY <1>4
  <2> QED BY <1>1, <2>1
<1> QED BY <1>3, <1>4

(* What a frame's fields are. *)
LEMMA FrameFact ==
    ASSUME NEW f \in Frames
    PROVE  /\ f.group \in Groups /\ f.child \in Nat \ {0}
           /\ f = [group |-> f.group, child |-> f.child]
BY DEF Frames

(* The stack after a step to the next child, a return and a call. *)
LEMMA StackFact ==
    ASSUME stack \in Seq(Frames), stack # <<>>, NEW L, L = Len(stack)
    PROVE  /\ L \in Nat \ {0} /\ DOMAIN stack = 1..L /\ L \in DOMAIN stack
           /\ Top \in Frames /\ Top.group \in Groups /\ Top.child \in Nat \ {0} /\ Top = stack[L]
           /\ Skip \in Seq(Frames) /\ Len(Skip) = L /\ DOMAIN Skip = 1..L
           /\ \A f \in 1..(L - 1) : Skip[f] = stack[f] /\ Pop[f] = stack[f]
           /\ Skip[L].group = Top.group /\ Skip[L].child = Top.child + 1
           /\ Pop \in Seq(Frames) /\ Len(Pop) = L - 1 /\ DOMAIN Pop = 1..(L - 1)
<1>1. L \in Nat \ {0} /\ DOMAIN stack = 1..L /\ L \in DOMAIN stack
  OBVIOUS
<1>2. Top = stack[L] /\ Top \in Frames
  BY <1>1 DEF Top
<1>3. Top.group \in Groups /\ Top.child \in Nat \ {0} /\ Top = [group |-> Top.group, child |-> Top.child]
  BY <1>2, FrameFact
<1> DEFINE t == [Top EXCEPT !.child = @ + 1]
<1>4. t = [group |-> Top.group, child |-> Top.child + 1]
  BY <1>3
<1>5. Skip = [stack EXCEPT ![L] = t]
  BY <1>2 DEF Skip
<1>6. t \in Frames /\ t.group = Top.group /\ t.child = Top.child + 1
  BY <1>3, <1>4 DEF Frames
<1> HIDE DEF t
<1>7. /\ Skip \in Seq(Frames) /\ Len(Skip) = L /\ DOMAIN Skip = 1..L
      /\ Skip[L] = t /\ \A f \in 1..(L - 1) : Skip[f] = stack[f]
  BY <1>1, <1>5, <1>6
<1>8. /\ Pop \in Seq(Frames) /\ Len(Pop) = L - 1 /\ DOMAIN Pop = 1..(L - 1)
      /\ \A f \in 1..(L - 1) : Pop[f] = stack[f]
  BY <1>1 DEF Pop
<1> QED BY <1>1, <1>2, <1>3, <1>6, <1>7, <1>8

(* A rule on the list. *)
LEMMA RuleFact ==
    ASSUME TypeInv, at <= Len(rules)
    PROVE  /\ at \in DOMAIN rules /\ Rule \in Rules
           /\ Rule.groups \in Seq(Groups) /\ Rule.enabled \in BOOLEAN
<1>1. at \in DOMAIN rules
  BY DEF TypeInv
<1>2. Rule \in Rules
  BY <1>1 DEF TypeInv, Rule
<1> QED BY <1>1, <1>2 DEF Rules

(* At first nothing has been looked at. *)
LEMMA EngineInit ==
    Init => EngineInv
<1> SUFFICES ASSUME Init PROVE EngineInv
  OBVIOUS
<1>1. PICK c \in Cases : rules = c.rules /\ now = c.now
  BY DEF Init
<1>2. rules \in Seq(Rules) /\ now \in Moments
  BY <1>1, EngineAssumption
<1>3. Len(rules) \in Nat
  BY <1>2
<1>4. TypeInv
  <2>1. /\ pc = "rule" /\ at = 1 /\ group = 1 /\ stack = <<>> /\ result = 0
        /\ extras \in [Fetched -> {"unread", "got", "empty"}]
        /\ vals \in [DOMAIN rules -> Values \cup {"skipped"}]
    BY DEF Init
  <2>2. <<>> \in Seq(Frames)
    OBVIOUS
  <2>3. 1 \in 1..(Len(rules) + 1) /\ 0 \in 0..Len(rules)
    BY <1>3
  <2>4. at \in 1..(Len(rules) + 1) /\ result \in 0..Len(rules) /\ stack \in Seq(Frames)
    BY <2>1, <2>2, <2>3
  <2>5. pc = "rule" /\ group \in Nat \ {0}
    BY <2>1
  <2>6. ret \in BOOLEAN
    BY Zenon DEF Init
  <2> QED BY <1>2, <2>1, <2>4, <2>5, <2>6 DEF TypeInv, Working
<1>5. FetchInv /\ CapturesInv /\ StackInv
  BY DEF Init, FetchInv, CapturesInv, StackInv
<1>6. ASSUME NEW e \in Completions
      PROVE  JudgeInv(e)
  <2>1. 1..(at - 1) = {}
    BY DEF Init
  <2>2. \A i \in DOMAIN rules : vals[i] = "skipped"
    BY DEF Init
  <2>3. stack = <<>> /\ pc = "rule"
    BY DEF Init
  <2> QED BY <2>1, <2>2, <2>3 DEF JudgeInv, PassedInv, GroupsInv, FramesInv, ReturnInv,
                                   ValsInv, VerdictInv, Working
<1> QED BY <1>4, <1>5, <1>6 DEF EngineInv

(* The top frame after a call. *)
LEMMA CallFact ==
    ASSUME NEW g \in Groups
    PROVE  LET f == [group |-> g, child |-> 1]
           IN  f \in Frames /\ f.group = g /\ f.child = 1
BY DEF Frames

(* Every step keeps the types. *)
LEMMA TypeNext ==
    ASSUME TypeInv, StackInv, [Next]_vars
    PROVE  TypeInv'
<1>1. /\ rules \in Seq(Rules) /\ now \in Moments /\ Len(rules) \in Nat
      /\ at \in 1..(Len(rules) + 1) /\ group \in Nat \ {0} /\ ret \in BOOLEAN
      /\ stack \in Seq(Frames) /\ result \in 0..Len(rules)
      /\ vals \in [DOMAIN rules -> Values \cup {"skipped"}] /\ DOMAIN rules = 1..Len(rules)
      /\ extras \in [Fetched -> {"unread", "got", "empty"}]
      /\ pc \in {"rule", "groups", "eval", "return", "matched", "failed", "none"}
  BY DEF TypeInv
<1>2. CASE UNCHANGED vars
  BY <1>2 DEF TypeInv, vars, args, fetching, Working, Rule
<1>3. CASE NoMoreRules
  BY <1>1, <1>3 DEF NoMoreRules, Finish, args, fetching, TypeInv, Working
<1>4. CASE SkipDisabled
  BY <1>1, <1>4 DEF SkipDisabled, NextRule, args, TypeInv, Working
<1>5. CASE EvaluateRule
  BY <1>1, <1>5 DEF EvaluateRule, args, TypeInv, Working
<1>6. CASE RuleHolds
  <2>1. at <= Len(rules)
    BY <1>6 DEF RuleHolds, TypeInv, Working
  <2>2. vals' \in [DOMAIN rules -> Values \cup {"skipped"}]
    BY <1>1, <1>6 DEF RuleHolds, Values
  <2>3. CASE Finish("matched", at) /\ UNCHANGED ret
    BY <1>1, <2>1, <2>2, <2>3 DEF Finish, args, fetching, TypeInv, Working
  <2>4. CASE NextRule
    BY <1>1, <2>1, <2>2, <2>4 DEF NextRule, args, fetching, TypeInv, Working
  <2> QED BY <1>6, <2>3, <2>4 DEF RuleHolds
<1>7. CASE EvalGroup
  <2>1. at <= Len(rules) /\ group <= Len(Rule.groups)
    BY <1>7 DEF EvalGroup, TypeInv, Working
  <2>2. Rule.groups \in Seq(Groups)
    BY <2>1, RuleFact
  <2>3. Rule.groups[group] \in Groups
    BY <1>1, <2>1, <2>2
  <2>4. stack' \in Seq(Frames)
    BY <1>7, <2>3, CallFact DEF EvalGroup
  <2> QED BY <1>1, <1>7, <2>1, <2>4 DEF EvalGroup, args, fetching, TypeInv, Working, Rule
<1>8. CASE EvalCondition
  <2>1. at <= Len(rules) /\ group <= Len(Rule.groups) /\ stack # <<>>
    BY <1>8 DEF EvalCondition, TypeInv, StackInv, Working
  <2>2. Pop \in Seq(Frames) /\ Skip \in Seq(Frames)
    BY <1>1, <2>1, StackFact
  <2>3. extras' \in [Fetched -> {"unread", "got", "empty"}]
    BY <1>1, <1>8 DEF EvalCondition, ensureFetched
  <2>4. /\ pc' \in {"eval", "return", "failed"} /\ stack' \in Seq(Frames)
        /\ vals' \in [DOMAIN rules -> Values \cup {"skipped"}] /\ ret' \in BOOLEAN
    <3> DEFINE v == evalConditionWithExtras(Top.group.conds[Top.child], extras')
    <3>1. CASE v = "E"
      BY <1>1, <1>8, <3>1 DEF EvalCondition, Return, Values
    <3>2. CASE v # "E" /\ Decides(Top.group.op, v = "T")
      BY <1>1, <1>8, <2>2, <3>2 DEF EvalCondition, Return
    <3>3. CASE v # "E" /\ ~Decides(Top.group.op, v = "T")
      BY <1>1, <1>8, <2>2, <3>3 DEF EvalCondition, Return
    <3> QED BY <3>1, <3>2, <3>3
  <2>5. UNCHANGED <<rules, now, at, group, result>>
    BY <1>8 DEF EvalCondition, args
  <2> QED BY <1>1, <2>1, <2>3, <2>4, <2>5 DEF TypeInv, Working, Rule
<1>9. CASE EvalSubgroup
  <2>1. at <= Len(rules) /\ group <= Len(Rule.groups) /\ stack # <<>>
    BY <1>9 DEF EvalSubgroup, TypeInv, StackInv, Working
  <2>2. Top.group \in Groups
    BY <1>1, <2>1, StackFact
  <2>3. Top.group.groups[Top.child - Len(Top.group.conds)] \in Groups
    BY <1>9, <2>2, GroupFact DEF EvalSubgroup
  <2>4. stack' \in Seq(Frames)
    BY <1>1, <1>9, <2>3, CallFact DEF EvalSubgroup
  <2> QED BY <1>1, <1>9, <2>1, <2>4 DEF EvalSubgroup, args, fetching, TypeInv, Working, Rule
<1>10. CASE GroupEnds
  <2>1. at <= Len(rules) /\ group <= Len(Rule.groups) /\ stack # <<>>
    BY <1>10 DEF GroupEnds, TypeInv, StackInv, Working
  <2>2. Pop \in Seq(Frames)
    BY <1>1, <2>1, StackFact
  <2>3. ret' \in BOOLEAN /\ stack' \in Seq(Frames)
    BY <1>10, <2>2 DEF GroupEnds, Return
  <2> QED BY <1>1, <1>10, <2>1, <2>3 DEF GroupEnds, Return, args, fetching, TypeInv, Working, Rule
<1>11. CASE ReturnToGroup
  <2>1. at <= Len(rules) /\ group <= Len(Rule.groups) /\ stack # <<>>
    BY <1>11 DEF ReturnToGroup, TypeInv, Working
  <2>2. Pop \in Seq(Frames) /\ Skip \in Seq(Frames)
    BY <1>1, <2>1, StackFact
  <2>3. ret' = ret /\ stack' \in Seq(Frames) /\ pc' \in {"eval", "return"}
    BY <1>11, <2>2 DEF ReturnToGroup, Return
  <2> QED BY <1>1, <1>11, <2>1, <2>3 DEF ReturnToGroup, args, fetching, TypeInv, Working, Rule
<1>12. CASE ReturnToRule
  <2>1. at <= Len(rules) /\ group <= Len(Rule.groups)
    BY <1>12 DEF ReturnToRule, TypeInv, Working
  <2>2. vals' \in [DOMAIN rules -> Values \cup {"skipped"}]
    BY <1>1, <1>12 DEF ReturnToRule, Values
  <2>3. CASE ret
    BY <1>1, <1>12, <2>1, <2>3 DEF ReturnToRule, args, fetching, TypeInv, Working, Rule
  <2>4. CASE ~ret
    BY <1>1, <1>12, <2>1, <2>2, <2>4 DEF ReturnToRule, NextRule, args, fetching, TypeInv, Working, Rule
  <2> QED BY <2>3, <2>4
<1> QED BY <1>2, <1>3, <1>4, <1>5, <1>6, <1>7, <1>8, <1>9, <1>10, <1>11, <1>12 DEF Next

(* A source is fetched when it is first needed, and then never again.       *)
LEMMA FetchNext ==
    ASSUME TypeInv, FetchInv, [Next]_vars
    PROVE  FetchInv'
<1>1. CASE EvalCondition
  <2>1. PICK s : ensureFetched(s)
    BY <1>1 DEF EvalCondition
  <2>2. CASE s \in Fetched /\ extras[s] = "unread"
    <3>1. PICK got \in {"got", "empty"} : extras' = [extras EXCEPT ![s] = got]
      BY <2>1, <2>2 DEF ensureFetched
    <3>2. fetches' = [fetches EXCEPT ![s] = @ + 1]
      BY <2>1, <2>2 DEF ensureFetched
    <3>3. extras'[s] # "unread" /\ fetches'[s] = 1 /\ fetches' \in [Fetched -> Nat]
      BY <2>2, <3>1, <3>2 DEF TypeInv, FetchInv
    <3>4. \A r \in Fetched \ {s} : extras'[r] = extras[r] /\ fetches'[r] = fetches[r]
      BY <3>1, <3>2 DEF TypeInv, FetchInv
    <3> QED BY <3>3, <3>4 DEF FetchInv
  <2>3. CASE ~(s \in Fetched /\ extras[s] = "unread")
    <3>1. UNCHANGED <<extras, fetches>>
      BY <2>1, <2>3 DEF ensureFetched
    <3> QED BY <3>1 DEF FetchInv
  <2> QED BY <2>2, <2>3
<1>2. CASE ~EvalCondition
  <2>1. UNCHANGED <<extras, fetches>>
    BY <1>2 DEF Next, vars, fetching, NoMoreRules, SkipDisabled, EvaluateRule, RuleHolds,
                EvalGroup, EvalSubgroup, GroupEnds, ReturnToGroup, ReturnToRule, Finish, NextRule
  <2> QED BY <2>1 DEF FetchInv
<1> QED BY <1>1, <1>2

(* Captures are the rule's at work. *)
LEMMA CapturesNext ==
    ASSUME TypeInv, CapturesInv, [Next]_vars
    PROVE  CapturesInv'
<1>1. rules' = rules
  BY DEF Next, vars, args, NoMoreRules, SkipDisabled, EvaluateRule, RuleHolds, EvalGroup,
         EvalCondition, EvalSubgroup, GroupEnds, ReturnToGroup, ReturnToRule, Finish, NextRule
<1>2. CASE EvalCondition
  <2>1. captures' \in {captures, captures \cup {at}} /\ at' = at
    BY <1>2 DEF EvalCondition
  <2>2. pc = "eval" /\ pc' \in {"eval", "return", "failed"}
    BY <1>2 DEF EvalCondition, Return
  <2>3. at \in DOMAIN rules
    BY <2>2, RuleFact DEF TypeInv, Working
  <2> QED BY <1>1, <2>1, <2>2, <2>3 DEF CapturesInv
<1>3. CASE EvaluateRule
  BY <1>1, <1>3 DEF EvaluateRule, CapturesInv
<1>4. CASE UNCHANGED vars
  BY <1>1, <1>4 DEF vars, fetching, CapturesInv
<1>5. CASE NoMoreRules \/ SkipDisabled
  BY <1>1, <1>5 DEF NoMoreRules, SkipDisabled, Finish, NextRule, fetching, CapturesInv
<1>6. CASE RuleHolds
  BY <1>1, <1>6 DEF RuleHolds, Finish, NextRule, fetching, CapturesInv
<1>7. CASE EvalGroup \/ EvalSubgroup \/ GroupEnds
  BY <1>1, <1>7 DEF EvalGroup, EvalSubgroup, GroupEnds, Return, fetching, CapturesInv
<1>8. CASE ReturnToGroup
  BY <1>1, <1>8 DEF ReturnToGroup, Return, fetching, CapturesInv
<1>9. CASE ReturnToRule
  BY <1>1, <1>9 DEF ReturnToRule, NextRule, fetching, CapturesInv
<1> QED BY <1>2, <1>3, <1>4, <1>5, <1>6, <1>7, <1>8, <1>9 DEF Next

(* A return pops the frame; the one below called it. *)
LEMMA PopKeeps ==
    ASSUME TypeInv, StackInv, stack # <<>>, stack' = Pop, pc' = "return",
           UNCHANGED <<rules, at, group>>
    PROVE  StackInv'
<1> DEFINE L == Len(stack)
<1>1. stack \in Seq(Frames)
  BY DEF TypeInv
<1>2. /\ L \in Nat \ {0} /\ DOMAIN stack = 1..L
      /\ \A f \in 1..(L - 1) : Pop[f] = stack[f]
      /\ Len(Pop) = L - 1 /\ DOMAIN Pop = 1..(L - 1)
  BY <1>1, StackFact
<1> HIDE DEF L
<1>3. \A f \in 1..(L - 1) : Calls(stack[f])
  BY <1>2 DEF StackInv, L
<1>4. \A f \in 1..(L - 1) : f # 1 => f - 1 \in 1..(L - 1) /\ stack[f].group = Called(stack[f - 1])
  BY <1>2 DEF StackInv
<1>5. ASSUME Pop # <<>>
      PROVE  Pop[1] = stack[1] /\ stack[1].group = Rule.groups[group]
  <2>1. L - 1 # 0
    BY <1>1, <1>2, <1>5 DEF Pop, L
  <2> QED BY <1>2, <2>1 DEF StackInv
<1>6. Rule' = Rule
  BY DEF Rule
<1> QED BY <1>2, <1>3, <1>4, <1>5, <1>6 DEF StackInv

(* So does going on to the next child, as long as nothing is being called.   *)
LEMMA SkipKeeps ==
    ASSUME TypeInv, StackInv, stack # <<>>, stack' = Skip, pc' = "eval",
           UNCHANGED <<rules, at, group>>
    PROVE  StackInv'
<1> DEFINE L == Len(stack)
<1>1. stack \in Seq(Frames)
  BY DEF TypeInv
<1>2. /\ L \in Nat \ {0} /\ DOMAIN stack = 1..L
      /\ \A f \in 1..(L - 1) : Skip[f] = stack[f]
      /\ Len(Skip) = L /\ DOMAIN Skip = 1..L /\ Skip[L].group = stack[L].group
  BY <1>1, StackFact
<1>3. Skip # <<>> /\ L \in DOMAIN stack
  BY <1>2
<1> HIDE DEF L
<1>4. \A f \in 1..L : f # L => Calls(stack[f])
  BY <1>2 DEF StackInv, L
<1>5. \A f \in 1..L : f # L => Skip[f] = stack[f]
  BY <1>2
<1>6. \A f \in 1..L : f # 1 => f - 1 \in 1..(L - 1) /\ stack[f].group = Called(stack[f - 1])
  BY <1>2 DEF StackInv
<1>7. \A f \in 1..L : Skip[f].group = stack[f].group
  BY <1>2, <1>5
<1>8. 1 \in 1..L /\ stack[1].group = Rule.groups[group]
  BY <1>2 DEF StackInv
<1>9. Rule' = Rule
  BY DEF Rule
<1>10. \A f \in 1..L : f # 1 => Skip[f].group = Called(Skip[f - 1])
  BY <1>2, <1>6, <1>7
<1>11. \A f \in 1..L : f # L => Calls(Skip[f])
  BY <1>4, <1>5
<1> QED BY <1>2, <1>3, <1>7, <1>8, <1>9, <1>10, <1>11 DEF StackInv

(* A call puts a frame on the one that calls it. *)
LEMMA PushKeeps ==
    ASSUME TypeInv, StackInv, EvalSubgroup
    PROVE  StackInv'
<1> DEFINE L == Len(stack)
           c == [group |-> Called(stack[L]), child |-> 1]
<1>1. stack \in Seq(Frames) /\ stack # <<>>
  BY DEF TypeInv, StackInv, EvalSubgroup
<1>2. L \in Nat \ {0} /\ DOMAIN stack = 1..L /\ Top = stack[L]
  BY <1>1, StackFact
<1>3. Calls(stack[L])
  BY <1>2 DEF EvalSubgroup, Calls
<1>4. stack' = Append(stack, c)
  BY <1>2 DEF EvalSubgroup, Called
<1> HIDE DEF c
<1>5. /\ Len(stack') = L + 1 /\ DOMAIN stack' = 1..(L + 1)
      /\ \A f \in 1..L : stack'[f] = stack[f]
      /\ stack'[L + 1] = c
  BY <1>1, <1>4
<1>6. c.group = Called(stack[L])
  BY DEF c
<1>7. stack' # <<>>
  BY <1>2, <1>5
<1> HIDE DEF L
<1>8. \A f \in 1..L : Calls(stack[f])
  BY <1>2, <1>3 DEF StackInv, L
<1>9. \A f \in 1..L : f # 1 => f - 1 \in 1..L /\ stack[f].group = Called(stack[f - 1])
  BY <1>2 DEF StackInv
<1>10. 1 \in 1..L /\ stack[1].group = Rule.groups[group]
  BY <1>1, <1>2 DEF StackInv
<1>11. Rule' = Rule /\ pc' = "eval" /\ group' = group
  BY DEF EvalSubgroup, Rule, args
<1>12. \A f \in 1..(L + 1) : f # L + 1 => Calls(stack'[f])
  BY <1>2, <1>5, <1>8
<1>13. \A f \in 1..(L + 1) : f # 1 => stack'[f].group = Called(stack'[f - 1])
  <2>1. ASSUME NEW f \in 1..(L + 1), f # 1
        PROVE  stack'[f].group = Called(stack'[f - 1])
    <3>1. CASE f = L + 1
      <4>1. f - 1 = L /\ L \in 1..L
        BY <1>2, <3>1
      <4> QED BY <1>5, <1>6, <3>1, <4>1
    <3>2. CASE f # L + 1
      <4>1. f \in 1..L /\ f - 1 \in 1..L
        BY <1>2, <2>1, <3>2
      <4> QED BY <1>5, <1>9, <2>1, <4>1
    <3> QED BY <3>1, <3>2
  <2> QED BY <2>1
<1> QED BY <1>5, <1>7, <1>10, <1>11, <1>12, <1>13 DEF StackInv

(* Every step keeps the stack in order. *)
LEMMA StackNext ==
    ASSUME TypeInv, StackInv, [Next]_vars
    PROVE  StackInv'
<1>1. CASE UNCHANGED vars
  BY <1>1 DEF vars, args, StackInv, Rule
<1>2. CASE NoMoreRules \/ SkipDisabled \/ EvaluateRule \/ RuleHolds
  <2>1. stack' = <<>> /\ pc' \notin {"eval", "return"}
    BY <1>2 DEF NoMoreRules, SkipDisabled, EvaluateRule, RuleHolds, Finish, NextRule, StackInv
  <2> QED BY <2>1 DEF StackInv
<1>3. CASE EvalGroup
  <2> DEFINE c == [group |-> Rule.groups[group], child |-> 1]
  <2>1. stack' = <<c>> /\ pc' = "eval" /\ Rule' = Rule /\ group' = group
    BY <1>3 DEF EvalGroup, Rule, args
  <2>2. c.group = Rule.groups[group]
    OBVIOUS
  <2> HIDE DEF c
  <2>3. Len(stack') = 1 /\ DOMAIN stack' = {1} /\ stack'[1] = c /\ stack' # <<>>
    BY <2>1
  <2> QED BY <2>1, <2>2, <2>3 DEF StackInv
<1>4. CASE EvalCondition
  <2>1. stack # <<>> /\ UNCHANGED <<rules, at, group>>
    BY <1>4 DEF EvalCondition, StackInv, args
  <2>2. \/ stack' = <<>> /\ pc' = "failed"
        \/ stack' = Pop /\ pc' = "return"
        \/ stack' = Skip /\ pc' = "eval"
    BY <1>4 DEF EvalCondition, Return
  <2>3. CASE stack' = <<>> /\ pc' = "failed"
    BY <2>3 DEF StackInv
  <2> QED BY <2>1, <2>2, <2>3, PopKeeps, SkipKeeps
<1>5. CASE EvalSubgroup
  BY <1>5, PushKeeps
<1>6. CASE GroupEnds
  <2>1. stack # <<>> /\ UNCHANGED <<rules, at, group>> /\ stack' = Pop /\ pc' = "return"
    BY <1>6 DEF GroupEnds, Return, StackInv, args
  <2> QED BY <2>1, PopKeeps
<1>7. CASE ReturnToGroup
  <2>1. stack # <<>> /\ UNCHANGED <<rules, at, group>>
    BY <1>7 DEF ReturnToGroup, args
  <2>2. \/ stack' = Pop /\ pc' = "return"
        \/ stack' = Skip /\ pc' = "eval"
    <3>1. CASE Decides(Top.group.op, ret)
      BY <1>7, <3>1 DEF ReturnToGroup, Return
    <3>2. CASE ~Decides(Top.group.op, ret)
      BY <1>7, <3>2 DEF ReturnToGroup
    <3> QED BY <3>1, <3>2
  <2> QED BY <2>1, <2>2, PopKeeps, SkipKeeps
<1>8. CASE ReturnToRule
  <2>1. stack' = <<>> /\ pc' \notin {"eval", "return"}
    BY <1>8 DEF ReturnToRule, NextRule
  <2> QED BY <2>1 DEF StackInv
<1> QED BY <1>1, <1>2, <1>3, <1>4, <1>5, <1>6, <1>7, <1>8 DEF Next

(* The arguments of Match stay what they are. *)
LEMMA ArgsSame ==
    ASSUME [Next]_vars
    PROVE  /\ rules' = rules /\ now' = now
           /\ \A r : inSchedule(r)' <=> inSchedule(r)
<1>1. rules' = rules /\ now' = now
  BY DEF Next, vars, args, NoMoreRules, SkipDisabled, EvaluateRule, RuleHolds, EvalGroup,
         EvalCondition, EvalSubgroup, GroupEnds, ReturnToGroup, ReturnToRule, Finish, NextRule
<1>2. \A r : inSchedule(r)' <=> inSchedule(r)
  BY <1>1 DEF inSchedule
<1> QED BY <1>1, <1>2

(* What has been fetched stays as it is. *)
LEMMA CompletionsShrink ==
    ASSUME TypeInv, [Next]_vars
    PROVE  Completions' \subseteq Completions
<1>1. ASSUME NEW s \in Fetched, extras[s] # "unread"
      PROVE  extras'[s] = extras[s]
  <2>1. CASE EvalCondition
    <3>1. PICK r : ensureFetched(r)
      BY <2>1 DEF EvalCondition
    <3>2. CASE UNCHANGED extras
      BY <3>2
    <3>3. CASE r \in Fetched /\ extras[r] = "unread"
      <4>1. PICK got \in {"got", "empty"} : extras' = [extras EXCEPT ![r] = got]
        BY <3>1, <3>3 DEF ensureFetched
      <4> QED BY <1>1, <3>3, <4>1 DEF TypeInv
    <3> QED BY <3>1, <3>2, <3>3 DEF ensureFetched
  <2>2. CASE ~EvalCondition
    BY <2>2 DEF Next, vars, fetching, NoMoreRules, SkipDisabled, EvaluateRule, RuleHolds,
                EvalGroup, EvalSubgroup, GroupEnds, ReturnToGroup, ReturnToRule, Finish, NextRule
  <2> QED BY <2>1, <2>2
<1> QED BY <1>1 DEF Completions

(* What Match makes of a condition is what it means, whatever the fetches    *)
(* that have not been made will bring.                                       *)
LEMMA ConditionSame ==
    ASSUME TypeInv, StackInv, EvalCondition, NEW e \in Completions'
    PROVE  /\ Top.child \in 1..Size(Top.group)
           /\ ChildMeans(e, Top.group, Top.child)
                  = evalConditionWithExtras(Top.group.conds[Top.child], extras')
           /\ evalConditionWithExtras(Top.group.conds[Top.child], extras') \in Values
<1>1. stack \in Seq(Frames) /\ stack # <<>>
  BY DEF TypeInv, StackInv, EvalCondition
<1>2. Top.group \in Groups /\ Top.child \in Nat \ {0}
  BY <1>1, StackFact
<1> DEFINE c == Top.group.conds[Top.child]
<1>3. Top.child <= Len(Top.group.conds)
  BY DEF EvalCondition
<1>4. c \in Conditions /\ ChildMeans(e, Top.group, Top.child) = evalConditionWithExtras(c, e)
  BY <1>2, <1>3, ChildFact
<1>5. ensureFetched(c.src)
  BY DEF EvalCondition
<1> HIDE DEF c
<1>6. c.src \in Fetched => extras'[c.src] # "unread"
  <2>1. CASE c.src \in Fetched /\ extras[c.src] = "unread"
    <3>1. PICK got \in {"got", "empty"} : extras' = [extras EXCEPT ![c.src] = got]
      BY <1>5, <2>1 DEF ensureFetched
    <3> QED BY <2>1, <3>1 DEF TypeInv
  <2>2. CASE ~(c.src \in Fetched /\ extras[c.src] = "unread")
    BY <1>5, <2>2 DEF ensureFetched
  <2> QED BY <2>1, <2>2
<1>7. c.src \in Fetched => e[c.src] = extras'[c.src]
  BY <1>6 DEF Completions
<1>8. evalConditionWithExtras(c, e) = evalConditionWithExtras(c, extras')
  BY <1>7 DEF evalConditionWithExtras
<1>9. Top.child \in 1..Size(Top.group)
  <2>1. PICK n \in Nat, m \in Nat : n = Len(Top.group.conds) /\ m = Len(Top.group.groups)
    BY <1>2, GroupFact
  <2>2. Size(Top.group) = n + m
    BY <2>1, Zenon DEF Size
  <2>3. Top.child \in 1..(n + m)
    <3>1. Top.child <= n
      BY <1>3, <2>1
    <3> QED BY <1>2, <3>1
  <2> QED BY <2>2, <2>3
<1> QED BY <1>4, <1>8, <1>9, ConditionFact DEF c

(* A child that decides, or errs, is what its group means. *)
LEMMA TopDecided ==
    ASSUME TypeInv, StackInv, stack # <<>>, NEW e, FramesInv(e),
           Top.child \in 1..Size(Top.group),
           ChildMeans(e, Top.group, Top.child) # Neutral(Top.group)
    PROVE  Meaning(e)[Top.group] = ChildMeans(e, Top.group, Top.child)
<1>1. stack \in Seq(Frames)
  BY DEF TypeInv
<1>2. PICK L : L = Len(stack)
  OBVIOUS
<1>3. Top.group \in Groups /\ Top = stack[L] /\ L \in DOMAIN stack
  BY <1>1, <1>2, StackFact
<1>4. \A k \in 1..(Top.child - 1) : ChildMeans(e, Top.group, k) = Neutral(Top.group)
  BY <1>3 DEF FramesInv
<1> QED BY <1>3, <1>4, GroupDecided

(* All groups of a rule hold. *)
LEMMA HoldsFact ==
    ASSUME TypeInv, RuleHolds, NEW e, GroupsInv(e)
    PROVE  RuleMeaning(Rule, e) = "T" /\ at \in DOMAIN rules /\ Rule.enabled
<1>1. at <= Len(rules) /\ Working
  BY DEF TypeInv, RuleHolds, Working
<1>2. Rule.groups \in Seq(Groups) /\ at \in DOMAIN rules
  BY <1>1, RuleFact
<1>3. \A j \in DOMAIN Rule.groups : j \in 1..(group - 1)
  BY <1>2 DEF TypeInv, RuleHolds
<1>4. \A j \in DOMAIN Rule.groups : Meaning(e)[Rule.groups[j]] = "T"
  BY <1>1, <1>3 DEF GroupsInv
<1> QED BY <1>1, <1>2, <1>4, RuleDecided DEF GroupsInv

(* The first group that does not hold is what the rule means. *)
LEMMA GroupFails ==
    ASSUME TypeInv, pc \in {"eval", "return"}, NEW e, GroupsInv(e),
           Meaning(e)[Rule.groups[group]] # "T"
    PROVE  /\ RuleMeaning(Rule, e) = Meaning(e)[Rule.groups[group]]
           /\ at \in DOMAIN rules /\ at <= Len(rules) /\ Rule.enabled
<1>1. at <= Len(rules) /\ Working /\ group <= Len(Rule.groups)
  BY DEF TypeInv, Working
<1>2. Rule.groups \in Seq(Groups) /\ at \in DOMAIN rules
  BY <1>1, RuleFact
<1>3. group \in DOMAIN Rule.groups
  BY <1>1, <1>2 DEF TypeInv
<1>4. \A j \in 1..(group - 1) : Meaning(e)[Rule.groups[j]] = "T"
  BY <1>1 DEF GroupsInv
<1> QED BY <1>1, <1>2, <1>3, <1>4, RuleDecided DEF GroupsInv

(* An error in a condition is one of the rule. *)
LEMMA ErrsFact ==
    ASSUME TypeInv, StackInv, EvalCondition, NEW e \in Completions', GroupsInv(e), FramesInv(e),
           evalConditionWithExtras(Top.group.conds[Top.child], extras') = "E"
    PROVE  RuleMeaning(Rule, e) = "E" /\ at \in DOMAIN rules /\ at <= Len(rules) /\ Rule.enabled
<1>1. stack \in Seq(Frames) /\ stack # <<>> /\ pc = "eval"
  BY DEF TypeInv, StackInv, EvalCondition
<1>2. Top.child \in 1..Size(Top.group) /\ ChildMeans(e, Top.group, Top.child) = "E"
  BY ConditionSame
<1>3. Meaning(e)[Top.group] = "E"
  BY <1>1, <1>2, TopDecided DEF Neutral
<1>4. PICK L : L = Len(stack)
  OBVIOUS
<1>5. Top = stack[L] /\ L \in DOMAIN stack
  BY <1>1, <1>4, StackFact
<1>6. Meaning(e)[Rule.groups[group]] = "E"
  BY <1>3, <1>5 DEF FramesInv
<1> QED BY <1>1, <1>6, GroupFails

(* What the group at the top of the stack means is returned. *)
LEMMA PopReturns ==
    ASSUME TypeInv, StackInv, stack # <<>>, NEW e, NEW b \in BOOLEAN,
           Meaning(e)[Top.group] = Value(b),
           stack' = Pop, Value(ret)' = Value(b), UNCHANGED <<rules, at, group>>
    PROVE  ReturnInv(e)'
<1>1. stack \in Seq(Frames)
  BY DEF TypeInv
<1>2. PICK L : L = Len(stack)
  OBVIOUS
<1>3. /\ L \in Nat \ {0} /\ DOMAIN stack = 1..L /\ Top = stack[L]
      /\ \A f \in 1..(L - 1) : Pop[f] = stack[f]
      /\ Len(Pop) = L - 1 /\ Pop \in Seq(Frames)
  BY <1>1, <1>2, StackFact
<1>4. Rule' = Rule /\ group' = group
  BY DEF Rule
<1>5. CASE L = 1
  <2>1. stack' = <<>>
    BY <1>3, <1>5
  <2>2. Top.group = Rule.groups[group]
    BY <1>3, <1>5 DEF StackInv
  <2> QED BY <1>4, <2>1, <2>2 DEF ReturnInv
<1>6. CASE L # 1
  <2>1. L - 1 \in DOMAIN stack /\ L \in DOMAIN stack /\ L - 1 # L
    BY <1>3, <1>6
  <2>2. Len(stack') = L - 1 /\ Top' = stack[L - 1] /\ stack' # <<>>
    <3>1. stack'[L - 1] = stack[L - 1]
      BY <1>3, <1>6
    <3>2. Len(stack') = L - 1
      BY <1>3
    <3>3. stack' # <<>>
      BY <1>3, <1>6
    <3> QED BY <3>1, <3>2, <3>3 DEF Top
  <2>3. Calls(stack[L - 1]) /\ stack[L].group = Called(stack[L - 1])
    BY <1>2, <2>1 DEF StackInv
  <2>4. stack[L - 1] \in Frames
    BY <1>1, <2>1
  <2>5. stack[L - 1].group \in Groups /\ stack[L - 1].child \in Nat \ {0}
    BY <2>4, FrameFact
  <2>6. ChildMeans(e, stack[L - 1].group, stack[L - 1].child) = Meaning(e)[Called(stack[L - 1])]
    <3> DEFINE f == stack[L - 1]
    <3>1. f.group \in Groups /\ f.child \in Nat \ {0} /\ Calls(f)
      BY <2>3, <2>5
    <3> HIDE DEF f
    <3>2. f.child - Len(f.group.conds) \in DOMAIN f.group.groups
      BY <3>1 DEF Calls
    <3>3. ChildMeans(e, f.group, f.child) = Meaning(e)[f.group.groups[f.child - Len(f.group.conds)]]
      <4> DEFINE g == f.group
                 k == f.child
      <4>1. g \in Groups /\ k \in Nat \ {0} /\ k - Len(g.conds) \in DOMAIN g.groups
        BY <3>1, <3>2
      <4> HIDE DEF g, k
      <4>2. ChildMeans(e, g, k) = Meaning(e)[g.groups[k - Len(g.conds)]]
        BY <4>1, ChildFact
      <4> QED BY <4>2 DEF g, k
    <3> QED BY <3>3 DEF Called, f
  <2>7. ChildMeans(e, Top'.group, Top'.child) = Value(ret)'
    BY <1>3, <2>2, <2>3, <2>6
  <2> QED BY <2>2, <2>7 DEF ReturnInv
<1> QED BY <1>5, <1>6

(* A returned value that fails a rule's group fails the rule. *)
LEMMA FailsFact ==
    ASSUME TypeInv, StackInv, ReturnToRule, ~ret, NEW e, GroupsInv(e), ReturnInv(e)
    PROVE  RuleMeaning(Rule, e) = "F" /\ at \in DOMAIN rules
<1>1. pc = "return" /\ stack = <<>>
  BY DEF ReturnToRule
<1>2. Meaning(e)[Rule.groups[group]] = "F"
  BY <1>1 DEF ReturnInv, Value
<1> QED BY <1>1, <1>2, GroupFails

(* The loop goes on only past rules that do not decide. *)
LEMMA PassedNext ==
    ASSUME TypeInv, StackInv, [Next]_vars, NEW e \in Completions', JudgeInv(e)
    PROVE  PassedInv(e)'
<1>1. rules' = rules /\ \A r : inSchedule(r)' <=> inSchedule(r)
  BY ArgsSame
<1>2. \A r : Decisive(e, r)' <=> Decisive(e, r)
  BY <1>1 DEF Decisive
<1>3. at \in Nat
  BY DEF TypeInv
<1>4. CASE at' = at
  BY <1>1, <1>2, <1>4 DEF JudgeInv, PassedInv
<1>5. CASE at' # at
  <2>1. /\ SkipDisabled \/ RuleHolds \/ ReturnToRule
        /\ at' = at + 1
    BY <1>5 DEF Next, vars, args, NoMoreRules, SkipDisabled, EvaluateRule, RuleHolds, EvalGroup,
                EvalCondition, EvalSubgroup, GroupEnds, ReturnToGroup, ReturnToRule, Finish, NextRule
  <2>2. ~Decisive(e, rules[at])
    <3>1. CASE SkipDisabled
      BY <3>1 DEF SkipDisabled, Decisive, Rule
    <3>2. CASE RuleHolds
      <4>1. RuleMeaning(Rule, e) = "T"
        BY <3>2, HoldsFact DEF JudgeInv
      <4>2. ~inSchedule(Rule)
        BY <1>5, <3>2 DEF RuleHolds, Finish
      <4> QED BY <4>1, <4>2 DEF Decisive, Rule
    <3>3. CASE ReturnToRule
      <4>1. ~ret
        BY <1>5, <3>3 DEF ReturnToRule
      <4>2. RuleMeaning(Rule, e) = "F"
        BY <3>3, <4>1, FailsFact DEF JudgeInv
      <4> QED BY <4>2 DEF Decisive, Rule
    <3> QED BY <2>1, <3>1, <3>2, <3>3
  <2>3. \A i \in 1..at : i = at \/ i \in 1..(at - 1)
    BY <1>3
  <2>4. at' - 1 = at
    BY <1>3, <2>1
  <2> QED BY <1>1, <1>2, <2>2, <2>3, <2>4 DEF JudgeInv, PassedInv
<1> QED BY <1>4, <1>5

(* A rule goes on to its next group only after one that holds. *)
LEMMA GroupsNext ==
    ASSUME TypeInv, StackInv, [Next]_vars, NEW e \in Completions', JudgeInv(e)
    PROVE  GroupsInv(e)'
<1>1. rules' = rules
  BY ArgsSame
<1>2. SUFFICES ASSUME Working' PROVE GroupsInv(e)'
  BY DEF GroupsInv
<1>3. CASE EvaluateRule
  <2>1. group' = 1 /\ Rule' = Rule /\ Rule.enabled
    BY <1>1, <1>3 DEF EvaluateRule, Rule
  <2>2. 1..(1 - 1) = {}
    OBVIOUS
  <2> QED BY <2>1, <2>2 DEF GroupsInv
<1>4. CASE ReturnToRule
  <2>1. ret /\ at' = at /\ group' = group + 1
    BY <1>2, <1>4 DEF ReturnToRule, NextRule, Working
  <2>2. Meaning(e)[Rule.groups[group]] = "T" /\ Working
    BY <1>4, <2>1 DEF ReturnToRule, JudgeInv, ReturnInv, Value, Working
  <2>3. Rule' = Rule
    BY <1>1, <2>1 DEF Rule
  <2>4. group \in Nat
    BY DEF TypeInv
  <2>5. \A j \in 1..group : j = group \/ j \in 1..(group - 1)
    BY <2>4
  <2>6. group' - 1 = group
    BY <2>1, <2>4
  <2> QED BY <2>2, <2>3, <2>5, <2>6 DEF JudgeInv, GroupsInv
<1>5. CASE ~EvaluateRule /\ ~ReturnToRule
  <2>1. Working /\ at' = at /\ group' = group
    BY <1>2, <1>5 DEF Next, vars, args, NoMoreRules, SkipDisabled, RuleHolds, EvalGroup,
                EvalCondition, EvalSubgroup, GroupEnds, ReturnToGroup, Finish, NextRule, Working
  <2>2. Rule' = Rule
    BY <1>1, <2>1 DEF Rule
  <2> QED BY <2>1, <2>2 DEF JudgeInv, GroupsInv
<1> QED BY <1>3, <1>4, <1>5

(* Frames that leave with the top, or stay as they are. *)
LEMMA FramesPop ==
    ASSUME TypeInv, StackInv, stack # <<>>, NEW e, FramesInv(e), stack' = Pop,
           UNCHANGED <<rules, at, group>>
    PROVE  FramesInv(e)'
<1>1. stack \in Seq(Frames)
  BY DEF TypeInv
<1>2. PICK L : L = Len(stack)
  OBVIOUS
<1>3. /\ DOMAIN stack = 1..L /\ L \in Nat \ {0} /\ DOMAIN Pop = 1..(L - 1)
      /\ \A f \in 1..(L - 1) : Pop[f] = stack[f]
  BY <1>1, <1>2, StackFact
<1>4. Rule' = Rule
  BY DEF Rule
<1>5. \A f \in DOMAIN stack' : f \in DOMAIN stack /\ stack'[f] = stack[f]
  BY <1>3
<1> QED BY <1>4, <1>5 DEF FramesInv

(* The next child of the top frame, after one that does not decide. *)
LEMMA FramesSkip ==
    ASSUME TypeInv, StackInv, stack # <<>>, NEW e, FramesInv(e), stack' = Skip,
           UNCHANGED <<rules, at, group>>,
           ChildMeans(e, Top.group, Top.child) = Neutral(Top.group)
    PROVE  FramesInv(e)'
<1>1. stack \in Seq(Frames)
  BY DEF TypeInv
<1>2. PICK L : L = Len(stack)
  OBVIOUS
<1>3. /\ DOMAIN stack = 1..L /\ L \in Nat \ {0} /\ DOMAIN Skip = 1..L
      /\ \A f \in 1..(L - 1) : Skip[f] = stack[f]
      /\ Top = stack[L] /\ Top.child \in Nat \ {0}
      /\ Skip[L].group = Top.group /\ Skip[L].child = Top.child + 1
  BY <1>1, <1>2, StackFact
<1>4. Rule' = Rule
  BY DEF Rule
<1>5. \A k \in 1..(Skip[L].child - 1) : ChildMeans(e, Top.group, k) = Neutral(Top.group)
  <2>1. \A k \in 1..(Top.child - 1) : ChildMeans(e, Top.group, k) = Neutral(Top.group)
    BY <1>3 DEF FramesInv
  <2>2. \A k \in 1..(Skip[L].child - 1) : k = Top.child \/ k \in 1..(Top.child - 1)
    BY <1>3
  <2> QED BY <2>1, <2>2
<1>6. Meaning(e)[Top.group] = "E" => Meaning(e)[Rule.groups[group]] = "E"
  BY <1>3 DEF FramesInv
<1>7. \A f \in 1..L : f = L \/ f \in 1..(L - 1)
  BY <1>3
<1>8. \A f \in 1..(L - 1) : f \in DOMAIN stack
  BY <1>3
<1> QED BY <1>3, <1>4, <1>5, <1>6, <1>7, <1>8 DEF FramesInv

(* A new frame has no children behind it, and an error of it decides.       *)
LEMMA FramesPush ==
    ASSUME TypeInv, StackInv, EvalSubgroup, NEW e, FramesInv(e)
    PROVE  FramesInv(e)'
<1>1. stack \in Seq(Frames) /\ stack # <<>>
  BY DEF TypeInv, StackInv, EvalSubgroup
<1>2. PICK L : L = Len(stack)
  OBVIOUS
<1>3. /\ DOMAIN stack = 1..L /\ L \in Nat \ {0} /\ L \in DOMAIN stack
      /\ Top = stack[L] /\ Top.group \in Groups /\ Top.child \in Nat \ {0}
  BY <1>1, <1>2, StackFact
<1> DEFINE g == Top.group.groups[Top.child - Len(Top.group.conds)]
           c == [group |-> g, child |-> 1]
<1>4. /\ g \in Groups /\ Top.child \in 1..Size(Top.group)
      /\ ChildMeans(e, Top.group, Top.child) = Meaning(e)[g]
  <2>1. Top.child - Len(Top.group.conds) \in DOMAIN Top.group.groups
    BY DEF EvalSubgroup
  <2>2. Top.group \in Groups /\ Top.child \in Nat \ {0}
    BY <1>3
  <2> QED BY <2>1, <2>2, ChildFact
<1>5. stack' = Append(stack, c)
  BY DEF EvalSubgroup
<1> HIDE DEF g
<1>6. c.group = g /\ c.child = 1
  OBVIOUS
<1> HIDE DEF c
<1>7. /\ DOMAIN stack' = 1..(L + 1) /\ stack'[L + 1] = c
      /\ \A f \in 1..L : stack'[f] = stack[f]
  BY <1>1, <1>2, <1>5
<1>8. Rule' = Rule /\ group' = group
  BY DEF EvalSubgroup, Rule, args
<1>9. Meaning(e)[g] = "E" => Meaning(e)[Rule.groups[group]] = "E"
  <2>1. SUFFICES ASSUME Meaning(e)[g] = "E" PROVE Meaning(e)[Rule.groups[group]] = "E"
    OBVIOUS
  <2>2. Meaning(e)[Top.group] = "E"
    BY <1>1, <1>4, <2>1, TopDecided DEF Neutral
  <2> QED BY <1>3, <2>2 DEF FramesInv
<1>10. 1..(1 - 1) = {}
  OBVIOUS
<1>11. \A f \in 1..(L + 1) : f = L + 1 \/ f \in 1..L
  BY <1>3
<1> QED BY <1>3, <1>6, <1>7, <1>8, <1>9, <1>10, <1>11 DEF FramesInv

(* What is not decided is neutral, and what decides is not. *)
LEMMA DecidesFact ==
    ASSUME NEW g \in Groups, NEW v \in {"T", "F"}
    PROVE  /\ Decides(g.op, v = "T") => v # Neutral(g)
           /\ ~Decides(g.op, v = "T") => v = Neutral(g)
<1>1. g.op \in {"AND", "OR"}
  BY GroupFact
<1>2. CASE v = "T"
  BY <1>1, <1>2 DEF Decides, Neutral
<1>3. CASE v = "F"
  BY <1>1, <1>3 DEF Decides, Neutral
<1> QED BY <1>2, <1>3

(* The same of what was returned. *)
LEMMA ValueFact ==
    ASSUME NEW g \in Groups, NEW b \in BOOLEAN
    PROVE  /\ Decides(g.op, b) => Value(b) # Neutral(g)
           /\ ~Decides(g.op, b) => Value(b) = Neutral(g)
<1>1. g.op \in {"AND", "OR"}
  BY GroupFact
<1>2. CASE b = TRUE
  BY <1>1, <1>2 DEF Decides, Neutral, Value
<1>3. CASE b = FALSE
  BY <1>1, <1>3 DEF Decides, Neutral, Value
<1> QED BY <1>2, <1>3

(* Every step keeps the frames true to what the groups mean. *)
LEMMA FramesNext ==
    ASSUME TypeInv, StackInv, [Next]_vars, NEW e \in Completions', JudgeInv(e)
    PROVE  FramesInv(e)'
<1> USE DEF JudgeInv
<1>1. CASE UNCHANGED vars
  BY <1>1 DEF vars, args, FramesInv, Rule
<1>2. CASE NoMoreRules \/ SkipDisabled \/ EvaluateRule \/ RuleHolds \/ ReturnToRule
  <2>1. stack' = <<>>
    BY <1>2 DEF NoMoreRules, SkipDisabled, EvaluateRule, RuleHolds, ReturnToRule, Finish, NextRule,
                StackInv
  <2> QED BY <2>1 DEF FramesInv
<1>3. CASE EvalGroup
  <2> DEFINE c == [group |-> Rule.groups[group], child |-> 1]
  <2>1. stack' = <<c>> /\ Rule' = Rule /\ group' = group
    BY <1>3 DEF EvalGroup, Rule, args
  <2>2. c.group = Rule.groups[group] /\ c.child = 1
    OBVIOUS
  <2> HIDE DEF c
  <2>3. DOMAIN stack' = {1} /\ stack'[1] = c /\ 1..(1 - 1) = {}
    BY <2>1
  <2> QED BY <2>1, <2>2, <2>3 DEF FramesInv
<1>4. CASE EvalCondition
  <2> DEFINE v == evalConditionWithExtras(Top.group.conds[Top.child], extras')
  <2>1. stack # <<>> /\ UNCHANGED <<rules, at, group>> /\ Top.group \in Groups
    <3>1. stack \in Seq(Frames) /\ stack # <<>>
      BY <1>4 DEF TypeInv, StackInv, EvalCondition
    <3> QED BY <1>4, <3>1, StackFact DEF EvalCondition, args
  <2>2. ChildMeans(e, Top.group, Top.child) = v /\ v \in Values
    BY <1>4, ConditionSame
  <2>3. \/ stack' = <<>>
        \/ stack' = Pop
        \/ stack' = Skip /\ v # "E" /\ ~Decides(Top.group.op, v = "T")
    BY <1>4 DEF EvalCondition, Return
  <2> HIDE DEF v
  <2>4. CASE stack' = <<>>
    BY <2>4 DEF FramesInv
  <2>5. CASE stack' = Pop
    BY <2>1, <2>5, FramesPop
  <2>6. CASE stack' = Skip /\ v # "E" /\ ~Decides(Top.group.op, v = "T")
    <3>1. v = Neutral(Top.group)
      BY <2>1, <2>2, <2>6, DecidesFact DEF Values
    <3> QED BY <2>1, <2>2, <2>6, <3>1, FramesSkip
  <2> QED BY <2>3, <2>4, <2>5, <2>6
<1>5. CASE EvalSubgroup
  BY <1>5, FramesPush
<1>6. CASE GroupEnds
  <2>1. stack # <<>> /\ UNCHANGED <<rules, at, group>> /\ stack' = Pop
    BY <1>6 DEF GroupEnds, Return, StackInv, args
  <2> QED BY <2>1, FramesPop
<1>7. CASE ReturnToGroup
  <2>1. stack # <<>> /\ UNCHANGED <<rules, at, group>> /\ pc = "return"
    BY <1>7 DEF ReturnToGroup, args
  <2>2. Top.group \in Groups /\ ret \in BOOLEAN
    <3>1. stack \in Seq(Frames)
      BY DEF TypeInv
    <3> QED BY <2>1, <3>1, StackFact DEF TypeInv
  <2>3. CASE Decides(Top.group.op, ret)
    <3>1. stack' = Pop
      BY <1>7, <2>3 DEF ReturnToGroup, Return
    <3> QED BY <2>1, <3>1, FramesPop
  <2>4. CASE ~Decides(Top.group.op, ret)
    <3>1. stack' = Skip
      BY <1>7, <2>4 DEF ReturnToGroup
    <3>2. ChildMeans(e, Top.group, Top.child) = Neutral(Top.group)
      BY <2>1, <2>2, <2>4, ValueFact DEF ReturnInv
    <3> QED BY <2>1, <3>1, <3>2, FramesSkip
  <2> QED BY <2>3, <2>4
<1> QED BY <1>1, <1>2, <1>3, <1>4, <1>5, <1>6, <1>7 DEF Next

(* What is returned is what the group means. *)
LEMMA ReturnNext ==
    ASSUME TypeInv, StackInv, [Next]_vars, NEW e \in Completions', JudgeInv(e)
    PROVE  ReturnInv(e)'
<1> USE DEF JudgeInv
<1>1. SUFFICES ASSUME pc' = "return" PROVE ReturnInv(e)'
  BY DEF ReturnInv
<1>2. CASE UNCHANGED vars
  BY <1>2 DEF vars, args, ReturnInv, Rule, Top
<1>3. CASE EvalCondition
  <2> DEFINE v == evalConditionWithExtras(Top.group.conds[Top.child], extras')
  <2>1. stack # <<>> /\ UNCHANGED <<rules, at, group>> /\ Top.group \in Groups
    <3>1. stack \in Seq(Frames) /\ stack # <<>>
      BY <1>3 DEF TypeInv, StackInv, EvalCondition
    <3> QED BY <1>3, <3>1, StackFact DEF EvalCondition, args
  <2>2. /\ ChildMeans(e, Top.group, Top.child) = v /\ v \in Values
        /\ Top.child \in 1..Size(Top.group)
    BY <1>3, ConditionSame
  <2>3. v # "E" /\ Decides(Top.group.op, v = "T") /\ stack' = Pop
    BY <1>1, <1>3 DEF EvalCondition, Return
  <2>4. ret' = (v = "T")
    BY <1>1, <1>3 DEF EvalCondition, Return
  <2> HIDE DEF v
  <2>5. v # Neutral(Top.group)
    BY <2>1, <2>2, <2>3, DecidesFact DEF Values
  <2>6. Meaning(e)[Top.group] = v
    BY <2>1, <2>2, <2>5, TopDecided
  <2>7. v \in {"T", "F"}
    BY <2>2, <2>3 DEF Values
  <2>8. CASE v = "T"
    <3>1. ret' = TRUE
      BY <2>4, <2>8
    <3>2. Value(ret)' = Value(TRUE) /\ Meaning(e)[Top.group] = Value(TRUE)
      BY <2>6, <2>8, <3>1 DEF Value
    <3> QED BY <2>1, <2>3, <3>2, PopReturns
  <2>9. CASE v = "F"
    <3>1. ret' = FALSE
      BY <2>4, <2>9
    <3>2. Value(ret)' = Value(FALSE) /\ Meaning(e)[Top.group] = Value(FALSE)
      BY <2>6, <2>9, <3>1 DEF Value
    <3> QED BY <2>1, <2>3, <3>2, PopReturns
  <2> QED BY <2>7, <2>8, <2>9
<1>4. CASE GroupEnds
  <2>1. stack # <<>> /\ UNCHANGED <<rules, at, group>> /\ stack' = Pop
    BY <1>4 DEF GroupEnds, Return, StackInv, args
  <2>2. PICK L : L = Len(stack)
    OBVIOUS
  <2>3. Top.group \in Groups /\ Top.child \in Nat /\ L \in DOMAIN stack /\ Top = stack[L]
    <3>1. stack \in Seq(Frames)
      BY DEF TypeInv
    <3> QED BY <2>1, <2>2, <3>1, StackFact
  <2>4. Top.child > Size(Top.group)
    BY <1>4 DEF GroupEnds, Size
  <2>5. \A k \in 1..(Top.child - 1) : ChildMeans(e, Top.group, k) = Neutral(Top.group)
    BY <2>3 DEF FramesInv
  <2>6. Meaning(e)[Top.group] = Neutral(Top.group)
    BY <2>3, <2>4, <2>5, GroupUndecided
  <2>7. ret' = (Top.group.op = "AND")
    BY <1>4 DEF GroupEnds, Return
  <2>8. CASE Top.group.op = "AND"
    <3>1. ret' = TRUE
      BY <2>7, <2>8
    <3>2. Value(ret)' = Value(TRUE) /\ Meaning(e)[Top.group] = Value(TRUE)
      BY <2>6, <2>8, <3>1 DEF Value, Neutral
    <3> QED BY <2>1, <3>2, PopReturns
  <2>9. CASE Top.group.op # "AND"
    <3>1. ret' = FALSE
      BY <2>7, <2>9
    <3>2. Value(ret)' = Value(FALSE) /\ Meaning(e)[Top.group] = Value(FALSE)
      BY <2>6, <2>9, <3>1 DEF Value, Neutral
    <3> QED BY <2>1, <3>2, PopReturns
  <2> QED BY <2>8, <2>9
<1>5. CASE ReturnToGroup
  <2>1. stack # <<>> /\ UNCHANGED <<rules, at, group>> /\ pc = "return"
    BY <1>5 DEF ReturnToGroup, args
  <2>2. PICK L : L = Len(stack)
    OBVIOUS
  <2>3. /\ Top.group \in Groups /\ Top.child \in Nat \ {0} /\ ret \in BOOLEAN
        /\ L \in DOMAIN stack /\ Top = stack[L]
    <3>1. stack \in Seq(Frames)
      BY DEF TypeInv
    <3> QED BY <2>1, <2>2, <3>1, StackFact DEF TypeInv
  <2>4. Decides(Top.group.op, ret)
    BY <1>1, <1>5 DEF ReturnToGroup
  <2>5. stack' = Pop /\ Value(ret)' = Value(ret)
    BY <1>5, <2>4 DEF ReturnToGroup, Return
  <2>6. ChildMeans(e, Top.group, Top.child) = Value(ret)
    BY <2>1 DEF ReturnInv
  <2>7. Calls(Top)
    BY <2>1, <2>3 DEF StackInv
  <2>8. Top.child \in 1..Size(Top.group)
    BY <2>3, <2>7, ChildFact DEF Calls
  <2>9. Meaning(e)[Top.group] = Value(ret)
    BY <2>1, <2>3, <2>4, <2>6, <2>8, TopDecided, ValueFact
  <2> QED BY <2>1, <2>3, <2>5, <2>9, PopReturns
<1>6. CASE ~(EvalCondition \/ GroupEnds \/ ReturnToGroup \/ UNCHANGED vars)
  BY <1>1, <1>6 DEF Next, NoMoreRules, SkipDisabled, EvaluateRule, RuleHolds, EvalGroup,
                    EvalSubgroup, ReturnToRule, Finish, NextRule
<1> QED BY <1>2, <1>3, <1>4, <1>5, <1>6

(* A verdict on a rule is what it means. *)
LEMMA ValsNext ==
    ASSUME TypeInv, StackInv, [Next]_vars, NEW e \in Completions', JudgeInv(e)
    PROVE  ValsInv(e)'
<1> USE DEF JudgeInv
<1>1. rules' = rules
  BY ArgsSame
<1>2. vals \in [DOMAIN rules -> Values \cup {"skipped"}]
  BY DEF TypeInv
<1>3. ASSUME NEW v, vals' = [vals EXCEPT ![at] = v], RuleMeaning(Rule, e) = v
      PROVE  ValsInv(e)'
  <2>1. ASSUME NEW i \in DOMAIN rules, vals'[i] # "skipped"
        PROVE  vals'[i] = RuleMeaning(rules[i], e)
    <3>1. CASE i = at
      BY <1>2, <1>3, <3>1 DEF Rule
    <3>2. CASE i # at
      BY <1>2, <1>3, <2>1, <3>2 DEF ValsInv
    <3> QED BY <3>1, <3>2
  <2> QED BY <1>1, <2>1 DEF ValsInv
<1>4. CASE UNCHANGED vals
  BY <1>1, <1>4 DEF ValsInv
<1>5. CASE RuleHolds
  <2>1. vals' = [vals EXCEPT ![at] = "T"]
    BY <1>5 DEF RuleHolds
  <2>2. RuleMeaning(Rule, e) = "T"
    BY <1>5, HoldsFact
  <2> QED BY <1>3, <2>1, <2>2
<1>6. CASE EvalCondition /\ ~UNCHANGED vals
  <2>1. /\ vals' = [vals EXCEPT ![at] = "E"]
        /\ evalConditionWithExtras(Top.group.conds[Top.child], extras') = "E"
    BY <1>6 DEF EvalCondition
  <2>2. RuleMeaning(Rule, e) = "E"
    BY <1>6, <2>1, ErrsFact
  <2> QED BY <1>3, <2>1, <2>2
<1>7. CASE ReturnToRule /\ ~UNCHANGED vals
  <2>1. /\ vals' = [vals EXCEPT ![at] = "F"] /\ ~ret
    BY <1>7 DEF ReturnToRule
  <2>2. RuleMeaning(Rule, e) = "F"
    BY <1>7, <2>1, FailsFact
  <2> QED BY <1>3, <2>1, <2>2
<1>8. CASE ~(RuleHolds \/ EvalCondition \/ ReturnToRule)
  <2>1. UNCHANGED vals
    BY <1>8 DEF Next, vars, NoMoreRules, SkipDisabled, EvaluateRule, EvalGroup, EvalSubgroup,
                GroupEnds, ReturnToGroup
  <2> QED BY <1>4, <2>1
<1> QED BY <1>4, <1>5, <1>6, <1>7, <1>8

(* Match ends as the rules mean it to. *)
LEMMA VerdictNext ==
    ASSUME TypeInv, StackInv, [Next]_vars, NEW e \in Completions', JudgeInv(e)
    PROVE  VerdictInv(e)'
<1> USE DEF JudgeInv
<1>1. rules' = rules /\ \A r : inSchedule(r)' <=> inSchedule(r)
  BY ArgsSame
<1>2. CASE UNCHANGED vars
  BY <1>1, <1>2 DEF vars, args, VerdictInv, Rule
<1>3. CASE NoMoreRules
  <2>1. pc' = "none" /\ at' = at /\ at > Len(rules)
    BY <1>3 DEF NoMoreRules, Finish
  <2>2. at = Len(rules) + 1
    BY <2>1 DEF TypeInv
  <2> QED BY <1>1, <2>1, <2>2 DEF VerdictInv
<1>4. CASE RuleHolds
  <2>1. RuleMeaning(Rule, e) = "T" /\ at \in DOMAIN rules /\ Rule.enabled
    BY <1>4, HoldsFact
  <2>2. CASE inSchedule(Rule) /\ Finish("matched", at)
    <3>1. pc' = "matched" /\ at' = at /\ Rule' = Rule
      BY <1>1, <2>2 DEF Finish, Rule
    <3>2. at <= Len(rules)
      BY <2>1 DEF TypeInv
    <3>3. inSchedule(Rule)'
      BY <1>1, <2>2, <3>1
    <3> QED BY <1>1, <2>1, <3>1, <3>2, <3>3 DEF VerdictInv
  <2>3. CASE NextRule
    BY <2>3 DEF NextRule, VerdictInv
  <2> QED BY <1>4, <2>2, <2>3 DEF RuleHolds
<1>5. CASE EvalCondition
  <2>1. CASE pc' # "failed"
    BY <1>5, <2>1 DEF EvalCondition, Return, VerdictInv
  <2>2. CASE pc' = "failed"
    <3>1. evalConditionWithExtras(Top.group.conds[Top.child], extras') = "E"
      BY <1>5, <2>2 DEF EvalCondition, Return
    <3>2. RuleMeaning(Rule, e) = "E" /\ at <= Len(rules) /\ Rule.enabled
      BY <1>5, <3>1, ErrsFact
    <3>3. at' = at /\ Rule' = Rule
      BY <1>1, <1>5 DEF EvalCondition, Rule
    <3> QED BY <1>1, <2>2, <3>2, <3>3 DEF VerdictInv
  <2> QED BY <2>1, <2>2
<1>6. CASE ~(UNCHANGED vars \/ NoMoreRules \/ RuleHolds \/ EvalCondition)
  <2>1. pc' \notin {"matched", "failed", "none"}
    BY <1>6 DEF Next, SkipDisabled, EvaluateRule, EvalGroup, EvalSubgroup, GroupEnds, ReturnToGroup,
                ReturnToRule, Return, NextRule
  <2> QED BY <2>1 DEF VerdictInv
<1> QED BY <1>2, <1>3, <1>4, <1>5, <1>6

(* The inductive invariant of Match holds for any rules, any trees and any  *)
(* outcomes of the fetches.                                                 *)
THEOREM MatchInvariant ==
    Spec => []EngineInv
<1>1. Init => EngineInv
  BY EngineInit
<1>2. EngineInv /\ [Next]_vars => EngineInv'
  <2> SUFFICES ASSUME EngineInv, [Next]_vars PROVE EngineInv'
    OBVIOUS
  <2>1. TypeInv /\ FetchInv /\ CapturesInv /\ StackInv /\ \A e \in Completions : JudgeInv(e)
    BY DEF EngineInv
  <2>2. TypeInv' /\ FetchInv' /\ CapturesInv' /\ StackInv'
    BY <2>1, TypeNext, FetchNext, CapturesNext, StackNext
  <2>3. ASSUME NEW e \in Completions'
        PROVE  JudgeInv(e)'
    <3>1. JudgeInv(e)
      BY <2>1, CompletionsShrink
    <3>2. PassedInv(e)' /\ GroupsInv(e)' /\ FramesInv(e)'
      BY <2>1, <3>1, PassedNext, GroupsNext, FramesNext
    <3>3. ReturnInv(e)' /\ ValsInv(e)' /\ VerdictInv(e)'
      BY <2>1, <3>1, ReturnNext, ValsNext, VerdictNext
    <3> QED BY <3>2, <3>3 DEF JudgeInv
  <2> QED BY <2>2, <2>3 DEF EngineInv
<1> QED BY <1>1, <1>2, PTL DEF Spec

-----------------------------------------------------------------------------
(* Schedules. *)

(* All times are written with their leading zero, as the form writes them.  *)
AllPadded ==
    \A c \in Cases : \A i \in DOMAIN c.rules : c.rules[i].start.padded /\ c.rules[i].end.padded

(* Factors keep the order. *)
LEMMA TimesOrder ==
    ASSUME NEW a \in Int, NEW b \in Int, NEW c \in Nat, a <= b
    PROVE  a * c <= b * c
OBVIOUS

(* Of two times the earlier one comes first among the strings. *)
LEMMA RankLess ==
    ASSUME NEW s, s.padded, s.at \in Nat, NEW t, t.padded, t.at \in Nat, s.at < t.at
    PROVE  Rank(s) < Rank(t)
<1>1. Block \in Nat \ {0}
  BY EngineAssumption
<1>2. PICK a \in Nat, b \in Nat : a = s.at /\ b = t.at
  OBVIOUS
<1>3. a < b
  BY <1>2
<1>4. PICK p \in Nat, q \in Nat, x \in 0..(Block - 1), y \in 0..(Block - 1) :
          p = a \div Block /\ q = b \div Block /\ x = a % Block /\ y = b % Block
  <2>1. ASSUME NEW c \in Nat
        PROVE  c \div Block \in Nat
    BY <1>1
  <2>2. ASSUME NEW c \in Nat
        PROVE  c % Block \in 0..(Block - 1)
    BY <1>1
  <2> QED BY <2>1, <2>2
<1>5. Rank(s) = p * (Block + 1) + x /\ Rank(t) = q * (Block + 1) + y
  BY <1>2, <1>4 DEF Rank
<1>6. p <= q
  BY <1>1, <1>3, <1>4, SMTT(60)
<1>7. CASE p = q
  <2>1. x < y
    BY <1>1, <1>3, <1>4, <1>7, SMTT(60)
  <2> DEFINE u == p * (Block + 1)
  <2>2. u \in Int
    BY <1>1
  <2>3. Rank(s) = u + x /\ Rank(t) = u + y
    BY <1>5, <1>7
  <2> HIDE DEF u
  <2> QED BY <1>1, <2>1, <2>2, <2>3
<1>8. CASE p + 1 <= q
  <2>1. (p + 1) * (Block + 1) <= q * (Block + 1)
    BY <1>1, <1>8, TimesOrder
  <2> DEFINE u == p * (Block + 1)
             w == q * (Block + 1)
  <2>2. (p + 1) * (Block + 1) = u + (Block + 1)
    BY <1>1
  <2>3. u \in Int /\ w \in Int
    BY <1>1
  <2>4. Rank(s) = u + x /\ Rank(t) = w + y /\ u + (Block + 1) <= w
    BY <1>5, <2>1, <2>2
  <2> HIDE DEF u, w
  <2> QED BY <1>1, <2>3, <2>4
<1> QED BY <1>6, <1>7, <1>8

(* So strings compare like the times they are. *)
LEMMA RankOrder ==
    ASSUME NEW s, s.padded, s.at \in Nat, NEW t, t.padded, t.at \in Nat
    PROVE  /\ Rank(s) <= Rank(t) <=> s.at <= t.at
           /\ Rank(s) >= Rank(t) <=> s.at >= t.at
           /\ Rank(s) > Rank(t) <=> s.at > t.at
<1>1. Rank(s) \in Int /\ Rank(t) \in Int
  <2>1. ASSUME NEW r, r.padded, r.at \in Nat
        PROVE  Rank(r) \in Int
    <3>1. Block \in Nat \ {0}
      BY EngineAssumption
    <3>2. r.at \div Block \in Nat /\ r.at % Block \in Nat
      BY <2>1, <3>1
    <3> QED BY <2>1, <3>1, <3>2 DEF Rank
  <2> QED BY <2>1
<1>2. CASE s.at < t.at
  BY <1>1, <1>2, RankLess
<1>3. CASE t.at < s.at
  BY <1>1, <1>3, RankLess
<1>4. CASE s.at = t.at
  <2>1. Rank(s) = Rank(t)
    BY <1>4 DEF Rank
  <2> QED BY <1>1, <1>4, <2>1
<1> QED BY <1>2, <1>3, <1>4

(* Remainders of numbers less than twice the divisor.                        *)
LEMMA ModFact ==
    ASSUME NEW a \in Nat, NEW B \in Nat \ {0}
    PROVE  /\ a < B => a % B = a
           /\ a >= B /\ a < B + B => a % B = a - B
<1>1. a < B => a % B = a
  OBVIOUS
<1>2. a >= B /\ a < B + B => a % B = a - B
  OBVIOUS
<1> QED BY <1>1, <1>2

(* How far a moment is into the stretch that begins on day d, over the end   *)
(* of the week: within length minutes only on the day itself or the next.    *)
LEMMA OffsetFact ==
    ASSUME NEW W \in Nat \ {0}, NEW D \in Nat \ {0}, NEW d \in 0..(W - 1), NEW n \in 0..(W - 1),
           NEW from \in 0..(D - 1), NEW t \in 0..(D - 1), NEW length \in 0..(D - 1)
    PROVE  (n * D + t + W * D - (d * D + from)) % (W * D) <= length
               <=> \/ n = d /\ t >= from /\ t - from <= length
                   \/ n \in {d + 1, d + 1 - W} /\ t < from /\ D + t - from <= length
<1> DEFINE week == W * D
           k == n - d
           kD == (n - d) * D
           off == (n * D + t + W * D - (d * D + from)) % (W * D)
<1>1. week \in Nat \ {0} /\ kD \in Int /\ k \in Int /\ week >= D
  <2>1. W * D \in Int /\ (n - d) * D \in Int
    OBVIOUS
  <2>2. 1 * D <= W * D
    BY TimesOrder
  <2> QED BY <2>1, <2>2
<1>2. off = (week + kD + t - from) % week
  <2>1. (n - d) * D = n * D - d * D
    OBVIOUS
  <2>2. n * D \in Int /\ d * D \in Int /\ W * D \in Int
    OBVIOUS
  <2>3. n * D + t + W * D - (d * D + from) = W * D + (n - d) * D + t - from
    BY <2>1, <2>2
  <2> QED BY <2>3
<1>3. ASSUME NEW j \in Int, j <= k
      PROVE  j * D <= kD
  BY <1>3, TimesOrder
<1>4. ASSUME NEW j \in Int, k <= j
      PROVE  kD <= j * D
  BY <1>4, TimesOrder
<1>5. /\ 0 * D = 0 /\ 1 * D = D /\ 2 * D = D + D
      /\ (W - 1) * D = week - D /\ (1 - W) * D = D - week /\ (2 - W) * D = D + D - week
  OBVIOUS
<1>6. k <= W - 1 /\ k >= 1 - W
  OBVIOUS
<1>7. kD <= week - D /\ kD >= D - week
  BY <1>3, <1>4, <1>5, <1>6
<1>8. k = 0 => kD = 0
  BY <1>5
<1>9. k >= 1 => kD >= D
  BY <1>3, <1>5
<1>10. k = 1 => kD = D
  BY <1>5
<1>11. k >= 2 => kD >= D + D
  BY <1>3, <1>5
<1>12. k = 1 - W => kD = D - week
  BY <1>5
<1>13. k >= 2 - W => kD >= D + D - week
  BY <1>3, <1>5
<1>14. n = d <=> k = 0
  OBVIOUS
<1>15. n = d + 1 <=> k = 1
  OBVIOUS
<1>16. n = d + 1 - W <=> k = 1 - W
  OBVIOUS
<1> HIDE DEF week, kD, k
<1>17. off \in Int /\ off = IF kD + t - from >= 0 THEN kD + t - from ELSE week + kD + t - from
  <2>1. ASSUME NEW x \in Nat, x < week
        PROVE  x % week = x /\ (week + x) % week = x
    <3>1. x % week = x
      BY <1>1, <2>1, ModFact
    <3>2. (week + x) % week = (week + x) - week
      BY <1>1, <2>1, ModFact
    <3> QED BY <1>1, <3>1, <3>2
  <2>2. CASE kD + t - from >= 0
    <3>1. kD + t - from \in Nat /\ kD + t - from < week
      BY <1>1, <1>7, <2>2
    <3>2. week + kD + t - from = week + (kD + t - from)
      BY <1>1
    <3> QED BY <1>2, <2>1, <2>2, <3>1, <3>2
  <2>3. CASE ~(kD + t - from >= 0)
    <3>1. week + kD + t - from \in Nat /\ week + kD + t - from < week
      BY <1>1, <1>7, <2>3
    <3> QED BY <1>2, <2>1, <2>3, <3>1
  <2> QED BY <2>2, <2>3
<1> HIDE DEF off
<1>18. CASE k = 0 /\ t >= from
  <2>1. off = t - from
    BY <1>1, <1>8, <1>17, <1>18
  <2> QED BY <1>14, <1>18, <2>1 DEF off
<1>19. CASE k = 0 /\ t < from
  <2>1. off = week + t - from
    BY <1>1, <1>8, <1>17, <1>19
  <2>2. W = 1 => week = D
    BY <1>1, <1>8, <1>12, <1>19
  <2>3. W # 1 => week >= D + D
    BY <1>1, <1>8, <1>13, <1>19
  <2>4. off <= length <=> W = 1 /\ D + t - from <= length
    BY <1>1, <2>1, <2>2, <2>3
  <2> QED BY <1>14, <1>15, <1>16, <1>19, <2>4 DEF off
<1>20. CASE k > 0
  <2>1. off = kD + t - from
    BY <1>1, <1>9, <1>17, <1>20
  <2>2. off <= length <=> k = 1 /\ t < from /\ D + t - from <= length
    BY <1>1, <1>10, <1>11, <1>20, <2>1
  <2>3. k # 1 - W
    BY <1>20
  <2> QED BY <1>14, <1>15, <1>16, <1>20, <2>2, <2>3 DEF off
<1>21. CASE k < 0
  <2>1. kD + t - from < 0
    <3>1. kD <= 0 - D
      <4>1. k <= 0 - 1 /\ (0 - 1) * D = 0 - D
        BY <1>1, <1>21
      <4> QED BY <1>4, <4>1
    <3> QED BY <1>1, <3>1
  <2>2. off = week + kD + t - from
    BY <1>1, <1>17, <2>1
  <2>3. off <= length <=> k = 1 - W /\ t < from /\ D + t - from <= length
    BY <1>1, <1>6, <1>12, <1>13, <1>21, <2>2
  <2>4. k # 1 /\ k # 0
    BY <1>21
  <2> QED BY <1>14, <1>15, <1>16, <1>21, <2>3, <2>4 DEF off
<1> QED BY <1>1, <1>18, <1>19, <1>20, <1>21

(* The day before d is the one that d comes after, round the week. *)
LEMMA BeforeFact ==
    ASSUME NEW n \in Days
    PROVE  /\ Before(n) \in Days
           /\ \A d \in Days : d = Before(n) <=> n \in {d + 1, d + 1 - Week}
<1>1. Week \in Nat \ {0} /\ n \in 0..(Week - 1)
  BY EngineAssumption DEF Days
<1>2. CASE n = 0
  <2>1. Week - 1 \in Nat /\ Week - 1 < Week
    BY <1>1
  <2>2. Before(n) = Week - 1
    <3>1. (Week - 1) % Week = Week - 1
      BY <1>1, <2>1, ModFact
    <3>2. n + Week - 1 = Week - 1
      BY <1>1, <1>2
    <3> QED BY <3>1, <3>2 DEF Before
  <2> QED BY <1>1, <1>2, <2>2 DEF Days
<1>3. CASE n # 0
  <2>1. n + Week - 1 \in Nat /\ n + Week - 1 >= Week /\ n + Week - 1 < Week + Week
    BY <1>1, <1>3
  <2>2. (n + Week - 1) % Week = (n + Week - 1) - Week
    BY <1>1, <2>1, ModFact
  <2>3. Before(n) = n - 1
    BY <1>1, <2>2 DEF Before
  <2> QED BY <1>1, <1>3, <2>3 DEF Days
<1> QED BY <1>2, <1>3

(* Written with their leading zeros, the times of a schedule are compared    *)
(* for what they are, and the rule is in its schedule in its stretches.      *)
LEMMA ScheduleFact ==
    ASSUME NEW r \in Rules, r.start.padded, r.end.padded, NEW m \in Moments
    PROVE  inScheduleAt(r, m) <=> Covers(r, m)
<1> DEFINE from == IF r.start = Unset THEN 0 ELSE r.start.at
           to == IF r.end = Unset THEN DayLength - 1 ELSE r.end.at
           length == (to + DayLength - from) % DayLength
           days == IF r.days = {} THEN Days ELSE r.days
           n == m.day
           t == m.time
           crossed == (n \in days /\ t >= from) \/ (Before(n) \in days /\ t <= to)
           straight == n \in days /\ t >= from /\ t <= to
<1>1. Week \in Nat \ {0} /\ DayLength \in Nat \ {0}
  BY EngineAssumption
<1>2. ASSUME NEW w \in Written \cup {Unset}, w.padded
      PROVE  w = Unset \/ w.at \in 0..(DayLength - 1)
  BY <1>1, <1>2 DEF Written, Unset, Times
<1>3. /\ r.start = Unset \/ r.start.at \in 0..(DayLength - 1)
      /\ r.end = Unset \/ r.end.at \in 0..(DayLength - 1)
  BY <1>2 DEF Rules
<1>4. from \in 0..(DayLength - 1) /\ to \in 0..(DayLength - 1)
  BY <1>1, <1>3
<1>5. n \in Days /\ n \in 0..(Week - 1) /\ t \in 0..(DayLength - 1)
  BY DEF Moments, Days, Times
<1>6. days \subseteq Days /\ \A d \in Days : r.days = {} \/ d \in r.days <=> d \in days
  BY DEF Rules
<1>7. ASSUME NEW w, w.padded, w.at \in 0..(DayLength - 1)
      PROVE  /\ Current(m) >= Rank(w) <=> t >= w.at
             /\ Current(m) <= Rank(w) <=> t <= w.at
  <2> DEFINE c == [at |-> m.time, padded |-> TRUE]
  <2>1. c.padded /\ c.at \in Nat /\ c.at = t /\ w.at \in Nat /\ Current(m) = Rank(c)
    BY <1>1, <1>5, <1>7 DEF Current
  <2> HIDE DEF c
  <2>2. Rank(c) >= Rank(w) <=> c.at >= w.at
    BY <1>7, <2>1, RankOrder
  <2>3. Rank(c) <= Rank(w) <=> c.at <= w.at
    BY <1>7, <2>1, RankOrder
  <2> QED BY <2>1, <2>2, <2>3
<1>8. (r.start # Unset => Current(m) >= Rank(r.start)) <=> t >= from
  BY <1>1, <1>3, <1>5, <1>7
<1>9. /\ (r.end # Unset => Current(m) <= Rank(r.end)) <=> t <= to
      /\ r.end # Unset => (Current(m) <= Rank(r.end) <=> t <= to)
  BY <1>1, <1>3, <1>5, <1>7
<1>10. Crosses(r) <=> from > to
  <2>1. CASE r.start # Unset /\ r.end # Unset
    <3>1. r.start.at \in Nat /\ r.end.at \in Nat
      BY <1>1, <1>3, <2>1
    <3>2. Rank(r.start) > Rank(r.end) <=> r.start.at > r.end.at
      BY <3>1, RankOrder
    <3> QED BY <2>1, <3>2 DEF Crosses
  <2>2. CASE r.start = Unset
    <3>1. ~(from > to)
      BY <1>1, <1>4, <2>2
    <3> QED BY <2>2, <3>1 DEF Crosses
  <2>3. CASE r.end = Unset
    <3>1. ~(from > to)
      BY <1>1, <1>4, <2>3
    <3> QED BY <2>3, <3>1 DEF Crosses
  <2> QED BY <2>1, <2>2, <2>3
<1>11. Within(r, m) <=> IF from > to THEN t >= from \/ t <= to ELSE t >= from /\ t <= to
  BY <1>8, <1>9, <1>10 DEF Within
<1>12. Before(n) \in Days /\ \A d \in Days : d = Before(n) <=> n \in {d + 1, d + 1 - Week}
  BY <1>5, BeforeFact
<1> HIDE DEF from, to, days, t, n
<1>13. length \in 0..(DayLength - 1) /\ length = IF from > to THEN to + DayLength - from ELSE to - from
  <2>1. to + DayLength - from \in Nat /\ to + DayLength - from < DayLength + DayLength
    BY <1>1, <1>4
  <2>2. CASE from > to
    <3>1. to + DayLength - from < DayLength
      BY <1>1, <1>4, <2>2
    <3>2. length = to + DayLength - from
      BY <1>1, <2>1, <3>1, ModFact
    <3> QED BY <1>1, <2>1, <2>2, <3>1, <3>2
  <2>3. CASE ~(from > to)
    <3>1. to + DayLength - from >= DayLength
      BY <1>1, <1>4, <2>3
    <3>2. length = (to + DayLength - from) - DayLength
      BY <1>1, <2>1, <3>1, ModFact
    <3> QED BY <1>1, <1>4, <2>3, <3>2
  <2> QED BY <2>2, <2>3
<1>14. Covers(r, m) <=>
         \E d \in days :
            (n * DayLength + t + Week * DayLength - (d * DayLength + from)) % (Week * DayLength) <= length
  BY DEF Covers, from, to, days, n, t
<1> HIDE DEF length
<1>15. Covers(r, m) <=>
         \E d \in days :
            \/ n = d /\ t >= from /\ t - from <= length
            \/ n \in {d + 1, d + 1 - Week} /\ t < from /\ DayLength + t - from <= length
  <2>1. ASSUME NEW d \in days
        PROVE  (n * DayLength + t + Week * DayLength - (d * DayLength + from)) % (Week * DayLength) <= length
                  <=> \/ n = d /\ t >= from /\ t - from <= length
                      \/ n \in {d + 1, d + 1 - Week} /\ t < from /\ DayLength + t - from <= length
    <3>1. d \in 0..(Week - 1)
      BY <1>6 DEF Days
    <3> QED BY <1>1, <1>4, <1>5, <1>13, <3>1, OffsetFact
  <2> QED BY <1>14, <2>1
<1>16. Covers(r, m) <=> \E d \in days :
            \/ n = d /\ t >= from /\ t - from <= length
            \/ d = Before(n) /\ t < from /\ DayLength + t - from <= length
  BY <1>6, <1>12, <1>15
<1>17. CASE from > to
  <2>1. Covers(r, m) <=> crossed
    <3>1. t - from <= length /\ (t < from /\ DayLength + t - from <= length <=> t <= to)
      BY <1>1, <1>4, <1>5, <1>13, <1>17
    <3> QED BY <1>16, <3>1
  <2>2. r.end # Unset
    BY <1>1, <1>4, <1>10, <1>17 DEF Crosses
  <2>3. inScheduleAt(r, m) <=>
          (IF t <= to THEN Before(n) ELSE n) \in days /\ (t >= from \/ t <= to)
    <3>1. inScheduleAt(r, m) <=>
            LET day == IF t <= to THEN Before(n) ELSE n
            IN  (r.days = {} \/ day \in r.days) /\ (t >= from \/ t <= to)
      BY <1>9, <1>10, <1>11, <1>17, <2>2 DEF inScheduleAt, n
    <3> QED BY <1>5, <1>6, <1>12, <3>1
  <2>4. t <= to => ~(t >= from)
    BY <1>1, <1>4, <1>5, <1>17
  <2> QED BY <2>1, <2>3, <2>4
<1>18. CASE ~(from > to)
  <2>1. Covers(r, m) <=> straight
    <3>1. /\ t >= from => (t - from <= length <=> t <= to)
          /\ ~(t < from /\ DayLength + t - from <= length)
      BY <1>1, <1>4, <1>5, <1>13, <1>18
    <3> QED BY <1>16, <3>1
  <2>2. inScheduleAt(r, m) <=> (r.days = {} \/ n \in r.days) /\ t >= from /\ t <= to
    BY <1>10, <1>11, <1>18 DEF inScheduleAt, n
  <2> QED BY <1>5, <1>6, <2>1, <2>2
<1> QED BY <1>17, <1>18

-----------------------------------------------------------------------------
(* The properties. *)

(* The arguments of Match are one of the cases all along. *)
ArgsInv == \E c \in Cases : rules = c.rules /\ now = c.now

(* They are never assigned to. *)
LEMMA ArgsStay ==
    Spec => []ArgsInv
<1>1. Init => ArgsInv
  BY DEF Init, ArgsInv
<1>2. ArgsInv /\ [Next]_vars => ArgsInv'
  BY ArgsSame DEF ArgsInv
<1> QED BY <1>1, <1>2, PTL DEF Spec

(* In every reachable state a rule is in its schedule exactly in its         *)
(* stretches.                                                                *)
LEMMA ScheduleOfRules ==
    ASSUME AllPadded, ArgsInv, NEW i \in DOMAIN rules
    PROVE  /\ inScheduleAt(rules[i], now) <=> Covers(rules[i], now)
           /\ inSchedule(rules[i]) <=> Covers(rules[i], now)
<1>1. PICK c \in Cases : rules = c.rules /\ now = c.now
  BY DEF ArgsInv
<1>2. c.rules \in Seq(Rules) /\ c.now \in Moments
  BY EngineAssumption
<1>3. rules[i] \in Rules /\ now \in Moments /\ rules[i].start.padded /\ rules[i].end.padded
  BY <1>1, <1>2 DEF AllPadded
<1>4. inScheduleAt(rules[i], now) <=> Covers(rules[i], now)
  BY <1>3, ScheduleFact
<1>5. ASSUME rules[i].days = {}, rules[i].start = Unset, rules[i].end = Unset
      PROVE  inScheduleAt(rules[i], now)
  BY <1>5 DEF inScheduleAt, Within, Crosses
<1> QED BY <1>4, <1>5 DEF inSchedule

(* The variables keep their types. *)
THEOREM EngineTypes ==
    Spec => []TypeOK
<1>1. EngineInv => TypeOK
  <2> SUFFICES ASSUME EngineInv PROVE TypeOK
    OBVIOUS
  <2>1. TypeInv /\ FetchInv /\ CapturesInv
    BY DEF EngineInv
  <2>2. \A k \in DOMAIN stack : stack[k].child \in Nat \ {0}
    <3>1. ASSUME NEW k \in DOMAIN stack
          PROVE  stack[k] \in Frames
      BY <2>1 DEF TypeInv
    <3> QED BY <3>1 DEF Frames
  <2> QED BY <2>1, <2>2 DEF TypeOK, TypeInv, FetchInv, CapturesInv
<1> QED BY <1>1, MatchInvariant, PTL

(* The body and each header are fetched once at most, whether or not that    *)
(* fails.                                                                    *)
THEOREM SourcesAreFetchedOnce ==
    Spec => []FetchedOnce
<1>1. EngineInv => FetchedOnce
  BY DEF EngineInv, FetchInv, FetchedOnce
<1> QED BY <1>1, MatchInvariant, PTL

(* The captures of the matched rule are its own. *)
THEOREM CapturesAreOwn ==
    Spec => []CapturesAreTheRules
<1>1. EngineInv => CapturesAreTheRules
  BY DEF EngineInv, CapturesInv, CapturesAreTheRules
<1> QED BY <1>1, MatchInvariant, PTL

(* With times written as the form writes them, a rule is in its schedule     *)
(* exactly in the stretches that begin on its days.                          *)
THEOREM SchedulesCover ==
    ASSUME AllPadded
    PROVE  Spec => []ScheduleCovers
<1>1. ArgsInv => ScheduleCovers
  BY ScheduleOfRules DEF ScheduleCovers
<1> QED BY <1>1, ArgsStay, PTL

(* The first enabled rule that errs, or holds and is in its schedule, ends   *)
(* Match if no rule before it holds, however deep its groups and whatever    *)
(* the fetches bring; and a rule that is returned comes after none that      *)
(* holds and is in its schedule.                                             *)
THEOREM FirstMatchDecides ==
    ASSUME AllPadded
    PROVE  Spec => []FirstMatchWins
<1>1. ASSUME ArgsInv, EngineInv, Done, NEW e \in Completions
      PROVE  /\ Holding(e) = {} => pc = "none"
             /\ \A i \in DOMAIN rules : IsFirst(i, e) /\ InTime(i, e) =>
                   IF RuleMeaning(rules[i], e) = "E" THEN pc = "failed"
                   ELSE pc = "matched" /\ result = i
             /\ pc = "matched" =>
                   /\ result \in Holding(e) /\ RuleMeaning(rules[result], e) = "T"
                   /\ InTime(result, e)
                   /\ \A i \in Holding(e) : i < result => ~InTime(i, e)
  <2>1. \A i \in DOMAIN rules : Decisive(e, rules[i]) <=> i \in Holding(e) /\ InTime(i, e)
    BY <1>1, ScheduleOfRules DEF Decisive, Holding, InTime
  <2>2. TypeInv /\ PassedInv(e) /\ VerdictInv(e) /\ (pc = "matched" => result = at)
    BY <1>1 DEF EngineInv, JudgeInv, CapturesInv
  <2>3. Holding(e) \subseteq DOMAIN rules /\ DOMAIN rules = 1..Len(rules)
        /\ at \in Nat /\ Len(rules) \in Nat
    BY <2>2 DEF TypeInv, Holding
  <2>4. \A i \in Holding(e) : i < at => ~InTime(i, e)
    BY <2>1, <2>2, <2>3 DEF PassedInv
  <2>5. CASE pc = "none"
    <3>1. \A i \in Holding(e) : ~InTime(i, e)
      BY <2>2, <2>3, <2>4, <2>5 DEF VerdictInv, TypeInv
    <3> QED BY <2>5, <3>1 DEF IsFirst
  <2>6. ASSUME at <= Len(rules), Decisive(e, Rule)
        PROVE  /\ at \in Holding(e) /\ InTime(at, e)
               /\ \A i \in DOMAIN rules : IsFirst(i, e) /\ InTime(i, e) => i = at
    <3>1. at \in DOMAIN rules
      BY <2>2, <2>6, RuleFact
    <3>2. at \in Holding(e) /\ InTime(at, e)
      BY <2>1, <2>6, <3>1 DEF Rule
    <3> QED BY <2>3, <2>4, <3>2 DEF IsFirst
  <2>7. CASE pc = "matched"
    <3>1. at <= Len(rules) /\ Decisive(e, Rule) /\ RuleMeaning(Rule, e) = "T"
      BY <2>2, <2>7 DEF VerdictInv, Decisive
    <3> QED BY <2>2, <2>4, <2>6, <2>7, <3>1 DEF Rule
  <2>8. CASE pc = "failed"
    <3>1. at <= Len(rules) /\ Decisive(e, Rule) /\ RuleMeaning(Rule, e) = "E"
      BY <2>2, <2>8 DEF VerdictInv, Decisive
    <3> QED BY <2>6, <2>8, <3>1 DEF Rule
  <2> QED BY <1>1, <2>5, <2>7, <2>8 DEF Done
<1>2. ArgsInv /\ EngineInv => FirstMatchWins
  BY <1>1 DEF FirstMatchWins
<1> QED BY <1>2, ArgsStay, MatchInvariant, PTL

(* The rule test agrees with Match on every rule that Match has judged, but  *)
(* for errors Match may have got by without.                                 *)
THEOREM TestAgreesWithMatch ==
    Spec => []TestAgrees
<1>1. ASSUME EngineInv
      PROVE  TestAgrees
  <2> SUFFICES ASSUME NEW e \in Completions, NEW i \in DOMAIN rules, vals[i] # "skipped"
               PROVE  \/ EvaluateWithResults(rules[i], e) = vals[i]
                      \/ /\ EvaluateWithResults(rules[i], e) = "E"
                         /\ \E k \in DOMAIN rules[i].groups : MayErr(rules[i].groups[k])
    BY DEF TestAgrees
  <2>1. vals[i] = RuleMeaning(rules[i], e)
    BY <1>1 DEF EngineInv, JudgeInv, ValsInv
  <2>2. rules[i].groups \in Seq(Groups)
    <3>1. rules \in Seq(Rules)
      BY <1>1 DEF EngineInv, TypeInv
    <3>2. rules[i] \in Rules
      BY <3>1
    <3> QED BY <3>2 DEF Rules
  <2> QED BY <2>1, <2>2, RuleTestFact
<1> QED BY <1>1, MatchInvariant, PTL
=============================================================================
