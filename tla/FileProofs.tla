----------------------------- MODULE FileProofs -----------------------------
(***************************************************************************)
(* Proofs about RuleFile: a rule's trees of groups come back from the      *)
(* database as they were stored, and from a file with the same meaning,    *)
(* whatever their depth and size.                                          *)
(***************************************************************************)
EXTENDS RuleFile, EngineProofs

(* A group is its three fields. *)
LEMMA GroupRecord ==
    ASSUME NEW g \in Groups
    PROVE  g = [op |-> g.op, conds |-> g.conds, groups |-> g.groups]
<1>1. PICK n \in 1..Len(Layers) : g \in Layers[n]
  BY DEF Groups, Upto
<1>2. g \in [op : {"AND", "OR"}, conds : Seq(Conditions), groups : Seq(Upto(n - 1))]
  BY <1>1, EngineAssumption
<1> QED BY <1>2

-----------------------------------------------------------------------------
(* Files. *)

(* A group comes back from a file as it was: its operator is one of the two. *)
LEMMA GroupToRuleFact ==
    ASSUME NEW g \in Groups
    PROVE  groupToRule[g] = g
<1> DEFINE Made(t) == [h \in Groups |-> [op |-> OrDefault(h.op), conds |-> h.conds,
                          groups |-> [k \in DOMAIN h.groups |-> t[h.groups[k]]]]]
           id == [h \in Groups |-> h]
           S == {h \in Groups : groupToRule[h] = h}
<1>1. ASSUME NEW h \in Groups, NEW t, \A k \in DOMAIN h.groups : t[h.groups[k]] = h.groups[k]
      PROVE  Made(t)[h] = h
  <2>1. h.op \in {"AND", "OR"} /\ h.groups \in Seq(Groups)
    BY GroupFact
  <2>2. [k \in DOMAIN h.groups |-> t[h.groups[k]]] = h.groups
    BY <1>1, <2>1
  <2>3. OrDefault(h.op) = h.op
    BY <2>1 DEF OrDefault, GroupOperators
  <2>4. Made(t)[h] = [op |-> h.op, conds |-> h.conds, groups |-> h.groups]
    BY <2>2, <2>3
  <2> QED BY <2>4, GroupRecord
<1>2. Made(id) = id
  <2>1. ASSUME NEW h \in Groups
        PROVE  Made(id)[h] = h
    <3>1. \A k \in DOMAIN h.groups : id[h.groups[k]] = h.groups[k]
      BY GroupFact
    <3> HIDE DEF id, Made
    <3> QED BY <1>1, <3>1
  <2> QED BY <2>1
<1>3. groupToRule = CHOOSE t : t = Made(t)
  BY DEF groupToRule
<1>4. groupToRule = Made(groupToRule)
  <2> HIDE DEF Made, id
  <2> QED BY <1>2, <1>3
<1>5. Groups \subseteq S
  <2>1. ASSUME NEW h \in Groups, \A k \in DOMAIN h.groups : h.groups[k] \in S
        PROVE  h \in S
    <3>1. Made(groupToRule)[h] = h
      <4> HIDE DEF Made
      <4> QED BY <1>1, <2>1
    <3> HIDE DEF Made
    <3> QED BY <1>4, <3>1
  <2> HIDE DEF S
  <2> QED BY <2>1, LayerInduction
<1> QED BY <1>5

(* A rule comes back from a file with its groups, but for a single group     *)
(* without conditions and subgroups: of it nothing is left.                  *)
LEMMA RestoredFact ==
    ASSUME NEW r \in Rules
    PROVE  /\ Restored(r) \in Rules
           /\ \/ Restored(r).groups = r.groups
              \/ /\ Restored(r).groups = <<>>
                 /\ Len(r.groups) = 1 /\ r.groups[1].groups = <<>> /\ r.groups[1].conds = <<>>
<1>1. r.groups \in Seq(Groups)
  BY DEF Rules
<1> DEFINE f == ruleToExport(r)
           gs == ruleExportToRule(f)
<1>2. gs \in Seq(Groups) => Restored(r) \in Rules /\ Restored(r).groups = gs
  BY DEF Restored, Rules
<1>3. CASE Len(r.groups) = 1 /\ r.groups[1].groups = <<>>
  <2> DEFINE g == r.groups[1]
  <2>1. g \in Groups /\ g.op \in {"AND", "OR"} /\ r.groups = <<g>>
    BY <1>1, <1>3, GroupFact
  <2>2. f = [op |-> g.op, conds |-> g.conds, groups |-> <<>>]
    BY <1>3 DEF ruleToExport
  <2>3. CASE g.conds # <<>>
    <3>1. gs = <<[op |-> g.op, conds |-> g.conds, groups |-> <<>>]>>
      BY <2>1, <2>2, <2>3 DEF ruleExportToRule, OrDefault, GroupOperators
    <3>2. g = [op |-> g.op, conds |-> g.conds, groups |-> <<>>]
      BY <1>3, <2>1, GroupRecord
    <3>3. gs = r.groups
      BY <2>1, <3>1, <3>2
    <3> QED BY <1>1, <1>2, <3>3
  <2>4. CASE g.conds = <<>>
    <3>1. gs = <<>>
      BY <2>2, <2>4 DEF ruleExportToRule
    <3> QED BY <1>2, <1>3, <2>4, <3>1
  <2> QED BY <2>3, <2>4
<1>4. CASE ~(Len(r.groups) = 1 /\ r.groups[1].groups = <<>>)
  <2>1. f = [op |-> "", conds |-> <<>>, groups |-> r.groups]
    BY <1>4 DEF ruleToExport
  <2>2. gs = [k \in DOMAIN r.groups |-> groupToRule[r.groups[k]]]
    <3>1. f.conds = <<>> /\ f.groups = r.groups
      <4>1. ASSUME NEW o, f = [op |-> o, conds |-> <<>>, groups |-> r.groups]
            PROVE  f.conds = <<>> /\ f.groups = r.groups
        BY <4>1
      <4> QED BY <2>1, <4>1
    <3> HIDE DEF f
    <3>2. gs = [k \in DOMAIN f.groups |-> groupToRule[f.groups[k]]]
      BY <3>1 DEF ruleExportToRule
    <3> QED BY <3>1, <3>2
  <2>3. \A k \in DOMAIN r.groups : groupToRule[r.groups[k]] = r.groups[k]
    BY <1>1, GroupToRuleFact
  <2>4. gs = r.groups
    <3> HIDE DEF gs
    <3> QED BY <1>1, <2>2, <2>3
  <2> QED BY <1>1, <1>2, <2>4
<1> QED BY <1>3, <1>4

(* A rule means the same after it was exported and imported, whether or not  *)
(* the validation of import takes it, unless it is a single OR of nothing:   *)
(* an AND of nothing holds for every message, and so does a rule of nothing. *)
LEMMA RestoredMeans ==
    ASSUME NEW r \in Rules, ~LoneEmptyOr(r)
    PROVE  SameMeaning(Restored(r), r)
<1>1. r.groups \in Seq(Groups)
  BY DEF Rules
<1>2. ASSUME Restored(r).groups = r.groups, NEW e
      PROVE  RuleMeaning(Restored(r), e) = RuleMeaning(r, e)
  BY <1>2 DEF RuleMeaning
<1>3. ASSUME Restored(r).groups = <<>>, NEW e, Len(r.groups) = 1,
             r.groups[1].groups = <<>>, r.groups[1].conds = <<>>
      PROVE  RuleMeaning(Restored(r), e) = RuleMeaning(r, e)
  <2> DEFINE g == r.groups[1]
  <2>1. g \in Groups /\ r.groups = <<g>>
    BY <1>1, <1>3
  <2>2. g.op = "AND"
    <3>1. g = [op |-> g.op, conds |-> <<>>, groups |-> <<>>] /\ g.op \in {"AND", "OR"}
      BY <1>3, <2>1, GroupRecord, GroupFact
    <3>2. CASE g.op = "OR"
      <4>1. r.groups = <<[op |-> "OR", conds |-> <<>>, groups |-> <<>>]>>
        BY <2>1, <3>1, <3>2
      <4> QED BY <4>1 DEF LoneEmptyOr
    <3> QED BY <3>1, <3>2
  <2>3. Meaning(e)[g] = "T"
    <3>1. Meaning(e)[g] = Judged(g, e, Below(Meaning(e), g))
      BY <2>1, MeaningFact
    <3>2. Judged(g, e, Below(Meaning(e), g)) = Neutral(g)
      BY <1>3 DEF Judged
    <3> QED BY <2>2, <3>1, <3>2 DEF Neutral
  <2>4. RuleMeaning(r, e) = "T"
    <3>1. DOMAIN r.groups = {1}
      BY <1>1, <1>3
    <3> QED BY <2>3, <3>1 DEF RuleMeaning
  <2>5. RuleMeaning(Restored(r), e) = "T"
    <3>1. DOMAIN Restored(r).groups = {}
      BY <1>3
    <3> QED BY <3>1 DEF RuleMeaning
  <2> QED BY <2>4, <2>5
<1>4. \A e : RuleMeaning(Restored(r), e) = RuleMeaning(r, e)
  <2>1. SUFFICES ASSUME NEW e PROVE RuleMeaning(Restored(r), e) = RuleMeaning(r, e)
    OBVIOUS
  <2> QED BY <1>2, <1>3, RestoredFact
<1> QED BY <1>4 DEF SameMeaning

(* What a backup or an export holds of a rule means what the rule meant.     *)
THEOREM BackupsKeepMeaning ==
    Spec => []RestoreKeepsMeaning
<1>1. EngineInv => RestoreKeepsMeaning
  <2> SUFFICES ASSUME EngineInv, NEW i \in DOMAIN rules, ~LoneEmptyOr(rules[i])
               PROVE  SameMeaning(Restored(rules[i]), rules[i])
    BY DEF RestoreKeepsMeaning
  <2>1. rules \in Seq(Rules)
    BY DEF EngineInv, TypeInv
  <2>2. rules[i] \in Rules
    BY <2>1
  <2> QED BY <2>2, RestoredMeans
<1> QED BY <1>1, MatchInvariant, PTL

-----------------------------------------------------------------------------
(* Ascending sequences. *)

(* q goes through S in ascending order. *)
Rises(q, n, S) ==
    /\ n \in Nat /\ q \in [1..n -> S]
    /\ \A i, j \in 1..n : i < j => q[i] < q[j]
    /\ \A x \in S : \E i \in 1..n : q[i] = x

(* Two of them are one. *)
LEMMA RisesOnce ==
    ASSUME NEW S \in SUBSET Nat, NEW n, NEW q, Rises(q, n, S), NEW s, Rises(s, n, S)
    PROVE  s = q
<1> DEFINE Bad == {i \in 1..n : s[i] # q[i]}
<1>1. /\ n \in Nat /\ q \in [1..n -> S] /\ s \in [1..n -> S]
      /\ \A i, j \in 1..n : i < j => q[i] < q[j] /\ s[i] < s[j]
  BY DEF Rises
<1>2. SUFFICES ASSUME Bad # {} PROVE FALSE
  BY <1>1
<1>3. Bad \in SUBSET Nat
  BY <1>1
<1>4. PICK i \in Bad : \A m \in Bad : i <= m
  <2> HIDE DEF Bad
  <2> QED BY <1>2, <1>3, WellOrdered
<1>5. i \in 1..n /\ s[i] # q[i] /\ s[i] \in S /\ q[i] \in S /\ s[i] \in Nat /\ q[i] \in Nat
  BY <1>1
<1>6. ASSUME NEW j \in 1..n, j < i
      PROVE  s[j] = q[j]
  <2>1. j \notin Bad
    BY <1>1, <1>4, <1>5, <1>6
  <2> QED BY <2>1
<1>7. ASSUME NEW x, NEW y, Rises(x, n, S), Rises(y, n, S), x[i] < y[i],
             \A j \in 1..n : j < i => x[j] = y[j]
      PROVE  FALSE
  <2>1. x[i] \in S /\ y[i] \in Nat /\ x[i] \in Nat
    BY <1>5, <1>7 DEF Rises
  <2>2. PICK j \in 1..n : y[j] = x[i]
    BY <1>7, <2>1 DEF Rises
  <2>3. CASE j < i
    <3>1. x[j] < x[i] /\ x[j] = x[i]
      BY <1>5, <1>7, <2>2, <2>3 DEF Rises
    <3> QED BY <2>1, <3>1
  <2>4. CASE j = i
    BY <1>7, <2>1, <2>2, <2>4
  <2>5. CASE i < j
    <3>1. y[i] < y[j]
      BY <1>5, <1>7, <2>5 DEF Rises
    <3> QED BY <1>7, <2>1, <2>2, <3>1
  <2> QED BY <1>1, <1>5, <2>3, <2>4, <2>5
<1>8. s[i] < q[i] \/ q[i] < s[i]
  BY <1>5
<1> QED BY <1>6, <1>7, <1>8

(* So Ascending is the one there is. *)
LEMMA AscendingIs ==
    ASSUME NEW S \in SUBSET Nat, NEW n, NEW q, Rises(q, n, S)
    PROVE  Ascending(S) = q
<1>1. n \in Nat /\ q \in [1..n -> S] /\ \A i, j \in 1..n : i < j => q[i] < q[j]
  BY DEF Rises
<1>2. ASSUME NEW s \in [1..n -> S], \A i, j \in 1..n : i < j => s[i] < s[j]
      PROVE  s \in Injection(1..n, S)
  <2>1. ASSUME NEW i \in 1..n, NEW j \in 1..n, s[i] = s[j]
        PROVE  i = j
    <3>1. s[i] \in Nat /\ s[j] \in Nat
      BY <1>2
    <3>2. ~(i < j) /\ ~(j < i)
      BY <1>2, <2>1, <3>1
    <3> QED BY <1>1, <3>2
  <2> QED BY <1>2, <2>1 DEF Injection, IsInjective
<1>3. Cardinality(S) = n /\ IsFiniteSet(S)
  <2>1. q \in Surjection(1..n, S)
    BY DEF Rises, Surjection
  <2>2. q \in Injection(1..n, S)
    BY <1>1, <1>2
  <2>3. ExistsBijection(1..n, S)
    BY <2>1, <2>2 DEF ExistsBijection, Bijection
  <2> QED BY <1>1, <2>3, FS_CountingElements, FS_NatBijection
<1> DEFINE s == Ascending(S)
<1>4. s \in [1..n -> S] /\ \A i, j \in 1..n : i < j => s[i] < s[j]
  <2>1. s = CHOOSE t \in [1..n -> S] : \A i, j \in DOMAIN t : i < j => t[i] < t[j]
    BY <1>3 DEF Ascending
  <2>2. \E t \in [1..n -> S] : \A i, j \in DOMAIN t : i < j => t[i] < t[j]
    BY <1>1
  <2>3. s \in [1..n -> S] /\ \A i, j \in DOMAIN s : i < j => s[i] < s[j]
    BY <2>1, <2>2
  <2> QED BY <2>3
<1> HIDE DEF s
<1>5. Rises(s, n, S)
  <2>1. s \in Injection(1..n, S)
    BY <1>2, <1>4
  <2>2. Cardinality(1..n) = n
    BY <1>1, FS_Interval
  <2>3. s \in Surjection(1..n, S)
    BY <1>3, <2>1, <2>2, FS_Injection
  <2> QED BY <1>1, <1>4, <2>3 DEF Rises, Surjection
<1>6. s = q
  BY <1>5, RisesOnce
<1> QED BY <1>6 DEF s

(* There is one of every set that ends. *)
LEMMA RisingExists ==
    ASSUME NEW L \in Nat, NEW S \in SUBSET (1..L)
    PROVE  \E n, q : Rises(q, n, S)
<1> DEFINE Part(m) == {x \in S : x <= m}
           Bad == {m \in 0..L : ~\E n, q : Rises(q, n, Part(m))}
<1>0. \A x \in S : x \in Nat /\ 1 <= x /\ x <= L
  OBVIOUS
<1>1. Bad = {}
  <2>1. SUFFICES ASSUME Bad # {} PROVE FALSE
    OBVIOUS
  <2>2. Bad \in SUBSET Nat
    OBVIOUS
  <2>3. PICK m \in Bad : \A k \in Bad : m <= k
    <3> HIDE DEF Bad
    <3> QED BY <2>1, <2>2, WellOrdered
  <2>4. m \in 0..L /\ ~\E n, q : Rises(q, n, Part(m))
    OBVIOUS
  <2>5. CASE m = 0
    <3>1. Part(m) = {}
      <4>1. \A x \in S : ~(x <= m)
        BY <1>0, <2>5
      <4> QED BY <4>1
    <3>2. Rises(<<>>, 0, {})
      BY DEF Rises
    <3> HIDE DEF Part
    <3> QED BY <2>4, <3>1, <3>2
  <2>6. CASE m # 0
    <3>1. m - 1 \in 0..L /\ ~(m <= m - 1)
      BY <2>4, <2>6
    <3>2. m - 1 \notin Bad
      <4> HIDE DEF Bad
      <4> QED BY <2>3, <3>1
    <3>3. PICK n, q : Rises(q, n, Part(m - 1))
      BY <3>1, <3>2
    <3>4. CASE m \notin S
      <4>1. Part(m) = Part(m - 1)
        <5>1. \A x \in S : x <= m <=> x <= m - 1
          BY <1>0, <2>4, <3>4
        <5> QED BY <5>1
      <4> HIDE DEF Part
      <4> QED BY <2>4, <3>3, <4>1
    <3>5. CASE m \in S
      <4> DEFINE r == [i \in 1..(n + 1) |-> IF i = n + 1 THEN m ELSE q[i]]
      <4>1. Part(m) = Part(m - 1) \cup {m} /\ \A x \in Part(m - 1) : x \in Nat /\ x < m
        <5>1. \A x \in S : x <= m <=> x <= m - 1 \/ x = m
          BY <1>0, <2>4, <3>5
        <5>2. \A x \in S : x <= m - 1 => x \in Nat /\ x < m
          BY <1>0, <2>4
        <5> QED BY <3>5, <5>1, <5>2
      <4> HIDE DEF Part
      <4>2. n \in Nat /\ q \in [1..n -> Part(m - 1)]
        BY <3>3 DEF Rises
      <4>3. r \in [1..(n + 1) -> Part(m)]
        BY <4>1, <4>2
      <4>4. \A i, j \in 1..(n + 1) : i < j => r[i] < r[j]
        <5> SUFFICES ASSUME NEW i \in 1..(n + 1), NEW j \in 1..(n + 1), i < j
                     PROVE  r[i] < r[j]
          OBVIOUS
        <5>1. i \in 1..n /\ r[i] = q[i] /\ q[i] \in Part(m - 1)
          BY <4>2
        <5>2. CASE j = n + 1
          BY <4>1, <4>2, <5>1, <5>2
        <5>3. CASE j \in 1..n
          <6>1. r[j] = q[j]
            BY <4>2, <5>3
          <6> QED BY <3>3, <5>1, <5>3, <6>1 DEF Rises
        <5> QED BY <4>2, <5>2, <5>3
      <4>5. \A x \in Part(m) : \E i \in 1..(n + 1) : r[i] = x
        <5> SUFFICES ASSUME NEW x \in Part(m) PROVE \E i \in 1..(n + 1) : r[i] = x
          OBVIOUS
        <5>1. CASE x = m
          BY <4>2, <5>1
        <5>2. CASE x \in Part(m - 1)
          <6>1. PICK i \in 1..n : q[i] = x
            BY <3>3, <5>2 DEF Rises
          <6>2. i \in 1..(n + 1) /\ r[i] = q[i]
            BY <4>2
          <6> QED BY <6>1, <6>2
        <5> QED BY <4>1, <5>1, <5>2
      <4>6. Rises(r, n + 1, Part(m))
        <5> HIDE DEF r
        <5> QED BY <4>2, <4>3, <4>4, <4>5 DEF Rises
      <4> HIDE DEF r
      <4> QED BY <2>4, <4>6
    <3> QED BY <3>4, <3>5
  <2> QED BY <2>5, <2>6
<1>2. L \in 0..L /\ Part(L) = S
  <2>1. \A x \in S : x <= L
    BY <1>0
  <2>2. Part(L) = S
    BY <2>1
  <2>3. L \in 0..L
    OBVIOUS
  <2> HIDE DEF Part
  <2> QED BY <2>2, <2>3
<1>3. \E n, q : Rises(q, n, Part(L))
  <2> HIDE DEF Part
  <2> QED BY <1>1, <1>2
<1> HIDE DEF Part
<1> QED BY <1>2, <1>3

-----------------------------------------------------------------------------
(* Rows of groups. *)

(* Rows that come after those of their parents. *)
Proper == {r \in Seq(Rows) : \A k \in DOMAIN r : r[k].parent < k}

(* A stored row is a row, and its parent is an earlier one. *)
LEMMA ProperFact ==
    ASSUME NEW T \in Proper
    PROVE  /\ T \in Seq(Rows) /\ Len(T) \in Nat /\ DOMAIN T = 1..Len(T)
           /\ \A p \in DOMAIN T : T[p].parent \in Nat /\ T[p].parent < p
<1>1. T \in Seq(Rows) /\ \A p \in DOMAIN T : T[p].parent < p
  BY DEF Proper
<1>2. Len(T) \in Nat /\ DOMAIN T = 1..Len(T)
  BY <1>1
<1>3. ASSUME NEW p \in DOMAIN T
      PROVE  T[p].parent \in Nat
  <2>1. T[p] \in Rows
    BY <1>1, <1>2, <1>3
  <2> QED BY <2>1 DEF Rows
<1> QED BY <1>1, <1>2, <1>3

(* The rows under a parent come after it, in ascending order. *)
LEMMA UnderFact ==
    ASSUME NEW T \in Proper, NEW p \in Nat
    PROVE  \A j \in DOMAIN Under(T, p) : Under(T, p)[j] \in DOMAIN T /\ Under(T, p)[j] > p
<1> DEFINE S == {k \in DOMAIN T : T[k].parent = p}
<1>1. Len(T) \in Nat /\ DOMAIN T = 1..Len(T) /\ \A k \in DOMAIN T : T[k].parent < k
  BY DEF Proper
<1>2. S \in SUBSET (1..Len(T)) /\ S \in SUBSET Nat
  BY <1>1
<1>3. \A k \in S : k \in DOMAIN T /\ k > p
  BY <1>1
<1>4. Under(T, p) = Ascending(S)
  BY DEF Under
<1> HIDE DEF S
<1>5. PICK n, q : Rises(q, n, S)
  BY <1>1, <1>2, RisingExists
<1>6. Ascending(S) = q
  BY <1>2, <1>5, AscendingIs
<1>7. q \in [1..n -> S]
  BY <1>5 DEF Rises
<1> QED BY <1>3, <1>4, <1>6, <1>7

(* The group of row k if f has those of the rows after it. *)
Node(T, f, k) ==
    [op |-> T[k].op, conds |-> T[k].conds,
     groups |-> [j \in DOMAIN Under(T, k) |-> f[Under(T, k)[j]]]]

(* Every row is a group of those under it. *)
LEMMA LoadedFact ==
    ASSUME NEW T \in Proper
    PROVE  \A k \in DOMAIN T : Loaded(T)[k] = Node(T, Loaded(T), k)
<1> DEFINE L == Len(T)
           From(m) == (L - m + 1)..L
           Made(m, f) == f = [k \in From(m) |-> Node(T, f, k)]
           Bad == {m \in 0..L : ~\E f : Made(m, f)}
<1>1. L \in Nat /\ DOMAIN T = 1..L
  BY DEF Proper
<1> HIDE DEF L
<1>2. ASSUME NEW k \in 1..L, NEW f, NEW h, \A i \in (k + 1)..L : f[i] = h[i]
      PROVE  Node(T, f, k) = Node(T, h, k)
  <2>1. \A j \in DOMAIN Under(T, k) : Under(T, k)[j] \in (k + 1)..L
    BY <1>1, <1>2, UnderFact
  <2> QED BY <1>2, <2>1 DEF Node
<1>3. Bad = {}
  <2>1. SUFFICES ASSUME Bad # {} PROVE FALSE
    OBVIOUS
  <2>2. Bad \in SUBSET Nat
    OBVIOUS
  <2>3. PICK m \in Bad : \A k \in Bad : m <= k
    <3> HIDE DEF Bad
    <3> QED BY <2>1, <2>2, WellOrdered
  <2>4. m \in 0..L /\ ~\E f : Made(m, f)
    <3> HIDE DEF Made
    <3> QED OBVIOUS
  <2>5. CASE m = 0
    <3>1. From(m) = {}
      BY <1>1, <2>5
    <3> DEFINE f == [k \in From(m) |-> 0]
    <3>2. Made(m, f)
      <4> HIDE DEF From
      <4> QED BY <3>1
    <3> HIDE DEF Made, f
    <3> QED BY <2>4, <3>2
  <2>6. CASE m # 0
    <3>1. m - 1 \in 0..L /\ ~(m <= m - 1)
      BY <1>1, <2>4, <2>6
    <3>2. m - 1 \notin Bad
      <4> HIDE DEF Bad
      <4> QED BY <2>3, <3>1
    <3>3. PICK f : Made(m - 1, f)
      <4> HIDE DEF Made
      <4> QED BY <3>1, <3>2
    <3> DEFINE first == L - m + 1
               h == [k \in From(m) |-> IF k = first THEN Node(T, f, k) ELSE f[k]]
    <3>4. /\ first \in 1..L
          /\ \A i \in From(m) : i = first \/ i \in From(m - 1)
          /\ \A i \in From(m - 1) : i \in From(m) /\ i # first
          /\ \A k \in From(m) : k \in 1..L /\ \A i \in (k + 1)..L : i \in From(m - 1)
      BY <1>1, <2>4, <2>6, <3>1
    <3> HIDE DEF From, first
    <3>5. \A i \in From(m - 1) : h[i] = f[i]
      BY <3>4
    <3>6. ASSUME NEW k \in From(m)
          PROVE  h[k] = Node(T, h, k)
      <4>1. Node(T, f, k) = Node(T, h, k)
        <5> HIDE DEF h
        <5> QED BY <1>2, <3>4, <3>5
      <4>2. h[k] = Node(T, f, k)
        BY <3>3, <3>4
      <4> QED BY <4>1, <4>2
    <3>7. Made(m, h)
      <4>1. h = [k \in From(m) |-> Node(T, h, k)]
        BY <3>6
      <4> QED BY <4>1
    <3> HIDE DEF Made, h
    <3> QED BY <2>4, <3>7
  <2> QED BY <2>5, <2>6
<1>4. L \in 0..L /\ From(L) = DOMAIN T
  BY <1>1
<1>5. \E f : Made(L, f)
  <2> HIDE DEF Made
  <2> QED BY <1>3, <1>4
<1> DEFINE D(f) == [k \in DOMAIN T |-> Node(T, f, k)]
<1>6. \E f : f = D(f)
  BY <1>4, <1>5
<1>7. Loaded(T) = CHOOSE f : f = D(f)
  BY DEF Loaded, Node
<1>8. Loaded(T) = D(Loaded(T))
  <2> HIDE DEF D
  <2> QED BY <1>6, <1>7
<1> QED BY <1>8

(* The rows after each turn of the loop. *)
Turns(a, save, parent, rows) ==
    /\ a[0] = rows
    /\ \A k \in 1..Len(save) : a[k] = save[k][parent][a[k - 1]]
    /\ saveAll(save, parent, rows) = a[Len(save)]

(* The loop goes from turn to turn. *)
LEMMA LoopFact ==
    ASSUME NEW save, Len(save) \in Nat, NEW parent, NEW rows
    PROVE  \E a : Turns(a, save, parent, rows)
<1> DEFINE n == Len(save)
           Made(m, f) == f = [k \in 0..m |-> IF k = 0 THEN rows ELSE save[k][parent][f[k - 1]]]
           Bad == {m \in 0..n : ~\E f : Made(m, f)}
<1>1. Bad = {}
  <2>1. SUFFICES ASSUME Bad # {} PROVE FALSE
    OBVIOUS
  <2>2. Bad \in SUBSET Nat
    OBVIOUS
  <2>3. PICK m \in Bad : \A k \in Bad : m <= k
    <3> HIDE DEF Bad
    <3> QED BY <2>1, <2>2, WellOrdered
  <2>4. m \in 0..n /\ ~\E f : Made(m, f)
    <3> HIDE DEF Made
    <3> QED OBVIOUS
  <2>5. CASE m = 0
    <3> DEFINE f == [k \in 0..m |-> rows]
    <3>1. Made(m, f)
      <4>1. \A k \in 0..m : k = 0
        BY <2>5
      <4> QED BY <4>1
    <3> HIDE DEF Made, f
    <3> QED BY <2>4, <3>1
  <2>6. CASE m # 0
    <3>1. m - 1 \in 0..n /\ ~(m <= m - 1)
      BY <2>4, <2>6
    <3>2. m - 1 \notin Bad
      <4> HIDE DEF Bad
      <4> QED BY <2>3, <3>1
    <3>3. PICK f : Made(m - 1, f)
      <4> HIDE DEF Made
      <4> QED BY <3>1, <3>2
    <3> DEFINE h == [k \in 0..m |-> IF k = m THEN save[m][parent][f[m - 1]] ELSE f[k]]
    <3>4. \A k \in 0..m : k # m => h[k] = f[k]
      OBVIOUS
    <3>5. ASSUME NEW k \in 0..m
          PROVE  h[k] = IF k = 0 THEN rows ELSE save[k][parent][h[k - 1]]
      <4>1. CASE k = m
        <5>1. m - 1 \in 0..m /\ m - 1 # m
          BY <2>4, <2>6
        <5>2. h[m - 1] = f[m - 1]
          BY <3>4, <5>1
        <5>3. h[k] = save[k][parent][f[m - 1]]
          BY <4>1
        <5> HIDE DEF h
        <5> QED BY <2>6, <4>1, <5>2, <5>3
      <4>2. CASE k # m
        <5>1. k \in 0..(m - 1)
          BY <2>4, <4>2
        <5>2. f[k] = IF k = 0 THEN rows ELSE save[k][parent][f[k - 1]]
          BY <3>3, <5>1
        <5>3. k # 0 => k - 1 \in 0..m /\ k - 1 # m
          BY <2>4, <5>1
        <5>4. h[k] = f[k] /\ (k # 0 => h[k - 1] = f[k - 1])
          BY <3>4, <4>2, <5>3
        <5> HIDE DEF h
        <5> QED BY <5>2, <5>4
      <4> QED BY <4>1, <4>2
    <3>6. Made(m, h)
      <4>1. h = [k \in 0..m |-> IF k = 0 THEN rows ELSE save[k][parent][h[k - 1]]]
        BY <3>5
      <4> QED BY <4>1
    <3> HIDE DEF Made, h
    <3> QED BY <2>4, <3>6
  <2> QED BY <2>5, <2>6
<1>2. n \in 0..n
  OBVIOUS
<1>3. \E f : Made(n, f)
  <2> HIDE DEF Made, n
  <2> QED BY <1>1, <1>2
<1> DEFINE D(f) == [k \in 0..n |-> IF k = 0 THEN rows ELSE save[k][parent][f[k - 1]]]
           a == CHOOSE f : f = D(f)
<1>4. saveAll(save, parent, rows) = a[n]
  BY DEF saveAll
<1>5. a = D(a)
  <2>1. \E f : f = D(f)
    BY <1>3
  <2> HIDE DEF D
  <2> QED BY <2>1
<1> HIDE DEF a
<1>6. a[0] = rows /\ \A k \in 1..n : a[k] = save[k][parent][a[k - 1]]
  BY <1>5
<1> QED BY <1>4, <1>6 DEF Turns

-----------------------------------------------------------------------------
(* Saving. *)

(* What stores a group: for a parent, rows after of rows before.             *)
Savers == [Nat -> [Seq(Rows) -> Seq(Rows)]]

(* The loop makes rows of rows, and so does every turn of it. *)
LEMMA TurnsTypes ==
    ASSUME NEW save, Len(save) \in Nat, \A k \in 1..Len(save) : save[k] \in Savers,
           NEW parent \in Nat, NEW rows \in Seq(Rows), NEW a, Turns(a, save, parent, rows)
    PROVE  \A k \in 0..Len(save) : a[k] \in Seq(Rows)
<1> DEFINE n == Len(save)
           Bad == {k \in 0..n : a[k] \notin Seq(Rows)}
<1> HIDE DEF n
<1>1. /\ n \in Nat /\ a[0] = rows
      /\ \A k \in 1..n : save[k] \in Savers /\ a[k] = save[k][parent][a[k - 1]]
  BY DEF n, Turns
<1>2. SUFFICES ASSUME Bad # {} PROVE FALSE
  BY DEF n
<1>3. Bad \in SUBSET Nat
  BY <1>1
<1>4. PICK k \in Bad : \A m \in Bad : k <= m
  <2> HIDE DEF Bad
  <2> QED BY <1>2, <1>3, WellOrdered
<1>5. k \in 0..n /\ a[k] \notin Seq(Rows)
  OBVIOUS
<1>6. k \in 1..n /\ k - 1 \in 0..n /\ ~(k <= k - 1)
  <2>1. k # 0
    BY <1>1, <1>5
  <2> QED BY <1>1, <1>5, <2>1
<1>7. a[k - 1] \in Seq(Rows)
  <2>1. k - 1 \notin Bad
    <3> HIDE DEF Bad
    <3> QED BY <1>4, <1>6
  <2> QED BY <1>6, <2>1
<1>8. save[k][parent] \in [Seq(Rows) -> Seq(Rows)]
  BY <1>1, <1>6 DEF Savers
<1> QED BY <1>1, <1>5, <1>6, <1>7, <1>8

(* The row of a group. *)
RowOf(g, parent) == [parent |-> parent, op |-> g.op, conds |-> g.conds]

(* It is a row. *)
LEMMA RowFact ==
    ASSUME NEW g \in Groups, NEW parent \in Nat
    PROVE  RowOf(g, parent) \in Rows
<1>1. g.op \in {"AND", "OR"} /\ g.conds \in Seq(Conditions)
  BY GroupFact
<1> QED BY <1>1 DEF RowOf, Rows, GroupOperators

(* There is a way to store every group, by storing the groups in it. *)
LEMMA SavedFact ==
    /\ Saved \in [Groups -> Savers]
    /\ \A g \in Groups, parent \in Nat, rows \in Seq(Rows) :
           Saved[g][parent][rows] = saveGroup(g, Below(Saved, g), parent, rows)
<1> DEFINE Saver(g, b) == [parent \in Nat |-> [rows \in Seq(Rows) |-> saveGroup(g, b, parent, rows)]]
           D(f) == [g \in Groups |-> Saver(g, [k \in DOMAIN g.groups |-> f[g.groups[k]]])]
           H == [p \in Groups \X Seq(Savers) |-> Saver(p[1], p[2])]
<1>1. ASSUME NEW g \in Groups, NEW b \in [DOMAIN g.groups -> Savers]
      PROVE  Saver(g, b) \in Savers
  <2>1. g.groups \in Seq(Groups)
    BY GroupFact
  <2>2. b \in Seq(Savers) /\ Len(b) \in Nat /\ \A k \in 1..Len(b) : b[k] \in Savers
    BY <2>1
  <2>3. ASSUME NEW parent \in Nat, NEW rows \in Seq(Rows)
        PROVE  saveGroup(g, b, parent, rows) \in Seq(Rows)
    <3> DEFINE start == Append(rows, RowOf(g, parent))
               id == Len(rows) + 1
    <3>1. start \in Seq(Rows) /\ id \in Nat
      BY RowFact
    <3> HIDE DEF start, id
    <3>2. PICK a : Turns(a, b, id, start)
      BY <2>2, LoopFact
    <3>3. a[Len(b)] \in Seq(Rows)
      <4>1. \A k \in 0..Len(b) : a[k] \in Seq(Rows)
        BY <2>2, <3>1, <3>2, TurnsTypes
      <4> QED BY <2>2, <4>1
    <3>4. saveGroup(g, b, parent, rows) = saveAll(b, id, start)
      BY DEF saveGroup, RowOf, start, id
    <3> QED BY <3>2, <3>3, <3>4 DEF Turns
  <2> QED BY <2>3 DEF Savers
<1>2. ASSUME NEW g \in Groups, NEW b \in [DOMAIN g.groups -> Savers]
      PROVE  H[<<g, b>>] = Saver(g, b)
  <2>1. g.groups \in Seq(Groups)
    BY GroupFact
  <2>2. b \in Seq(Savers)
    BY <2>1
  <2> HIDE DEF Saver
  <2> QED BY <2>2
<1>3. PICK f \in [Groups -> Savers] : Solves(f, H)
  <2> HIDE DEF H, Saver
  <2>1. Yields(H, Savers)
    BY <1>1, <1>2 DEF Yields
  <2> QED BY <2>1, RecursionOverGroups
<1>4. f = D(f)
  <2>1. ASSUME NEW g \in Groups
        PROVE  f[g] = Saver(g, [k \in DOMAIN g.groups |-> f[g.groups[k]]])
    <3>1. [k \in DOMAIN g.groups |-> f[g.groups[k]]] \in [DOMAIN g.groups -> Savers]
      BY GroupFact
    <3> HIDE DEF H, Saver
    <3> QED BY <1>2, <1>3, <3>1 DEF Solves, Below
  <2> HIDE DEF Saver
  <2> QED BY <2>1
<1>5. Saved = CHOOSE h : h = D(h)
  BY DEF Saved
<1>6. Saved = D(Saved)
  <2> HIDE DEF D
  <2> QED BY <1>4, <1>5
<1>7. \A g \in Groups : Saved[g] = Saver(g, Below(Saved, g))
  <2> HIDE DEF Saver
  <2> QED BY <1>6 DEF Below
<1>8. Groups \subseteq {g \in Groups : Saved[g] \in Savers}
  <2> DEFINE S == {g \in Groups : Saved[g] \in Savers}
  <2>1. ASSUME NEW g \in Groups, \A k \in DOMAIN g.groups : g.groups[k] \in S
        PROVE  g \in S
    <3>1. Below(Saved, g) \in [DOMAIN g.groups -> Savers]
      BY <2>1 DEF Below
    <3> HIDE DEF Saver
    <3> QED BY <1>1, <1>7, <3>1
  <2> HIDE DEF S
  <2>2. Groups \subseteq S
    BY <2>1, LayerInduction
  <2> QED BY <2>2 DEF S
<1>9. Saved \in [Groups -> Savers]
  <2>1. Saved = [g \in Groups |-> Saved[g]]
    <3> HIDE DEF Saver
    <3>1. DOMAIN Saved = Groups
      BY <1>6
    <3> QED BY <1>6, <3>1
  <2> QED BY <1>8, <2>1
<1> QED BY <1>7, <1>9

-----------------------------------------------------------------------------
(* What is saved can be loaded. *)

(* T begins with R. *)
Extends(T, R) == Len(R) <= Len(T) /\ \A k \in 1..Len(R) : T[k] = R[k]

(* The rows after hi have no parents among those after lo. *)
Apart(T, lo, hi) == \A k \in DOMAIN T : k > hi => T[k].parent <= lo \/ T[k].parent > hi

(* The rows that R adds to rows are group g under a parent, whatever comes   *)
(* after them.                                                               *)
StoredAt(g, rows, parent, R) ==
    /\ R \in Proper /\ Len(rows) < Len(R) /\ Extends(R, rows)
    /\ R[Len(rows) + 1].parent = parent
    /\ \A k \in (Len(rows) + 2)..Len(R) : R[k].parent > Len(rows)
    /\ \A T \in Proper : Extends(T, R) /\ Apart(T, Len(rows), Len(R)) => Loaded(T)[Len(rows) + 1] = g

Stores(f, g) ==
    \A rows \in Proper : \A parent \in 0..Len(rows) : StoredAt(g, rows, parent, f[parent][rows])

(* The turns of a loop that stores gs. *)
Sequel(a, n, gs, parent) ==
    /\ n \in Nat
    /\ \A k \in 0..n : a[k] \in Proper
    /\ \A k \in 1..n : StoredAt(gs[k], a[k - 1], parent, a[k])

(* The loop stores gs if save stores each of them. *)
LEMMA TurnsStore ==
    ASSUME NEW gs, NEW save, Len(save) \in Nat, \A k \in 1..Len(save) : Stores(save[k], gs[k]),
           NEW rows \in Proper, NEW parent \in 0..Len(rows), NEW a, Turns(a, save, parent, rows)
    PROVE  Sequel(a, Len(save), gs, parent)
<1> DEFINE n == Len(save)
           Good(k) == a[k] \in Proper /\ Len(rows) <= Len(a[k])
           Bad == {k \in 0..n : ~Good(k)}
<1> HIDE DEF n
<1>1. /\ n \in Nat /\ a[0] = rows
      /\ \A k \in 1..n : Stores(save[k], gs[k]) /\ a[k] = save[k][parent][a[k - 1]]
  BY DEF n, Turns
<1>2. ASSUME NEW r \in Proper
      PROVE  Len(r) \in Nat
  BY DEF Proper
<1>3. ASSUME NEW k \in 1..n, Good(k - 1)
      PROVE  StoredAt(gs[k], a[k - 1], parent, a[k])
  <2>1. a[k - 1] \in Proper /\ parent \in 0..Len(a[k - 1])
    BY <1>2, <1>3
  <2> QED BY <1>1, <2>1 DEF Stores
<1>4. ASSUME NEW k \in 1..n, Good(k - 1)
      PROVE  Good(k)
  <2>1. a[k] \in Proper /\ Len(a[k - 1]) < Len(a[k])
    BY <1>3, <1>4 DEF StoredAt
  <2> QED BY <1>2, <1>4, <2>1
<1>5. Bad = {}
  <2>1. SUFFICES ASSUME Bad # {} PROVE FALSE
    OBVIOUS
  <2>2. Bad \in SUBSET Nat
    BY <1>1
  <2>3. PICK k \in Bad : \A m \in Bad : k <= m
    <3> HIDE DEF Bad
    <3> QED BY <2>1, <2>2, WellOrdered
  <2>4. k \in 0..n /\ ~Good(k)
    <3> HIDE DEF Good
    <3> QED OBVIOUS
  <2>5. Good(0)
    BY <1>1, <1>2
  <2> HIDE DEF Good
  <2>6. k \in 1..n /\ k - 1 \in 0..n /\ ~(k <= k - 1)
    <3>1. k # 0
      BY <2>4, <2>5
    <3> QED BY <1>1, <2>4, <3>1
  <2>7. k - 1 \notin Bad
    <3> HIDE DEF Bad
    <3> QED BY <2>3, <2>6
  <2> QED BY <1>4, <2>4, <2>6, <2>7
<1>6. \A k \in 0..n : Good(k)
  <2> HIDE DEF Good
  <2> QED BY <1>5
<1>7. \A k \in 1..n : k - 1 \in 0..n
  BY <1>1
<1>8. \A k \in 1..n : StoredAt(gs[k], a[k - 1], parent, a[k])
  <2> HIDE DEF Good
  <2> QED BY <1>3, <1>6, <1>7
<1> QED BY <1>1, <1>6, <1>8 DEF Sequel, n

(* Each turn begins with the rows of those before. *)
LEMMA TurnsExtend ==
    ASSUME NEW a, NEW n, NEW gs, NEW parent, Sequel(a, n, gs, parent), NEW j \in 0..n
    PROVE  \A k \in j..n : Extends(a[k], a[j])
<1> DEFINE Bad == {k \in j..n : ~Extends(a[k], a[j])}
<1>1. n \in Nat /\ \A k \in 0..n : Len(a[k]) \in Nat
  BY DEF Sequel, Proper
<1>2. SUFFICES ASSUME Bad # {} PROVE FALSE
  OBVIOUS
<1>3. Bad \in SUBSET Nat
  BY <1>1
<1>4. PICK k \in Bad : \A m \in Bad : k <= m
  <2> HIDE DEF Bad
  <2> QED BY <1>2, <1>3, WellOrdered
<1>5. k \in j..n /\ ~Extends(a[k], a[j])
  OBVIOUS
<1>6. k # j
  <2>1. Extends(a[j], a[j])
    BY <1>1 DEF Extends
  <2> QED BY <1>5, <2>1
<1>7. k \in 1..n /\ k - 1 \in j..n /\ k - 1 \in 0..n /\ ~(k <= k - 1)
  BY <1>1, <1>5, <1>6
<1>8. Extends(a[k - 1], a[j])
  <2>1. k - 1 \notin Bad
    <3> HIDE DEF Bad
    <3> QED BY <1>4, <1>7
  <2> QED BY <1>7, <2>1
<1>9. Extends(a[k], a[k - 1])
  BY <1>7 DEF Sequel, StoredAt
<1>10. Len(a[j]) \in Nat /\ Len(a[k - 1]) \in Nat /\ Len(a[k]) \in Nat
  BY <1>1, <1>5, <1>7
<1>11. Extends(a[k], a[j])
  BY <1>8, <1>9, <1>10 DEF Extends
<1> QED BY <1>5, <1>11

(* Every row that the loop adds is of one turn: the turn's first row, under  *)
(* the parent, or one under another of the turn.                             *)
LEMMA TurnOfRow ==
    ASSUME NEW a, NEW n, NEW gs, NEW parent, Sequel(a, n, gs, parent),
           NEW p \in Nat, Len(a[0]) < p, p <= Len(a[n])
    PROVE  \E k \in 1..n :
               /\ Len(a[k - 1]) < p /\ p <= Len(a[k])
               /\ a[n][p] = a[k][p]
               /\ p = Len(a[k - 1]) + 1 => a[n][p].parent = parent
               /\ p # Len(a[k - 1]) + 1 => a[n][p].parent > Len(a[k - 1])
<1> DEFINE Past == {k \in 0..n : p <= Len(a[k])}
<1>1. n \in Nat /\ n \in 0..n /\ \A k \in 0..n : Len(a[k]) \in Nat
  BY DEF Sequel, Proper
<1>2. Past \in SUBSET Nat /\ n \in Past
  BY <1>1
<1>3. PICK k \in Past : \A m \in Past : k <= m
  <2> HIDE DEF Past
  <2> QED BY <1>2, WellOrdered
<1>4. k \in 0..n /\ p <= Len(a[k])
  OBVIOUS
<1>5. k # 0
  BY <1>1, <1>4
<1>6. k \in 1..n /\ k - 1 \in 0..n /\ ~(k <= k - 1) /\ n \in k..n
  BY <1>1, <1>4, <1>5
<1>7. Len(a[k - 1]) < p
  <2>1. k - 1 \notin Past
    <3> HIDE DEF Past
    <3> QED BY <1>3, <1>6
  <2>2. ~(p <= Len(a[k - 1])) /\ Len(a[k - 1]) \in Nat
    BY <1>1, <1>6, <2>1
  <2> QED BY <2>2
<1>8. a[n][p] = a[k][p]
  <2>1. Extends(a[n], a[k])
    BY <1>4, <1>6, TurnsExtend
  <2>2. p \in 1..Len(a[k])
    BY <1>1, <1>4, <1>6, <1>7
  <2> QED BY <2>1, <2>2 DEF Extends
<1>9. StoredAt(gs[k], a[k - 1], parent, a[k])
  BY <1>6 DEF Sequel
<1>10. p = Len(a[k - 1]) + 1 => a[k][p].parent = parent
  BY <1>9 DEF StoredAt
<1>11. p # Len(a[k - 1]) + 1 => a[k][p].parent > Len(a[k - 1])
  <2>1. p # Len(a[k - 1]) + 1 => p \in (Len(a[k - 1]) + 2)..Len(a[k])
    BY <1>1, <1>4, <1>6, <1>7
  <2> QED BY <1>9, <2>1 DEF StoredAt
<1> QED BY <1>4, <1>6, <1>7, <1>8, <1>10, <1>11

(* What the loop has stored under its parent can be loaded from there, if no *)
(* other row has that parent.                                                *)
LEMMA TurnsLoad ==
    ASSUME NEW a, NEW n, NEW gs, NEW parent \in Nat, Sequel(a, n, gs, parent),
           NEW T \in Proper, Extends(T, a[n]), Apart(T, Len(a[0]), Len(a[n])),
           \A p \in DOMAIN T : p <= Len(a[0]) \/ p > Len(a[n]) => T[p].parent # parent,
           parent <= Len(a[0])
    PROVE  /\ DOMAIN Under(T, parent) = 1..n
           /\ \A k \in 1..n : Loaded(T)[Under(T, parent)[k]] = gs[k]
<1> DEFINE S == {p \in DOMAIN T : T[p].parent = parent}
           q == [k \in 1..n |-> Len(a[k - 1]) + 1]
<1>1. n \in Nat /\ n \in 0..n /\ 0 \in 0..n /\ \A k \in 0..n : Len(a[k]) \in Nat
  BY DEF Sequel, Proper
<1>2. Len(T) \in Nat /\ DOMAIN T = 1..Len(T) /\ \A p \in DOMAIN T : T[p].parent \in Nat /\ T[p].parent < p
  BY ProperFact
<1>3. ASSUME NEW j \in 0..n, NEW k \in j..n
      PROVE  Extends(a[k], a[j]) /\ Len(a[j]) <= Len(a[k])
  BY <1>3, TurnsExtend DEF Extends
<1>4. ASSUME NEW k \in 1..n
      PROVE  /\ k - 1 \in 0..n /\ StoredAt(gs[k], a[k - 1], parent, a[k])
             /\ Len(a[k - 1]) < Len(a[k]) /\ Len(a[0]) <= Len(a[k - 1]) /\ Len(a[k]) <= Len(a[n])
  <2>1. k - 1 \in 0..n /\ k \in 0..n /\ n \in k..n /\ k - 1 \in 0..n
    BY <1>1
  <2>2. StoredAt(gs[k], a[k - 1], parent, a[k])
    BY DEF Sequel
  <2>3. Len(a[k - 1]) < Len(a[k])
    BY <2>2 DEF StoredAt
  <2>4. Len(a[0]) <= Len(a[k - 1]) /\ Len(a[k]) <= Len(a[n])
    BY <1>1, <1>3, <2>1
  <2> QED BY <2>1, <2>2, <2>3, <2>4
<1>5. ASSUME NEW k \in 1..n
      PROVE  Extends(T, a[k])
  <2>1. k \in 0..n /\ n \in k..n
    BY <1>1
  <2>2. Extends(a[n], a[k])
    BY <2>1, <1>3
  <2>3. Len(a[k]) \in Nat /\ Len(a[n]) \in Nat
    BY <1>1, <2>1
  <2> QED BY <1>2, <2>2, <2>3 DEF Extends
<1>6. ASSUME NEW p \in Nat, Len(a[0]) < p, p <= Len(a[n])
      PROVE  /\ p \in DOMAIN T
             /\ \E k \in 1..n :
                  /\ Len(a[k - 1]) < p /\ p <= Len(a[k])
                  /\ p = Len(a[k - 1]) + 1 => T[p].parent = parent
                  /\ p # Len(a[k - 1]) + 1 => T[p].parent > Len(a[k - 1])
  <2>1. p \in 1..Len(a[n])
    BY <1>1, <1>6
  <2>2. T[p] = a[n][p] /\ Len(a[n]) <= Len(T)
    BY <2>1 DEF Extends
  <2>3. p \in DOMAIN T
    BY <1>1, <1>2, <2>1, <2>2
  <2> QED BY <1>6, <2>2, <2>3, TurnOfRow
<1>7. Rises(q, n, S)
  <2>1. ASSUME NEW k \in 1..n
        PROVE  q[k] \in S
    <3> DEFINE p == Len(a[k - 1]) + 1
    <3>1. p \in Nat /\ Len(a[0]) < p /\ p <= Len(a[k]) /\ p <= Len(a[n]) /\ p \in 1..Len(a[k])
      <4>1. k - 1 \in 0..n /\ Len(a[k - 1]) < Len(a[k]) /\ Len(a[0]) <= Len(a[k - 1]) /\ Len(a[k]) <= Len(a[n])
        BY <1>4
      <4>2. Len(a[0]) \in Nat /\ Len(a[k - 1]) \in Nat /\ Len(a[k]) \in Nat /\ Len(a[n]) \in Nat
        <5>1. 0 \in 0..n /\ k \in 0..n /\ n \in 0..n
          BY <1>1
        <5> QED BY <1>1, <4>1, <5>1
      <4> QED BY <4>1, <4>2
    <3>2. a[k][p].parent = parent
      <4>1. StoredAt(gs[k], a[k - 1], parent, a[k])
        BY <1>4
      <4> QED BY <4>1 DEF StoredAt
    <3>3. T[p] = a[k][p]
      BY <1>5, <3>1 DEF Extends
    <3>4. p \in DOMAIN T
      BY <1>6, <3>1
    <3> QED BY <3>2, <3>3, <3>4
  <2>2. ASSUME NEW i \in 1..n, NEW j \in 1..n, i < j
        PROVE  q[i] < q[j]
    <3>1. i \in 0..n /\ j - 1 \in i..n /\ i - 1 \in 0..n /\ j - 1 \in 0..n
      BY <1>1, <2>2
    <3>2. Len(a[i - 1]) < Len(a[i]) /\ Len(a[i]) <= Len(a[j - 1])
      BY <1>3, <1>4, <3>1
    <3>3. Len(a[i - 1]) \in Nat /\ Len(a[i]) \in Nat /\ Len(a[j - 1]) \in Nat
      BY <1>1, <3>1
    <3> QED BY <3>2, <3>3
  <2>3. ASSUME NEW p \in S
        PROVE  \E k \in 1..n : q[k] = p
    <3>1. p \in DOMAIN T /\ p \in Nat /\ T[p].parent = parent
      BY <1>2
    <3>2. Len(a[0]) < p /\ p <= Len(a[n])
      <4>1. Len(a[0]) \in Nat /\ Len(a[n]) \in Nat
        BY <1>1
      <4> QED BY <3>1, <4>1
    <3>3. PICK k \in 1..n : p # Len(a[k - 1]) + 1 => T[p].parent > Len(a[k - 1])
      BY <1>6, <3>1, <3>2
    <3>4. Len(a[k - 1]) \in Nat /\ Len(a[0]) \in Nat /\ Len(a[0]) <= Len(a[k - 1])
      BY <1>1, <1>4
    <3>5. p = Len(a[k - 1]) + 1
      BY <3>1, <3>3, <3>4
    <3> QED BY <3>5
  <2> HIDE DEF S
  <2>4. q \in [1..n -> S]
    BY <2>1
  <2> HIDE DEF q
  <2> QED BY <1>1, <2>2, <2>3, <2>4 DEF Rises
<1>8. Under(T, parent) = q
  <2>1. S \in SUBSET Nat
    BY <1>2
  <2>2. Under(T, parent) = Ascending(S)
    BY DEF Under
  <2> HIDE DEF S, q
  <2> QED BY <1>7, <2>1, <2>2, AscendingIs
<1>9. ASSUME NEW k \in 1..n
      PROVE  Apart(T, Len(a[k - 1]), Len(a[k]))
  <2>1. SUFFICES ASSUME NEW p \in DOMAIN T, p > Len(a[k])
                 PROVE  T[p].parent <= Len(a[k - 1]) \/ T[p].parent > Len(a[k])
    BY DEF Apart
  <2>2. /\ Len(a[0]) \in Nat /\ Len(a[k - 1]) \in Nat /\ Len(a[k]) \in Nat /\ Len(a[n]) \in Nat
        /\ k \in 0..n
    BY <1>1, <1>4
  <2>3. p \in Nat /\ T[p].parent \in Nat
    BY <1>2
  <2>4. CASE p > Len(a[n])
    <3>1. T[p].parent <= Len(a[0]) \/ T[p].parent > Len(a[n])
      BY <2>4 DEF Apart
    <3> QED BY <1>4, <2>2, <2>3, <3>1
  <2>5. CASE p <= Len(a[n])
    <3>1. Len(a[0]) < p
      BY <1>4, <2>1, <2>2, <2>3
    <3>2. PICK j \in 1..n :
              /\ Len(a[j - 1]) < p /\ p <= Len(a[j])
              /\ p = Len(a[j - 1]) + 1 => T[p].parent = parent
              /\ p # Len(a[j - 1]) + 1 => T[p].parent > Len(a[j - 1])
      BY <1>6, <2>3, <2>5, <3>1
    <3>3. j - 1 \in 0..n /\ j \in 0..n /\ Len(a[j - 1]) \in Nat /\ Len(a[j]) \in Nat
      BY <1>1, <1>4
    <3>4. k < j
      <4>1. ASSUME j <= k PROVE FALSE
        <5>1. Len(a[j]) <= Len(a[k])
          <6>1. k \in j..n
            BY <1>1, <4>1
          <6> QED BY <1>3, <3>3, <6>1
        <5> QED BY <2>1, <2>2, <2>3, <3>2, <3>3, <5>1
      <4> QED BY <1>1, <4>1
    <3>5. Len(a[k]) <= Len(a[j - 1])
      <4>1. j - 1 \in k..n
        BY <1>1, <3>4
      <4> QED BY <1>3, <2>2, <4>1
    <3>6. CASE p = Len(a[j - 1]) + 1
      <4>1. T[p].parent = parent
        BY <3>2, <3>6
      <4> QED BY <1>4, <2>2, <4>1
    <3>7. CASE p # Len(a[j - 1]) + 1
      BY <2>2, <2>3, <3>2, <3>3, <3>5, <3>7
    <3> QED BY <3>6, <3>7
  <2> QED BY <2>2, <2>3, <2>4, <2>5
<1>10. ASSUME NEW k \in 1..n
       PROVE  Loaded(T)[q[k]] = gs[k]
  <2>1. Extends(T, a[k]) /\ Apart(T, Len(a[k - 1]), Len(a[k]))
    BY <1>5, <1>9
  <2>2. Loaded(T)[Len(a[k - 1]) + 1] = gs[k]
    BY <1>4, <2>1 DEF StoredAt
  <2> QED BY <2>2
<1>11. DOMAIN q = 1..n
  OBVIOUS
<1> HIDE DEF q
<1> QED BY <1>8, <1>10, <1>11

(* A group is stored if the groups in it are. *)
LEMMA GroupStored ==
    ASSUME NEW g \in Groups, \A k \in DOMAIN g.groups : Stores(Saved[g.groups[k]], g.groups[k])
    PROVE  Stores(Saved[g], g)
<1> SUFFICES ASSUME NEW rows \in Proper, NEW parent \in 0..Len(rows)
             PROVE  StoredAt(g, rows, parent, Saved[g][parent][rows])
  BY DEF Stores
<1> DEFINE save == Below(Saved, g)
           start == Append(rows, RowOf(g, parent))
           id == Len(rows) + 1
           n == Len(save)
<1>1. /\ Len(rows) \in Nat /\ rows \in Seq(Rows) /\ parent \in Nat /\ id \in Nat
      /\ \A k \in DOMAIN rows : rows[k].parent < k
  BY DEF Proper
<1>2. g.groups \in Seq(Groups)
  BY GroupFact
<1>3. /\ n \in Nat /\ DOMAIN g.groups = 1..n /\ n = Len(g.groups)
      /\ \A k \in 1..n : Stores(save[k], g.groups[k])
  BY <1>2 DEF Below
<1>4. /\ start \in Seq(Rows) /\ Len(start) = id
      /\ \A k \in 1..Len(rows) : start[k] = rows[k]
      /\ start[id] = RowOf(g, parent)
  <2>1. RowOf(g, parent) \in Rows
    BY <1>1, RowFact
  <2> QED BY <1>1, <2>1
<1>5. Saved[g][parent][rows] = saveAll(save, id, start)
  BY <1>1, SavedFact DEF saveGroup, RowOf
<1> HIDE DEF save, start, id, n
<1>6. start[id].parent = parent /\ start[id].op = g.op /\ start[id].conds = g.conds
  BY <1>4 DEF RowOf
<1>7. start \in Proper /\ id \in 0..Len(start)
  <2>1. ASSUME NEW k \in DOMAIN start
        PROVE  start[k].parent < k
    <3>1. k \in 1..id
      BY <1>1, <1>4
    <3>2. CASE k = id
      BY <1>1, <1>6, <3>2 DEF id
    <3>3. CASE k # id
      <4>1. k \in 1..Len(rows) /\ k \in DOMAIN rows
        BY <1>1, <3>1, <3>3 DEF id
      <4> QED BY <1>1, <1>4, <4>1
    <3> QED BY <3>2, <3>3
  <2> QED BY <1>1, <1>4, <2>1 DEF Proper
<1>8. PICK a : Turns(a, save, id, start)
  <2>1. Len(save) \in Nat
    BY <1>3 DEF n
  <2> QED BY <2>1, LoopFact
<1>9. Sequel(a, n, g.groups, id)
  <2>1. Len(save) \in Nat /\ \A k \in 1..Len(save) : Stores(save[k], g.groups[k])
    BY <1>3 DEF n
  <2>2. Sequel(a, Len(save), g.groups, id)
    BY <1>7, <1>8, <2>1, TurnsStore
  <2> QED BY <2>2 DEF n
<1> DEFINE R == a[n]
<1>10. a[0] = start /\ saveAll(save, id, start) = R
  BY <1>8 DEF Turns, n
<1>11. R \in Proper /\ Len(R) \in Nat /\ Extends(R, start)
  <2>1. 0 \in 0..n /\ n \in 0..n
    BY <1>3
  <2>2. R \in Proper
    BY <1>9, <2>1 DEF Sequel
  <2>3. Extends(R, start)
    BY <1>9, <1>10, <2>1, TurnsExtend
  <2> QED BY <2>2, <2>3 DEF Proper
<1> HIDE DEF R
<1>12. Len(rows) < Len(R) /\ Extends(R, rows) /\ R[id] = start[id]
  <2>1. id <= Len(R) /\ \A k \in 1..id : R[k] = start[k]
    BY <1>4, <1>11 DEF Extends
  <2>2. Len(rows) < Len(R) /\ Len(rows) < id /\ id \in 1..id
    BY <1>1, <1>11, <2>1 DEF id
  <2>3. \A k \in 1..Len(rows) : R[k] = rows[k]
    BY <1>1, <1>4, <2>1, <2>2
  <2> QED BY <1>1, <1>11, <2>1, <2>2, <2>3 DEF Extends
<1>13. ASSUME NEW p \in (id + 1)..Len(R)
       PROVE  R[p].parent >= id
  <2>1. p \in Nat /\ Len(a[0]) < p /\ p <= Len(a[n])
    BY <1>1, <1>4, <1>10, <1>11 DEF R
  <2>2. PICK k \in 1..n : /\ p = Len(a[k - 1]) + 1 => R[p].parent = id
                          /\ p # Len(a[k - 1]) + 1 => R[p].parent > Len(a[k - 1])
    <3>1. \E k \in 1..n : /\ p = Len(a[k - 1]) + 1 => a[n][p].parent = id
                          /\ p # Len(a[k - 1]) + 1 => a[n][p].parent > Len(a[k - 1])
      BY <1>9, <2>1, TurnOfRow
    <3> QED BY <3>1 DEF R
  <2>3. k - 1 \in 0..n /\ 0 \in 0..n
    BY <1>3
  <2>4. Len(a[k - 1]) \in Nat /\ id <= Len(a[k - 1])
    <3>1. Extends(a[k - 1], a[0])
      BY <1>9, <2>3, TurnsExtend
    <3>2. Len(a[k - 1]) \in Nat
      BY <1>9, <2>3 DEF Sequel, Proper
    <3> QED BY <1>4, <1>10, <3>1, <3>2 DEF Extends
  <2>5. R[p].parent \in Nat
    <3>1. p \in DOMAIN R /\ R \in Proper
      BY <1>1, <1>11, <2>1, ProperFact DEF R
    <3> QED BY <3>1, ProperFact
  <2> QED BY <1>1, <2>2, <2>4, <2>5
<1>14. ASSUME NEW T \in Proper, Extends(T, R), Apart(T, Len(rows), Len(R))
       PROVE  Loaded(T)[id] = g
  <2>1. Len(T) \in Nat /\ DOMAIN T = 1..Len(T) /\ \A p \in DOMAIN T : T[p].parent \in Nat /\ T[p].parent < p
    BY ProperFact
  <2>2. id \in DOMAIN T /\ id \in 1..Len(R) /\ T[id] = start[id]
    <3>1. id \in 1..Len(R)
      BY <1>1, <1>11, <1>12 DEF id
    <3> QED BY <1>11, <1>12, <1>14, <2>1, <3>1 DEF Extends
  <2>3. ASSUME NEW p \in DOMAIN T, p > Len(R)
        PROVE  T[p].parent # id /\ (T[p].parent <= id \/ T[p].parent > Len(R))
    <3>1. T[p].parent <= Len(rows) \/ T[p].parent > Len(R)
      BY <1>14, <2>3 DEF Apart
    <3>2. T[p].parent \in Nat /\ Len(rows) < id /\ id <= Len(R)
      BY <1>1, <2>1, <2>2 DEF id
    <3> QED BY <1>1, <1>11, <3>1, <3>2
  <2>4. ASSUME NEW p \in DOMAIN T, p <= id
        PROVE  T[p].parent # id
    BY <1>1, <2>1, <2>4
  <2>5. Apart(T, Len(a[0]), Len(a[n]))
    BY <1>4, <1>10, <2>3 DEF Apart, R
  <2>6. \A p \in DOMAIN T : p <= Len(a[0]) \/ p > Len(a[n]) => T[p].parent # id
    BY <1>4, <1>10, <2>3, <2>4 DEF R
  <2>7. id <= Len(a[0]) /\ Extends(T, a[n])
    BY <1>1, <1>4, <1>10, <1>14 DEF R
  <2>8. /\ DOMAIN Under(T, id) = 1..n
        /\ \A k \in 1..n : Loaded(T)[Under(T, id)[k]] = g.groups[k]
    BY <1>1, <1>9, <2>5, <2>6, <2>7, TurnsLoad
  <2>9. [j \in DOMAIN Under(T, id) |-> Loaded(T)[Under(T, id)[j]]] = g.groups
    BY <1>2, <1>3, <2>8
  <2>10. Loaded(T)[id] = [op |-> g.op, conds |-> g.conds, groups |-> g.groups]
    BY <1>6, <2>2, <2>9, LoadedFact DEF Node
  <2> QED BY <2>10, GroupRecord
<1>15. R[Len(rows) + 1].parent = parent
  BY <1>6, <1>12 DEF id
<1>16. \A k \in (Len(rows) + 2)..Len(R) : R[k].parent > Len(rows)
  <2> SUFFICES ASSUME NEW k \in (Len(rows) + 2)..Len(R) PROVE R[k].parent > Len(rows)
    OBVIOUS
  <2>1. k \in (id + 1)..Len(R) /\ k \in DOMAIN R
    BY <1>1, <1>11, ProperFact DEF id
  <2>2. R[k].parent >= id /\ R[k].parent \in Nat
    BY <1>11, <1>13, <2>1, ProperFact
  <2> QED BY <1>1, <2>2 DEF id
<1>17. \A T \in Proper : Extends(T, R) /\ Apart(T, Len(rows), Len(R)) => Loaded(T)[Len(rows) + 1] = g
  BY <1>14 DEF id
<1> QED BY <1>5, <1>10, <1>11, <1>12, <1>15, <1>16, <1>17 DEF StoredAt

(* What is loaded is what was saved. *)
LEMMA LoadFact ==
    ASSUME NEW gs \in Seq(Groups)
    PROVE  buildGroupTree(saveConditions(gs), 0) = gs
<1> DEFINE S == {g \in Groups : Stores(Saved[g], g)}
           save == [k \in DOMAIN gs |-> Saved[gs[k]]]
           n == Len(save)
           T == saveConditions(gs)
<1>1. Groups \subseteq S
  <2>1. ASSUME NEW g \in Groups, \A k \in DOMAIN g.groups : g.groups[k] \in S
        PROVE  g \in S
    BY <2>1, GroupStored
  <2> HIDE DEF S
  <2> QED BY <2>1, LayerInduction
<1>2. n \in Nat /\ DOMAIN gs = 1..n /\ \A k \in 1..n : Stores(save[k], gs[k])
  BY <1>1
<1>3. T = saveAll(save, 0, <<>>)
  BY DEF saveConditions
<1> HIDE DEF save, T
<1>4. PICK a : Turns(a, save, 0, <<>>)
  BY <1>2, LoopFact
<1>5. <<>> \in Proper /\ 0 \in 0..Len(<<>>)
  BY DEF Proper
<1>6. Sequel(a, n, gs, 0)
  BY <1>2, <1>4, <1>5, TurnsStore
<1>7. a[0] = <<>> /\ T = a[n]
  BY <1>3, <1>4 DEF Turns
<1>8. T \in Proper
  <2>1. n \in 0..n
    BY <1>2
  <2> QED BY <1>6, <1>7, <2>1 DEF Sequel
<1>9. Len(T) \in Nat /\ DOMAIN T = 1..Len(T)
  BY <1>8 DEF Proper
<1> HIDE DEF n
<1>10. /\ Extends(T, a[n]) /\ Apart(T, Len(a[0]), Len(a[n]))
       /\ \A p \in DOMAIN T : p <= Len(a[0]) \/ p > Len(a[n]) => T[p].parent # 0
       /\ 0 <= Len(a[0])
  <2>1. Len(a[0]) = 0
    BY <1>7
  <2>2. \A p \in DOMAIN T : ~(p <= 0) /\ ~(p > Len(T))
    BY <1>9
  <2>3. Extends(T, T)
    BY <1>9 DEF Extends
  <2> QED BY <1>7, <2>1, <2>2, <2>3 DEF Apart
<1>11. DOMAIN Under(T, 0) = 1..n /\ \A k \in 1..n : Loaded(T)[Under(T, 0)[k]] = gs[k]
  BY <1>6, <1>8, <1>10, TurnsLoad
<1>12. buildGroupTree(T, 0) = [k \in 1..n |-> gs[k]]
  BY <1>11 DEF buildGroupTree
<1> QED BY <1>2, <1>12 DEF T

(* The groups of a rule come back from the database as they were stored.     *)
THEOREM StoredRulesComeBack ==
    Spec => []LoadInvertsSave
<1>1. EngineInv => LoadInvertsSave
  <2> SUFFICES ASSUME EngineInv, NEW i \in DOMAIN rules
               PROVE  buildGroupTree(saveConditions(rules[i].groups), 0) = rules[i].groups
    BY DEF LoadInvertsSave
  <2>1. rules \in Seq(Rules)
    BY DEF EngineInv, TypeInv
  <2>2. rules[i] \in Rules
    BY <2>1
  <2>3. rules[i].groups \in Seq(Groups)
    BY <2>2 DEF Rules
  <2> QED BY <2>3, LoadFact
<1> QED BY <1>1, MatchInvariant, PTL
=============================================================================
