---------------------------- MODULE RulesProofs ----------------------------
(***************************************************************************)
(* Theorems about the rules engine: RuleWorkflow, for every document,      *)
(* every file of rules that is valid, and all stores, and BudgetMatch, for *)
(* every tree, hierarchy of codes and record.                              *)
(*                                                                         *)
(* The workflow decides each record as it would alone, and every part of   *)
(* the document stays covered: a unit that is not committed is one of the  *)
(* records that the step looks at (RecordsAt), and no step has ended it; a *)
(* record that no step has ended is a unit.                                *)
(*                                                                         *)
(* The match finds the only branch of the tree that a record leads to: the *)
(* path, as far as it has come, is the beginning of every such branch.     *)
(***************************************************************************)
EXTENDS RuleWorkflow, BudgetMatch, SelectionProofs, FiniteSetTheorems

-----------------------------------------------------------------------------
(* The inductive invariant                                                  *)

IsCheck(steps, k) == k \in DOMAIN steps /\ steps[k].action \notin Splits
Ends(s, u) == Outcome(s, u, {}) \in {"pass", "commit"}

\* The unit at position i, when step st looks at the unit nx, is one of the records
\* and has not been ended, nor refused by the store b.
UnitRight(steps, st, nx, u, i, b) ==
    /\ u \in RecordsAt(steps, st)
    /\ ~Ended(steps, st, u)
    /\ i < nx => ~Ends(steps[st], u) /\ Outcome(steps[st], u, b) # "refuse"

\* A record that no step has ended is a unit.
RecordKept(steps, st, us, u) ==
    \/ Ended(steps, st, u)
    \/ \E i \in DOMAIN us : us[i] = u
    \/ IsCheck(steps, st) /\ Ends(steps[st], u)

\* What the steps before k have looked at, they have not refused.
NotRefused(steps, k, b) ==
    \A j \in 1 .. k - 1 : IsCheck(steps, j) =>
        \A u \in RecordsAt(steps, j) : Outcome(steps[j], u, b) = "refuse" => Ended(steps, j, u)

UnitsRight(steps, st, nx, us, b) ==
    /\ us \in Seq(UnitSet)
    /\ st \in 1 .. Len(steps) + 1
    /\ nx \in 1 .. Len(us) + 1
    /\ nx # 1 => IsCheck(steps, st)
    /\ \A i \in DOMAIN us : us[i].committed \/ UnitRight(steps, st, nx, us[i], i, b)
    /\ \A u \in RecordsAt(steps, st) : RecordKept(steps, st, us, u)
    /\ NotRefused(steps, st, b)

\* No record is a part of another, or of one that was passed.
Apart(us, gone) ==
    /\ gone \subseteq Seq(Nat)
    /\ \A i, j \in DOMAIN us : IsPrefix(us[i].label, us[j].label) => i = j
    /\ \A i \in DOMAIN us, l \in gone : ~IsPrefix(us[i].label, l) /\ ~IsPrefix(l, us[i].label)
    /\ \A l, m \in gone : IsPrefix(l, m) => l = m
Covered(us, gone) ==
    \A p \in Parts : (\E i \in DOMAIN us : IsPrefix(us[i].label, p)) \/ (\E l \in gone : IsPrefix(l, p))

Known == {k \in Kinds : \A b \in seen : k \in b}

TargetRight ==
    /\ UnitsRight(Steps, step, next, units, UNION seen)
    /\ Apart(units, passed)
    /\ Covered(units, passed)

\* What the targets before this one have said.
TargetsSaid ==
    IF refusals = <<>>
    THEN \A t \in 1 .. target - 1 : Accepts(rules[t], UNION seen)
    ELSE \E t \in 1 .. target - 1 : ~Accepts(rules[t], Known)

WorkflowInv ==
    /\ form \in Documents /\ rules \in RuleFiles
    /\ \A t \in DOMAIN rules : ValidateTarget(rules[t])
    /\ target \in 1 .. Len(rules) + 1
    /\ refusals \in Seq([target : Nat, label : Seq(Nat)])
    /\ store \in seen
    /\ verdict \in {"none", "accept", "refuse"}
    /\ Running => TargetRight
    /\ verdict = "none" => TargetsSaid
    /\ VerdictOfEachRecord

-----------------------------------------------------------------------------
(* Prefixes                                                                 *)

LEMMA PrefixMeans ==
    ASSUME NEW x \in Seq(Nat), NEW y \in Seq(Nat)
    PROVE  IsPrefix(x, y) <=> Len(x) <= Len(y) /\ \A i \in 1 .. Len(x) : x[i] = y[i]
<1>1. Len(x) \in Nat /\ Len(y) \in Nat
  OBVIOUS
<1>2. ASSUME Len(x) <= Len(y)
      PROVE  SubSeq(x, 1, Len(x)) = SubSeq(y, 1, Len(x)) <=> \A i \in 1 .. Len(x) : x[i] = y[i]
  <2> DEFINE n == Len(x)
             p == SubSeq(x, 1, n)
             q == SubSeq(y, 1, n)
  <2>1. /\ p \in Seq(Nat) /\ Len(p) = n /\ DOMAIN p = 1 .. n /\ \A i \in 1 .. n : p[i] = x[i]
        /\ q \in Seq(Nat) /\ Len(q) = n /\ DOMAIN q = 1 .. n /\ \A i \in 1 .. n : q[i] = y[i]
    BY <1>1, <1>2
  <2> HIDE DEF p, q, n
  <2>2. ASSUME \A i \in 1 .. n : x[i] = y[i] PROVE p = q
    <3>1. \A i \in 1 .. n : p[i] = q[i]
      BY <2>1, <2>2
    <3> QED BY <2>1, <3>1
  <2>3. ASSUME p = q PROVE \A i \in 1 .. n : x[i] = y[i]
    BY <2>1, <2>3
  <2> QED BY <2>2, <2>3 DEF p, q, n
<1> QED BY <1>1, <1>2 DEF IsPrefix

LEMMA PrefixOfItself == ASSUME NEW x \in Seq(Nat) PROVE IsPrefix(x, x) /\ IsPrefix(<<>>, x)
<1>1. Len(x) \in Nat /\ <<>> \in Seq(Nat) /\ Len(<<>>) = 0
  OBVIOUS
<1>2. IsPrefix(x, x)
  BY <1>1, PrefixMeans
<1>3. IsPrefix(<<>>, x)
  <2> DEFINE e == <<>>
  <2>1. e \in Seq(Nat) /\ Len(e) = 0 /\ 1 .. 0 = {}
    OBVIOUS
  <2> HIDE DEF e
  <2>2. Len(e) <= Len(x) /\ \A i \in 1 .. Len(e) : e[i] = x[i]
    BY <1>1, <2>1
  <2>3. IsPrefix(e, x)
    BY <2>1, <2>2, PrefixMeans
  <2> QED BY <2>3 DEF e
<1> QED BY <1>2, <1>3

LEMMA PrefixOfPrefix ==
    ASSUME NEW x \in Seq(Nat), NEW y \in Seq(Nat), NEW z \in Seq(Nat), IsPrefix(x, y), IsPrefix(y, z)
    PROVE  IsPrefix(x, z)
<1>1. /\ Len(x) <= Len(y) /\ \A i \in 1 .. Len(x) : x[i] = y[i]
      /\ Len(y) <= Len(z) /\ \A i \in 1 .. Len(y) : y[i] = z[i]
      /\ Len(x) \in Nat /\ Len(y) \in Nat /\ Len(z) \in Nat
  BY PrefixMeans
<1> QED BY <1>1, PrefixMeans

\* Of two prefixes of one label, one is a prefix of the other.
LEMMA PrefixesOfOne ==
    ASSUME NEW x \in Seq(Nat), NEW y \in Seq(Nat), NEW z \in Seq(Nat), IsPrefix(x, z), IsPrefix(y, z)
    PROVE  IsPrefix(x, y) \/ IsPrefix(y, x)
<1>1. /\ Len(x) <= Len(z) /\ \A i \in 1 .. Len(x) : x[i] = z[i]
      /\ Len(y) <= Len(z) /\ \A i \in 1 .. Len(y) : y[i] = z[i]
      /\ Len(x) \in Nat /\ Len(y) \in Nat /\ Len(z) \in Nat
  BY PrefixMeans
<1>2. CASE Len(x) <= Len(y)
  BY <1>1, <1>2, PrefixMeans
<1>3. CASE Len(y) <= Len(x)
  BY <1>1, <1>3, PrefixMeans
<1> QED BY <1>1, <1>2, <1>3

LEMMA Longer ==
    ASSUME NEW x \in Seq(Nat), NEW j \in Nat
    PROVE  x \o <<j>> \in Seq(Nat) /\ Len(x \o <<j>>) = Len(x) + 1 /\ IsPrefix(x, x \o <<j>>)
<1> DEFINE y == x \o <<j>>
<1>1. /\ y \in Seq(Nat) /\ Len(y) = Len(x) + 1 /\ Len(x) \in Nat
      /\ \A i \in 1 .. Len(x) : y[i] = x[i]
  OBVIOUS
<1> HIDE DEF y
<1>2. IsPrefix(x, y)
  BY <1>1, PrefixMeans
<1> QED BY <1>1, <1>2 DEF y

LEMMA LongerApart ==
    ASSUME NEW x \in Seq(Nat), NEW i \in Nat, NEW j \in Nat, IsPrefix(x \o <<i>>, x \o <<j>>)
    PROVE  i = j
<1> DEFINE y == x \o <<i>>
           z == x \o <<j>>
           n == Len(x) + 1
<1>1. y \in Seq(Nat) /\ z \in Seq(Nat) /\ Len(y) = n /\ y[n] = i /\ z[n] = j /\ n \in 1 .. n
  OBVIOUS
<1>2. IsPrefix(y, z)
  OBVIOUS
<1> HIDE DEF y, z, n
<1> QED BY <1>1, <1>2, PrefixMeans

-----------------------------------------------------------------------------
(* The parts of one record                                                  *)

Good(parts) == {j \in DOMAIN parts : parts[j] # Malformed}
DetailAt(u, j) == [u EXCEPT !.label = <<j>>,
                            !.kind = Merged(@, u.details[j].kind),
                            !.details = <<>>,
                            !.apportions = u.details[j].apportions]
ApportionAt(u, k) == [u EXCEPT !.label = @ \o <<k>>,
                               !.kind = Merged(@, u.apportions[k]),
                               !.apportions = <<>>]

\* Pairs of units of which the second is, by its label, a part of the first.
Comparable == {p \in UnitSet \X UnitSet : IsPrefix(p[1].label, p[2].label)}

LEMMA WellFormedParts ==
    ASSUME NEW A, NEW parts \in Seq(A)
    PROVE  /\ WellFormed(parts) \in Seq(Nat)
           /\ ToSet(WellFormed(parts)) = Good(parts)
           /\ \A i, h \in DOMAIN WellFormed(parts) :
                i # h => WellFormed(parts)[i] # WellFormed(parts)[h]
<1> DEFINE s == [j \in DOMAIN parts |-> j]
           js == Picked(s, Good(parts))
           n == Len(parts)
<1>1. js = WellFormed(parts)
  BY DEF WellFormed, Good
<1>2. s \in Seq(Nat) /\ DOMAIN s = DOMAIN parts /\ Len(s) = n /\ n \in Nat
      /\ DOMAIN parts = 1 .. n /\ \A j \in DOMAIN parts : s[j] = j
  OBVIOUS
<1> HIDE DEF s, n
<1>3. js \in Seq(Nat) /\ \E pos : Places(s, Good(parts), js, Len(s), pos)
  BY <1>2, PickedPlaces
<1>4. js \in Seq(Nat) /\ ToSet(js) = ToSet(s) \cap Good(parts)
  BY <1>2, PickedItems
<1>5. ToSet(s) \cap Good(parts) = Good(parts)
  BY <1>2 DEF ToSet, Good
<1> HIDE DEF js
<1>6. PICK pos : Places(s, Good(parts), js, n, pos)
  BY <1>2, <1>3
<1>7. DOMAIN js = 1 .. Len(js) /\ Len(js) \in Nat
  BY <1>4
<1>8. \A i \in 1 .. Len(js) : js[i] = pos[i] /\ pos[i] \in 1 .. n
  BY <1>2, <1>6 DEF Places
<1>9. \A i, h \in 1 .. Len(js) : i < h => pos[i] < pos[h]
  BY <1>6 DEF Places
<1>10. ASSUME NEW i \in 1 .. Len(js), NEW h \in 1 .. Len(js), i # h PROVE js[i] # js[h]
  <2>1. i < h \/ h < i
    BY <1>10
  <2> QED BY <1>2, <1>8, <1>9, <2>1
<1> QED BY <1>1, <1>4, <1>5, <1>7, <1>10

\* What a split makes of a record that it does not leave alone.
LEMMA MappedParts ==
    ASSUME NEW l \in Seq(Nat), NEW G, NEW at \in [G -> UnitSet],
           NEW js \in Seq(Nat), ToSet(js) = G,
           \A i, h \in DOMAIN js : i # h => js[i] # js[h],
           \A j \in G : at[j].label = l \o <<j>>,
           NEW q \in Seq(UnitSet), DOMAIN q = DOMAIN js, \A i \in DOMAIN q : q[i] = at[js[i]]
    PROVE  /\ \A j \in G : at[j] \in ToSet(q)
           /\ \A x \in ToSet(q) : \E j \in G : x = at[j]
           /\ NoPair(q, Comparable)
<1>2. DOMAIN js = 1 .. Len(js) /\ Len(js) \in Nat /\ \A i \in DOMAIN js : js[i] \in G /\ js[i] \in Nat
  BY DEF ToSet
<1>3. DOMAIN q = DOMAIN js /\ \A i \in DOMAIN js : q[i] = at[js[i]] /\ q[i] \in UnitSet
  BY <1>2
<1>4. \A x \in ToSet(q) : \E j \in G : x = at[j]
  BY <1>2, <1>3 DEF ToSet
<1>5. ASSUME NEW j \in G PROVE at[j] \in ToSet(q)
  <2>1. PICK i \in DOMAIN js : js[i] = j
    BY DEF ToSet
  <2> QED BY <1>3, <2>1 DEF ToSet
<1>6. ASSUME NEW i \in DOMAIN js, NEW h \in DOMAIN js, i # h PROVE <<q[i], q[h]>> \notin Comparable
  <2>1. q[i].label = l \o <<js[i]>> /\ q[h].label = l \o <<js[h]>> /\ js[i] # js[h]
    BY <1>2, <1>3, <1>6
  <2>2. ~IsPrefix(q[i].label, q[h].label)
    BY <1>2, <2>1, LongerApart
  <2> QED BY <2>2 DEF Comparable
<1> QED BY <1>3, <1>4, <1>5, <1>6 DEF NoPair

DetailSet(u) ==
    IF u.committed \/ u.details = <<>> THEN {u} ELSE {DetailAt(u, j) : j \in Good(u.details)}
ApportionSet(u) ==
    IF u.committed \/ u.apportions = <<>> THEN {u} ELSE {ApportionAt(u, k) : k \in Good(u.apportions)}

\* A unit as splits make them: what still has details is not yet a part.
Unsplit(u) == u.committed \/ u.details = <<>> \/ u.label = <<>>

LEMMA Alone ==
    ASSUME NEW u \in UnitSet
    PROVE  /\ <<u>> \in Seq(UnitSet) /\ ToSet(<<u>>) = {u} /\ NoPair(<<u>>, Comparable)
           /\ IsPrefix(u.label, u.label)
<1>1. <<u>> \in Seq(UnitSet) /\ DOMAIN <<u>> = {1} /\ <<u>>[1] = u
  OBVIOUS
<1>2. u.label \in Seq(Nat)
  BY DEF UnitSet
<1>3. IsPrefix(u.label, u.label)
  BY <1>2, PrefixOfItself
<1> DEFINE s == <<u>>
<1> HIDE DEF s
<1>4. s \in Seq(UnitSet) /\ DOMAIN s = {1} /\ s[1] = u
  BY <1>1 DEF s
<1>5. ToSet(s) = {u} /\ NoPair(s, Comparable)
  BY <1>4 DEF ToSet, NoPair
<1> QED BY <1>3, <1>4, <1>5 DEF s

LEMMA DetailUnits ==
    ASSUME NEW u \in UnitSet, NEW j \in Good(u.details)
    PROVE  /\ DetailAt(u, j) \in UnitSet /\ DetailAt(u, j).label = <<j>> /\ j \in Nat
           /\ DetailAt(u, j).details = <<>> /\ DetailAt(u, j).committed = u.committed
           /\ DetailAt(u, j).apportions = u.details[j].apportions
<1>1. /\ u.label \in Seq(Nat) /\ u.kind \in Kinds /\ u.committed \in BOOLEAN
      /\ u.details \in Seq(DetailRecords \cup {Malformed})
      /\ u.apportions \in Seq(Kinds \cup {Absent, Malformed})
  BY DEF UnitSet
<1>2. j \in DOMAIN u.details /\ j \in Nat /\ u.details[j] # Malformed
  BY <1>1 DEF Good
<1>3. u.details[j] \in DetailRecords
  BY <1>1, <1>2
<1>4. u.details[j].kind \in Kinds \cup {Absent} /\ u.details[j].apportions \in Seq(Kinds \cup {Absent, Malformed})
  BY <1>3 DEF DetailRecords
<1>5. Merged(u.kind, u.details[j].kind) \in Kinds
  BY <1>1, <1>4 DEF Merged
<1>6. <<j>> \in Seq(Nat) /\ <<>> \in Seq(DetailRecords \cup {Malformed})
  BY <1>2
<1>7. DetailAt(u, j) \in UnitSet
  BY <1>4, <1>5, <1>6 DEF DetailAt, UnitSet
<1>8. /\ DetailAt(u, j).label = <<j>> /\ DetailAt(u, j).details = <<>>
      /\ DetailAt(u, j).committed = u.committed /\ DetailAt(u, j).apportions = u.details[j].apportions
  BY DEF DetailAt, UnitSet
<1> QED BY <1>2, <1>7, <1>8

LEMMA ApportionUnits ==
    ASSUME NEW u \in UnitSet, NEW k \in Good(u.apportions)
    PROVE  /\ ApportionAt(u, k) \in UnitSet /\ ApportionAt(u, k).label = u.label \o <<k>> /\ k \in Nat
           /\ ApportionAt(u, k).apportions = <<>> /\ ApportionAt(u, k).details = u.details
           /\ ApportionAt(u, k).committed = u.committed
<1>1. /\ u.label \in Seq(Nat) /\ u.kind \in Kinds /\ u.committed \in BOOLEAN
      /\ u.details \in Seq(DetailRecords \cup {Malformed})
      /\ u.apportions \in Seq(Kinds \cup {Absent, Malformed})
  BY DEF UnitSet
<1>2. k \in DOMAIN u.apportions /\ k \in Nat /\ u.apportions[k] # Malformed
  BY <1>1 DEF Good
<1>3. u.apportions[k] \in Kinds \cup {Absent}
  BY <1>1, <1>2
<1>4. Merged(u.kind, u.apportions[k]) \in Kinds
  BY <1>1, <1>3 DEF Merged
<1>5. u.label \o <<k>> \in Seq(Nat) /\ <<>> \in Seq(Kinds \cup {Absent, Malformed})
  BY <1>1, <1>2, Longer
<1>6. ApportionAt(u, k) \in UnitSet
  BY <1>4, <1>5 DEF ApportionAt, UnitSet
<1>7. /\ ApportionAt(u, k).label = u.label \o <<k>> /\ ApportionAt(u, k).apportions = <<>>
      /\ ApportionAt(u, k).details = u.details /\ ApportionAt(u, k).committed = u.committed
  BY DEF ApportionAt, UnitSet
<1> QED BY <1>2, <1>6, <1>7

LEMMA DetailsOfUnit ==
    ASSUME NEW u \in UnitSet, Unsplit(u)
    PROVE  /\ DetailsOf(u) \in Seq(UnitSet)
           /\ ToSet(DetailsOf(u)) = DetailSet(u)
           /\ NoPair(DetailsOf(u), Comparable)
           /\ \A x \in DetailSet(u) : x \in UnitSet /\ IsPrefix(u.label, x.label)
<1>1. CASE u.committed \/ u.details = <<>>
  BY <1>1, Alone DEF DetailsOf, DetailSet
<1>2. CASE ~(u.committed \/ u.details = <<>>)
  <2> DEFINE js == WellFormed(u.details)
             at == [j \in Good(u.details) |-> DetailAt(u, j)]
             r == [i \in DOMAIN js |-> DetailAt(u, js[i])]
  <2>1. u.label = <<>> /\ u.details \in Seq(DetailRecords \cup {Malformed})
    BY <1>2 DEF Unsplit, UnitSet
  <2>2. \A j \in Good(u.details) : at[j] = DetailAt(u, j) /\ at[j] \in UnitSet /\ at[j].label = u.label \o <<j>>
    <3>1. \A j \in Nat : <<j>> = <<>> \o <<j>>
      OBVIOUS
    <3> QED BY <2>1, <3>1, DetailUnits
  <2>3. DetailsOf(u) = r
    BY <1>2 DEF DetailsOf, DetailAt
  <2>4. js \in Seq(Nat) /\ \A i \in DOMAIN js : js[i] \in Good(u.details)
    BY <2>1, WellFormedParts DEF ToSet
  <2> HIDE DEF js
  <2>5. r \in Seq(UnitSet) /\ DOMAIN r = DOMAIN js /\ \A i \in DOMAIN r : r[i] = at[js[i]]
    <3>1. DOMAIN js = 1 .. Len(js) /\ Len(js) \in Nat
      BY <2>4
    <3>2. \A i \in DOMAIN js : DetailAt(u, js[i]) \in UnitSet
      BY <2>2, <2>4
    <3>3. r \in Seq(UnitSet)
      BY <3>1, <3>2
    <3> QED BY <2>2, <2>4, <3>3
  <2> HIDE DEF at, r
  <2>6. /\ \A j \in Good(u.details) : at[j] \in ToSet(r)
        /\ \A x \in ToSet(r) : \E j \in Good(u.details) : x = at[j]
        /\ NoPair(r, Comparable)
    <3> DEFINE G == Good(u.details)
    <3>0. PICK l \in Seq(Nat) : l = u.label
      BY DEF UnitSet
    <3>1. ToSet(js) = G /\ \A i, h \in DOMAIN js : i # h => js[i] # js[h]
      BY <2>1, WellFormedParts DEF js
    <3>2. at \in [G -> UnitSet] /\ \A j \in G : at[j].label = l \o <<j>>
      BY <2>2, <3>0 DEF at
    <3> HIDE DEF G
    <3>3. /\ \A j \in G : at[j] \in ToSet(r)
          /\ \A x \in ToSet(r) : \E j \in G : x = at[j]
          /\ NoPair(r, Comparable)
      BY <2>4, <2>5, <3>1, <3>2, MappedParts
    <3> QED BY <3>3 DEF G
  <2>7. ToSet(r) = DetailSet(u)
    <3>1. /\ \A j \in Good(u.details) : at[j] \in DetailSet(u)
          /\ \A x \in DetailSet(u) : \E j \in Good(u.details) : x = at[j]
      BY <1>2 DEF DetailSet, at
    <3>2. \A x \in ToSet(r) : x \in DetailSet(u)
      BY <2>6, <3>1
    <3>3. \A x \in DetailSet(u) : x \in ToSet(r)
      BY <2>6, <3>1
    <3> QED BY <3>2, <3>3
  <2>8. \A x \in DetailSet(u) : x \in UnitSet /\ IsPrefix(u.label, x.label)
    <3>1. SUFFICES ASSUME NEW j \in Good(u.details) PROVE at[j] \in UnitSet /\ IsPrefix(u.label, at[j].label)
      BY <2>6, <2>7
    <3>2. at[j].label \in Seq(Nat)
      BY <2>2 DEF UnitSet
    <3> QED BY <2>1, <2>2, <3>2, PrefixOfItself
  <2> QED BY <2>3, <2>5, <2>6, <2>7, <2>8
<1> QED BY <1>1, <1>2

LEMMA ApportionsOfUnit ==
    ASSUME NEW u \in UnitSet
    PROVE  /\ ApportionsOf(u) \in Seq(UnitSet)
           /\ ToSet(ApportionsOf(u)) = ApportionSet(u)
           /\ NoPair(ApportionsOf(u), Comparable)
           /\ \A x \in ApportionSet(u) : x \in UnitSet /\ IsPrefix(u.label, x.label)
<1>1. CASE u.committed \/ u.apportions = <<>>
  BY <1>1, Alone DEF ApportionsOf, ApportionSet
<1>2. CASE ~(u.committed \/ u.apportions = <<>>)
  <2> DEFINE js == WellFormed(u.apportions)
             at == [j \in Good(u.apportions) |-> ApportionAt(u, j)]
             r == [i \in DOMAIN js |-> ApportionAt(u, js[i])]
  <2>1. u.label \in Seq(Nat) /\ u.apportions \in Seq(Kinds \cup {Absent, Malformed})
    BY DEF UnitSet
  <2>2. \A j \in Good(u.apportions) :
          at[j] = ApportionAt(u, j) /\ at[j] \in UnitSet /\ at[j].label = u.label \o <<j>> /\ j \in Nat
    BY ApportionUnits
  <2>3. ApportionsOf(u) = r
    BY <1>2 DEF ApportionsOf, ApportionAt
  <2>4. js \in Seq(Nat) /\ \A i \in DOMAIN js : js[i] \in Good(u.apportions)
    BY <2>1, WellFormedParts DEF ToSet
  <2> HIDE DEF js
  <2>5. r \in Seq(UnitSet) /\ DOMAIN r = DOMAIN js /\ \A i \in DOMAIN r : r[i] = at[js[i]]
    <3>1. DOMAIN js = 1 .. Len(js) /\ Len(js) \in Nat
      BY <2>4
    <3>2. \A i \in DOMAIN js : ApportionAt(u, js[i]) \in UnitSet
      BY <2>2, <2>4
    <3>3. r \in Seq(UnitSet)
      BY <3>1, <3>2
    <3> QED BY <2>2, <2>4, <3>3
  <2> HIDE DEF at, r
  <2>6. /\ \A j \in Good(u.apportions) : at[j] \in ToSet(r)
        /\ \A x \in ToSet(r) : \E j \in Good(u.apportions) : x = at[j]
        /\ NoPair(r, Comparable)
    <3> DEFINE G == Good(u.apportions)
    <3>0. PICK l \in Seq(Nat) : l = u.label
      BY DEF UnitSet
    <3>1. ToSet(js) = G /\ \A i, h \in DOMAIN js : i # h => js[i] # js[h]
      BY <2>1, WellFormedParts DEF js
    <3>2. at \in [G -> UnitSet] /\ \A j \in G : at[j].label = l \o <<j>>
      BY <2>2, <3>0 DEF at
    <3> HIDE DEF G
    <3>3. /\ \A j \in G : at[j] \in ToSet(r)
          /\ \A x \in ToSet(r) : \E j \in G : x = at[j]
          /\ NoPair(r, Comparable)
      BY <2>4, <2>5, <3>1, <3>2, MappedParts
    <3> QED BY <3>3 DEF G
  <2>7. ToSet(r) = ApportionSet(u)
    <3>1. /\ \A j \in Good(u.apportions) : at[j] \in ApportionSet(u)
          /\ \A x \in ApportionSet(u) : \E j \in Good(u.apportions) : x = at[j]
      BY <1>2 DEF ApportionSet, at
    <3>2. \A x \in ToSet(r) : x \in ApportionSet(u)
      BY <2>6, <3>1
    <3>3. \A x \in ApportionSet(u) : x \in ToSet(r)
      BY <2>6, <3>1
    <3> QED BY <3>2, <3>3
  <2>8. \A x \in ApportionSet(u) : x \in UnitSet /\ IsPrefix(u.label, x.label)
    <3>1. SUFFICES ASSUME NEW j \in Good(u.apportions) PROVE at[j] \in UnitSet /\ IsPrefix(u.label, at[j].label)
      BY <2>6, <2>7
    <3> QED BY <2>1, <2>2, Longer
  <2> QED BY <2>3, <2>5, <2>6, <2>7, <2>8
<1> QED BY <1>1, <1>2

-----------------------------------------------------------------------------
(* The records of a document                                                *)

DetailsIn == DetailSet(Whole)
ApportionsIn == UNION {ApportionSet(d) : d \in DetailsIn}

LEMMA WholeRecord ==
    ASSUME form \in Documents
    PROVE  /\ Whole \in UnitSet /\ ~Whole.committed /\ Whole.label = <<>>
           /\ Whole.apportions = <<>> /\ Whole.details = form.details /\ Unsplit(Whole)
           /\ form.details \in Seq(DetailRecords \cup {Malformed})
<1>1. form.kind \in Kinds /\ form.details \in Seq(DetailRecords \cup {Malformed})
  BY WorkflowAssumption DEF DetailRecords
<1>2. <<>> \in Seq(Nat) /\ <<>> \in Seq(Kinds \cup {Absent, Malformed})
  OBVIOUS
<1> QED BY <1>1, <1>2 DEF Whole, UnitSet, Unsplit

LEMMA DetailRecord ==
    ASSUME form \in Documents, NEW d \in DetailsIn
    PROVE  /\ d \in UnitSet /\ ~d.committed /\ d.details = <<>> /\ DetailSet(d) = {d} /\ Unsplit(d)
           /\ \/ form.details = <<>> /\ d = Whole
              \/ /\ form.details # <<>>
                 /\ \E j \in Good(form.details) :
                        /\ j \in Nat /\ d = DetailAt(Whole, j) /\ d.label = <<j>>
                        /\ d.apportions = form.details[j].apportions
<1> DEFINE w == Whole
<1>1. /\ w \in UnitSet /\ ~w.committed /\ w.details = form.details
      /\ d \in DetailSet(w) /\ w = Whole
  BY WholeRecord DEF DetailsIn
<1> HIDE DEF w
<1>2. CASE form.details = <<>>
  BY <1>1, <1>2 DEF DetailSet, Unsplit
<1>3. CASE form.details # <<>>
  <2>1. PICK j \in Good(w.details) : d = DetailAt(w, j)
    BY <1>1, <1>3 DEF DetailSet
  <2>2. /\ d \in UnitSet /\ ~d.committed /\ d.details = <<>> /\ d.label = <<j>> /\ j \in Nat
        /\ d.apportions = form.details[j].apportions /\ j \in Good(form.details)
    BY <1>1, <2>1, DetailUnits
  <2> QED BY <1>1, <1>3, <2>1, <2>2 DEF DetailSet, Unsplit
<1> QED BY <1>2, <1>3

LEMMA ApportionRecord ==
    ASSUME form \in Documents, NEW a \in ApportionsIn
    PROVE  /\ a \in UnitSet /\ ~a.committed /\ a.details = <<>> /\ a.apportions = <<>>
           /\ DetailSet(a) = {a} /\ ApportionSet(a) = {a} /\ Unsplit(a)
<1>1. PICK d \in DetailsIn : a \in ApportionSet(d)
  BY DEF ApportionsIn
<1>2. d \in UnitSet /\ ~d.committed /\ d.details = <<>>
  BY DetailRecord
<1>3. a \in UnitSet /\ ~a.committed /\ a.details = <<>> /\ a.apportions = <<>>
  <2>1. CASE d.apportions = <<>>
    BY <1>1, <1>2, <2>1 DEF ApportionSet
  <2>2. CASE d.apportions # <<>>
    <3>1. PICK k \in Good(d.apportions) : a = ApportionAt(d, k)
      BY <1>1, <1>2, <2>2 DEF ApportionSet
    <3> QED BY <1>2, <3>1, ApportionUnits
  <2> QED BY <2>1, <2>2
<1> QED BY <1>3 DEF DetailSet, ApportionSet, Unsplit

LEMMA PartsOfUnit ==
    ASSUME NEW u \in UnitSet, Unsplit(u), NEW x
    PROVE  x \in PartsOf(u) <=> x = u \/ x \in DetailSet(u) \/ \E d \in DetailSet(u) : x \in ApportionSet(d)
<1>1. ToSet(DetailsOf(u)) = DetailSet(u)
  BY DetailsOfUnit
<1>2. \A d \in DetailSet(u) : ToSet(ApportionsOf(d)) = ApportionSet(d)
  BY DetailsOfUnit, ApportionsOfUnit
<1> DEFINE D == DetailSet(u)
           U == UNION {ToSet(ApportionsOf(d)) : d \in D}
<1> HIDE DEF D
<1>3. PartsOf(u) = {u} \cup D \cup U
  BY <1>1 DEF PartsOf, D
<1>4. x \in U <=> \E d \in D : x \in ApportionSet(d)
  BY <1>2 DEF D
<1> HIDE DEF U
<1>5. x \in PartsOf(u) <=> x = u \/ x \in D \/ \E d \in D : x \in ApportionSet(d)
  BY <1>3, <1>4
<1> QED BY <1>5 DEF D

LEMMA PartsOfRecords ==
    ASSUME form \in Documents
    PROVE  /\ \A x : x \in PartsOf(Whole) <=> x = Whole \/ x \in DetailsIn \/ x \in ApportionsIn
           /\ \A d \in DetailsIn : \A x : x \in PartsOf(d) <=> x = d \/ x \in ApportionSet(d)
           /\ \A a \in ApportionsIn : \A x : x \in PartsOf(a) <=> x = a
<1>1. \A x : x \in PartsOf(Whole) <=> x = Whole \/ x \in DetailsIn \/ x \in ApportionsIn
  <2>1. Whole \in UnitSet /\ Unsplit(Whole)
    BY WholeRecord
  <2>2. \A x : x \in ApportionsIn <=> \E d \in DetailSet(Whole) : x \in ApportionSet(d)
    BY DEF ApportionsIn, DetailsIn
  <2> QED BY <2>1, <2>2, PartsOfUnit DEF DetailsIn
<1>2. ASSUME NEW d \in DetailsIn, NEW x PROVE x \in PartsOf(d) <=> x = d \/ x \in ApportionSet(d)
  <2>1. d \in UnitSet /\ Unsplit(d) /\ DetailSet(d) = {d}
    BY DetailRecord
  <2> QED BY <2>1, PartsOfUnit
<1>3. ASSUME NEW a \in ApportionsIn, NEW x PROVE x \in PartsOf(a) <=> x = a
  <2>1. a \in UnitSet /\ Unsplit(a) /\ DetailSet(a) = {a} /\ ApportionSet(a) = {a}
    BY ApportionRecord
  <2> QED BY <2>1, PartsOfUnit
<1> QED BY <1>1, <1>2, <1>3

\* No record is a part of two details.
LEMMA DetailOfPart ==
    ASSUME form \in Documents, NEW d \in DetailsIn, NEW e \in DetailsIn, NEW x,
           x \in PartsOf(d), x \in PartsOf(e)
    PROVE  d = e
<1>1. ASSUME NEW c \in DetailsIn, form.details # <<>>, x \in PartsOf(c)
      PROVE  \E j \in Nat : c = DetailAt(Whole, j) /\ x.label[1] = j
  <2>1. PICK j \in Nat : c = DetailAt(Whole, j) /\ c.label = <<j>>
    BY <1>1, DetailRecord
  <2>2. c \in UnitSet /\ ~c.committed
    BY DetailRecord
  <2>3. CASE x = c
    <3>1. <<j>>[1] = j
      OBVIOUS
    <3> QED BY <2>1, <2>3, <3>1
  <2>4. CASE x # c
    <3>1. x \in ApportionSet(c)
      BY <1>1, <2>4, PartsOfRecords
    <3>2. PICK k \in Good(c.apportions) : x = ApportionAt(c, k)
      BY <2>2, <2>4, <3>1 DEF ApportionSet
    <3>3. x.label = <<j>> \o <<k>> /\ k \in Nat
      BY <2>1, <2>2, <3>2, ApportionUnits
    <3>4. (<<j>> \o <<k>>)[1] = j
      BY <3>3
    <3> QED BY <2>1, <3>3, <3>4
  <2> QED BY <2>3, <2>4
<1>2. CASE form.details = <<>>
  BY <1>2, DetailRecord
<1>3. CASE form.details # <<>>
  BY <1>1, <1>3
<1> QED BY <1>2, <1>3

-----------------------------------------------------------------------------
(* The records that a step looks at, and those that no step has ended       *)

Before(steps, k, action) == \E j \in 1 .. k - 1 : steps[j].action = action
PartSet(s, u) == IF s.action = "split_detail" THEN DetailSet(u) ELSE ApportionSet(u)

LEMMA RecordsAre ==
    ASSUME form \in Documents, NEW steps, NEW k
    PROVE  RecordsAt(steps, k) = IF ~Before(steps, k, "split_detail") THEN {Whole}
                                 ELSE IF ~Before(steps, k, "split_apportion") THEN DetailsIn
                                 ELSE ApportionsIn
<1> DEFINE before == {steps[j].action : j \in 1 .. k - 1}
           details == IF "split_detail" \in before THEN ToSet(DetailsOf(Whole)) ELSE {Whole}
           apportions == UNION {ToSet(ApportionsOf(d)) : d \in details}
<1>1. RecordsAt(steps, k) = IF "split_apportion" \in before THEN apportions ELSE details
  BY DEF RecordsAt
<1>2. \A a : a \in before <=> Before(steps, k, a)
  BY DEF Before
<1> HIDE DEF before
<1>3. details = IF "split_detail" \in before THEN DetailsIn ELSE {Whole}
  BY WholeRecord, DetailsOfUnit DEF DetailsIn
<1> HIDE DEF details
<1>4. apportions = UNION {ApportionSet(d) : d \in details}
  <2>1. \A d \in details : d \in UnitSet
    BY <1>3, WholeRecord, DetailRecord
  <2>2. \A d \in details : ToSet(ApportionsOf(d)) = ApportionSet(d)
    BY <2>1, ApportionsOfUnit
  <2> QED BY <2>2
<1> HIDE DEF apportions
<1>5. ApportionSet(Whole) = {Whole}
  BY WholeRecord DEF ApportionSet
<1>6. CASE "split_detail" \in before
  BY <1>1, <1>2, <1>3, <1>4, <1>6 DEF ApportionsIn
<1>7. CASE "split_detail" \notin before
  <2>1. details = {Whole} /\ apportions = {Whole}
    BY <1>3, <1>4, <1>5, <1>7
  <2> QED BY <1>1, <1>2, <1>7, <2>1
<1> QED BY <1>6, <1>7

LEMMA RecordUnits ==
    ASSUME form \in Documents, NEW steps, NEW k, NEW u \in RecordsAt(steps, k)
    PROVE  u \in UnitSet /\ ~u.committed /\ Unsplit(u)
BY RecordsAre, WholeRecord, DetailRecord, ApportionRecord

LEMMA SameRecord ==
    ASSUME form \in Documents, NEW steps, NEW k, NEW u \in RecordsAt(steps, k),
           NEW v \in RecordsAt(steps, k)
    PROVE  u \in PartsOf(v) <=> u = v
<1>1. CASE RecordsAt(steps, k) = {Whole}
  BY <1>1, PartsOfRecords
<1>2. CASE RecordsAt(steps, k) = DetailsIn
  <2>1. u \in PartsOf(u)
    BY <1>2, PartsOfRecords
  <2>2. v \in PartsOf(v)
    BY <1>2, PartsOfRecords
  <2> QED BY <1>2, <2>1, <2>2, DetailOfPart
<1>3. CASE RecordsAt(steps, k) = ApportionsIn
  BY <1>3, PartsOfRecords
<1> QED BY <1>1, <1>2, <1>3, RecordsAre

LEMMA NextRecords ==
    ASSUME form \in Documents, NEW steps \in Seq(StepSet), ValidateTarget(steps),
           NEW k \in DOMAIN steps, steps[k].action \in Splits
    PROVE  /\ \A x : x \in RecordsAt(steps, k + 1)
                        <=> \E u \in RecordsAt(steps, k) : x \in PartSet(steps[k], u)
           /\ \A u \in RecordsAt(steps, k) : \A x \in PartSet(steps[k], u) :
                \A j \in 1 .. k : \A v \in RecordsAt(steps, j) : x \in PartsOf(v) <=> u \in PartsOf(v)
<1> DEFINE At(j) == RecordsAt(steps, j)
           D(j) == Before(steps, j, "split_detail")
           A(j) == Before(steps, j, "split_apportion")
           Next(x) == x \in At(k + 1) <=> \E u \in At(k) : x \in PartSet(steps[k], u)
           Same(u, x, v) == x \in PartsOf(v) <=> u \in PartsOf(v)
<1>1. \A j : At(j) = IF ~D(j) THEN {Whole} ELSE IF ~A(j) THEN DetailsIn ELSE ApportionsIn
  BY RecordsAre
<1>2. /\ D(k + 1) <=> D(k) \/ steps[k].action = "split_detail"
      /\ A(k + 1) <=> A(k) \/ steps[k].action = "split_apportion"
  <2>1. \A j : j \in 1 .. (k + 1) - 1 <=> j \in 1 .. k - 1 \/ j = k
    OBVIOUS
  <2> QED BY <2>1 DEF Before
<1>3. \A j \in 1 .. k : (D(j) => D(k)) /\ (A(j) => A(k))
  <2>1. \A j \in 1 .. k : \A i \in 1 .. j - 1 : i \in 1 .. k - 1
    OBVIOUS
  <2> QED BY <2>1 DEF Before
<1>4. A(k) \/ steps[k].action = "split_apportion" => D(k)
  <2>1. A(k) => D(k)
    <3>1. SUFFICES ASSUME NEW j \in 1 .. k - 1, steps[j].action = "split_apportion" PROVE D(k)
      BY DEF Before
    <3>2. j \in DOMAIN steps
      BY <3>1
    <3>3. PICK i \in 1 .. j - 1 : steps[i].action = "split_detail"
      BY <3>1, <3>2 DEF ValidateTarget
    <3>4. i \in 1 .. k - 1
      BY <3>1
    <3> QED BY <3>3, <3>4 DEF Before
  <2>2. steps[k].action = "split_apportion" => D(k)
    BY DEF ValidateTarget, Before
  <2> QED BY <2>1, <2>2
<1>5. /\ \A d \in DetailsIn : DetailSet(d) = {d}
      /\ \A a \in ApportionsIn : DetailSet(a) = {a} /\ ApportionSet(a) = {a}
  BY DetailRecord, ApportionRecord
<1> HIDE DEF At, D, A
<1>6. CASE ~D(k)
  <2>1. steps[k].action = "split_detail" /\ ~A(k) /\ ~A(k + 1) /\ D(k + 1)
    BY <1>2, <1>4, <1>6 DEF Splits
  <2>2. At(k) = {Whole} /\ At(k + 1) = DetailsIn /\ \A j \in 1 .. k : At(j) = {Whole}
    BY <1>1, <1>3, <1>6, <2>1
  <2>3. \A u : PartSet(steps[k], u) = DetailSet(u)
    BY <2>1 DEF PartSet
  <2>4. \A x : Next(x)
    BY <2>2, <2>3 DEF DetailsIn
  <2>5. \A u \in At(k) : \A x \in PartSet(steps[k], u) : \A j \in 1 .. k : \A v \in At(j) : Same(u, x, v)
    BY <2>2, <2>3, PartsOfRecords DEF DetailsIn
  <2> QED BY <2>4, <2>5 DEF At
<1>7. CASE D(k) /\ ~(steps[k].action = "split_apportion" /\ ~A(k))
  <2>1. D(k + 1) /\ (A(k + 1) <=> A(k))
    BY <1>2, <1>7
  <2>2. At(k + 1) = At(k)
    BY <1>1, <1>7, <2>1
  <2>3. \A u \in At(k) : PartSet(steps[k], u) = {u}
    <3>1. CASE steps[k].action = "split_apportion"
      BY <1>1, <1>5, <1>7, <3>1 DEF PartSet
    <3>2. CASE steps[k].action = "split_detail"
      BY <1>1, <1>5, <1>7, <3>2 DEF PartSet
    <3> QED BY <3>1, <3>2 DEF Splits
  <2> QED BY <2>2, <2>3 DEF At
<1>8. CASE D(k) /\ steps[k].action = "split_apportion" /\ ~A(k)
  <2>1. At(k) = DetailsIn /\ At(k + 1) = ApportionsIn
    BY <1>1, <1>2, <1>8
  <2>2. \A u : PartSet(steps[k], u) = ApportionSet(u)
    BY <1>8 DEF PartSet
  <2>3. \A x : Next(x)
    BY <2>1, <2>2 DEF ApportionsIn
  <2>4. ASSUME NEW u \in DetailsIn, NEW x \in ApportionSet(u), NEW j \in 1 .. k, NEW v \in At(j)
        PROVE  Same(u, x, v)
    <3>1. At(j) = {Whole} \/ At(j) = DetailsIn
      BY <1>1, <1>3, <1>8
    <3>2. CASE At(j) = {Whole}
      <4>1. v = Whole /\ x \in ApportionsIn
        BY <3>2 DEF ApportionsIn
      <4> QED BY <4>1, PartsOfRecords
    <3>3. CASE At(j) = DetailsIn
      <4>1. u \in PartsOf(u) /\ x \in PartsOf(u)
        BY PartsOfRecords
      <4>2. v \in DetailsIn
        BY <3>3
      <4>3. u \in PartsOf(v) => u = v
        BY <4>1, <4>2, DetailOfPart
      <4>4. x \in PartsOf(v) => u = v
        BY <4>1, <4>2, DetailOfPart
      <4> QED BY <4>1, <4>3, <4>4
    <3> QED BY <3>1, <3>2, <3>3
  <2>5. \A u \in At(k) : \A x \in PartSet(steps[k], u) : \A j \in 1 .. k : \A v \in At(j) : Same(u, x, v)
    BY <2>1, <2>2, <2>4
  <2> QED BY <2>3, <2>5 DEF At
<1> QED BY <1>6, <1>7, <1>8

LEMMA OutcomeOfStores ==
    ASSUME NEW s, NEW u, NEW b, NEW c
    PROVE  /\ Ends(s, u) <=> Outcome(s, u, b) \in {"pass", "commit"}
           /\ b \subseteq c /\ Outcome(s, u, c) = "refuse" => Outcome(s, u, b) = "refuse"
           /\ Outcome(s, u, b) = "refuse" => ~u.committed /\ ~Ends(s, u)
<1>1. ASSUME NEW e
      PROVE  Outcome(s, u, e) \in {"pass", "commit"}
                <=> ~u.committed /\ u.kind \notin s.fails /\ u.kind \in s.when /\ s.then \in {"pass", "commit"}
  BY DEF Outcome
<1>2. b \subseteq c /\ Outcome(s, u, c) = "refuse" => Outcome(s, u, b) = "refuse"
  BY DEF Outcome
<1>3. Outcome(s, u, b) = "refuse" => ~u.committed
  BY DEF Outcome
<1> QED BY <1>1, <1>2, <1>3 DEF Ends

LEMMA EndedAfterSplit ==
    ASSUME form \in Documents, NEW steps \in Seq(StepSet), ValidateTarget(steps),
           NEW k \in DOMAIN steps, steps[k].action \in Splits,
           NEW u \in RecordsAt(steps, k), NEW x \in PartSet(steps[k], u)
    PROVE  x \in RecordsAt(steps, k + 1) /\ (Ended(steps, k + 1, x) <=> Ended(steps, k, u))
<1> DEFINE By(j, y) == /\ steps[j].action \notin Splits
                       /\ \E v \in RecordsAt(steps, j) :
                            y \in PartsOf(v) /\ Outcome(steps[j], v, {}) \in {"pass", "commit"}
<1>1. x \in RecordsAt(steps, k + 1)
  BY NextRecords
<1>2. \A j \in 1 .. k : \A v \in RecordsAt(steps, j) : x \in PartsOf(v) <=> u \in PartsOf(v)
  BY NextRecords
<1>3. \A j \in 1 .. k : By(j, x) <=> By(j, u)
  BY <1>2
<1>4. ~By(k, x)
  OBVIOUS
<1>5. Ended(steps, k + 1, x) <=> \E j \in 1 .. (k + 1) - 1 : By(j, x)
  BY DEF Ended
<1>6. Ended(steps, k, u) <=> \E j \in 1 .. k - 1 : By(j, u)
  BY DEF Ended
<1> HIDE DEF By
<1>7. \A j : j \in 1 .. (k + 1) - 1 <=> j \in 1 .. k - 1 \/ j = k
  OBVIOUS
<1>8. \A j \in 1 .. k - 1 : j \in 1 .. k
  OBVIOUS
<1> QED BY <1>1, <1>3, <1>4, <1>5, <1>6, <1>7, <1>8

LEMMA EndedAfterCheck ==
    ASSUME form \in Documents, NEW steps \in Seq(StepSet), NEW k \in DOMAIN steps,
           steps[k].action \notin Splits
    PROVE  /\ RecordsAt(steps, k + 1) = RecordsAt(steps, k)
           /\ \A u \in RecordsAt(steps, k) :
                Ended(steps, k + 1, u) <=> Ended(steps, k, u) \/ Ends(steps[k], u)
<1>1. \A j : j \in 1 .. (k + 1) - 1 <=> j \in 1 .. k - 1 \/ j = k
  OBVIOUS
<1>2. /\ Before(steps, k + 1, "split_detail") <=> Before(steps, k, "split_detail")
      /\ Before(steps, k + 1, "split_apportion") <=> Before(steps, k, "split_apportion")
  BY <1>1 DEF Before, Splits
<1>3. RecordsAt(steps, k + 1) = RecordsAt(steps, k)
  BY <1>2, RecordsAre
<1>4. ASSUME NEW u \in RecordsAt(steps, k)
      PROVE  Ended(steps, k + 1, u) <=> Ended(steps, k, u) \/ Ends(steps[k], u)
  <2> DEFINE By(j) == /\ steps[j].action \notin Splits
                      /\ \E v \in RecordsAt(steps, j) :
                            u \in PartsOf(v) /\ Outcome(steps[j], v, {}) \in {"pass", "commit"}
  <2>1. Ended(steps, k + 1, u) <=> \E j \in 1 .. (k + 1) - 1 : By(j)
    BY DEF Ended
  <2>2. Ended(steps, k, u) <=> \E j \in 1 .. k - 1 : By(j)
    BY DEF Ended
  <2>3. By(k) <=> Ends(steps[k], u)
    <3>1. \A v \in RecordsAt(steps, k) : u \in PartsOf(v) <=> u = v
      BY SameRecord
    <3> QED BY <3>1 DEF Ends
  <2> HIDE DEF By
  <2> QED BY <1>1, <2>1, <2>2, <2>3
<1> QED BY <1>3, <1>4

-----------------------------------------------------------------------------
(* A split of all units                                                     *)

LEMMA PartsOfOne ==
    ASSUME NEW s, NEW u \in UnitSet, Unsplit(u)
    PROVE  LET q == IF s.action = "split_detail" THEN DetailsOf(u) ELSE ApportionsOf(u)
           IN  /\ q \in Seq(UnitSet) /\ ToSet(q) = PartSet(s, u) /\ NoPair(q, Comparable)
               /\ \A x \in PartSet(s, u) : x \in UnitSet /\ IsPrefix(u.label, x.label)
               /\ u.committed => PartSet(s, u) = {u}
<1>1. CASE s.action = "split_detail"
  BY <1>1, DetailsOfUnit DEF PartSet, DetailSet
<1>2. CASE s.action # "split_detail"
  BY <1>2, ApportionsOfUnit DEF PartSet, ApportionSet
<1> QED BY <1>1, <1>2

LEMMA SplitItems ==
    ASSUME NEW s, NEW us \in Seq(UnitSet), \A i \in DOMAIN us : Unsplit(us[i]), NoPair(us, Comparable)
    PROVE  /\ Split(s, us) \in Seq(UnitSet)
           /\ \A x \in ToSet(Split(s, us)) : \E i \in DOMAIN us : x \in PartSet(s, us[i])
           /\ \A i \in DOMAIN us : \A x \in PartSet(s, us[i]) : x \in ToSet(Split(s, us))
           /\ NoPair(Split(s, us), Comparable)
<1> DEFINE ss == [i \in DOMAIN us |-> IF s.action = "split_detail" THEN DetailsOf(us[i]) ELSE ApportionsOf(us[i])]
<1>1. \A i \in DOMAIN us : us[i] \in UnitSet
  OBVIOUS
<1>2. \A i \in DOMAIN us : /\ ss[i] \in Seq(UnitSet) /\ ToSet(ss[i]) = PartSet(s, us[i])
                           /\ NoPair(ss[i], Comparable)
                           /\ \A x \in PartSet(s, us[i]) : x \in UnitSet /\ IsPrefix(us[i].label, x.label)
  BY <1>1, PartsOfOne
<1>3. DOMAIN us = 1 .. Len(us) /\ Len(us) \in Nat /\ DOMAIN ss = DOMAIN us
  OBVIOUS
<1>4. ss \in Seq(Seq(UnitSet))
  BY <1>2, <1>3
<1>5. Split(s, us) = FlattenSeq(ss)
  BY DEF Split
<1> HIDE DEF ss
<1>6. ASSUME NEW h \in DOMAIN us, NEW g \in DOMAIN us, h # g,
             NEW x \in ToSet(ss[h]), NEW y \in ToSet(ss[g])
      PROVE  <<x, y>> \notin Comparable
  <2>1. SUFFICES ASSUME IsPrefix(x.label, y.label) PROVE FALSE
    BY DEF Comparable
  <2>2. IsPrefix(us[h].label, x.label) /\ IsPrefix(us[g].label, y.label) /\ x \in UnitSet /\ y \in UnitSet
    BY <1>2
  <2>3. /\ us[h].label \in Seq(Nat) /\ us[g].label \in Seq(Nat)
        /\ x.label \in Seq(Nat) /\ y.label \in Seq(Nat)
    BY <1>1, <2>2 DEF UnitSet
  <2>4. IsPrefix(us[h].label, y.label)
    BY <2>1, <2>2, <2>3, PrefixOfPrefix
  <2>5. IsPrefix(us[h].label, us[g].label) \/ IsPrefix(us[g].label, us[h].label)
    BY <2>2, <2>3, <2>4, PrefixesOfOne
  <2>6. <<us[h], us[g]>> \notin Comparable /\ <<us[g], us[h]>> \notin Comparable
    BY <1>6 DEF NoPair
  <2> QED BY <1>1, <2>5, <2>6 DEF Comparable
<1>7. /\ \A h \in DOMAIN ss : NoPair(ss[h], Comparable)
      /\ \A h, g \in DOMAIN ss : h # g =>
            \A x \in ToSet(ss[h]), y \in ToSet(ss[g]) : <<x, y>> \notin Comparable
  BY <1>2, <1>3, <1>6
<1>8. FlattenSeq(ss) \in Seq(UnitSet) /\ NoPair(FlattenSeq(ss), Comparable)
  BY <1>4, <1>7, FlatteningPairs
<1>9. ToSet(FlattenSeq(ss)) = UNION {ToSet(ss[i]) : i \in DOMAIN ss}
  BY <1>4, Flattening
<1>10. /\ \A x \in ToSet(FlattenSeq(ss)) : \E i \in DOMAIN us : x \in PartSet(s, us[i])
       /\ \A i \in DOMAIN us : \A x \in PartSet(s, us[i]) : x \in ToSet(FlattenSeq(ss))
  BY <1>2, <1>3, <1>9
<1> QED BY <1>5, <1>8, <1>10

\* The units of an invariant state.
LEMMA UnitsAre ==
    ASSUME form \in Documents, NEW steps, NEW st, NEW nx, NEW us, NEW b, UnitsRight(steps, st, nx, us, b)
    PROVE  /\ us \in Seq(UnitSet) /\ \A i \in DOMAIN us : us[i] \in UnitSet /\ Unsplit(us[i])
           /\ Len(us) \in Nat /\ DOMAIN us = 1 .. Len(us) /\ nx \in 1 .. Len(us) + 1
<1>1. us \in Seq(UnitSet) /\ nx \in 1 .. Len(us) + 1
  BY DEF UnitsRight
<1>2. Len(us) \in Nat /\ DOMAIN us = 1 .. Len(us) /\ \A i \in DOMAIN us : us[i] \in UnitSet
  BY <1>1
<1>3. \A i \in DOMAIN us : us[i].committed \/ us[i] \in RecordsAt(steps, st)
  BY DEF UnitsRight, UnitRight
<1>4. \A i \in DOMAIN us : Unsplit(us[i])
  BY <1>3, RecordUnits DEF Unsplit
<1> QED BY <1>1, <1>2, <1>4

LEMMA UnitsAfterSplit ==
    ASSUME form \in Documents, NEW steps \in Seq(StepSet), ValidateTarget(steps), NEW st \in DOMAIN steps,
           steps[st].action \in Splits, NEW nx, NEW us, NEW b, UnitsRight(steps, st, nx, us, b),
           NoPair(us, Comparable)
    PROVE  UnitsRight(steps, st + 1, nx, Split(steps[st], us), b)
<1> DEFINE now == Split(steps[st], us)
<1>1. us \in Seq(UnitSet) /\ \A i \in DOMAIN us : us[i] \in UnitSet /\ Unsplit(us[i])
  BY UnitsAre
<1>2. /\ now \in Seq(UnitSet)
      /\ \A x \in ToSet(now) : \E i \in DOMAIN us : x \in PartSet(steps[st], us[i])
      /\ \A i \in DOMAIN us : \A x \in PartSet(steps[st], us[i]) : x \in ToSet(now)
  BY <1>1, SplitItems
<1> HIDE DEF now
<1>3. ~IsCheck(steps, st) /\ nx = 1
  BY DEF IsCheck, UnitsRight
<1>4. st + 1 \in 1 .. Len(steps) + 1 /\ nx \in 1 .. Len(now) + 1 /\ st \in Nat
  BY <1>2, <1>3
<1>5. ASSUME NEW i \in DOMAIN now, ~now[i].committed PROVE UnitRight(steps, st + 1, nx, now[i], i, b)
  <2>1. PICK h \in DOMAIN us : now[i] \in PartSet(steps[st], us[h])
    BY <1>2 DEF ToSet
  <2>2. ~us[h].committed
    BY <1>1, <1>5, <2>1, PartsOfOne
  <2>3. us[h] \in RecordsAt(steps, st) /\ ~Ended(steps, st, us[h])
    BY <2>2 DEF UnitsRight, UnitRight
  <2>4. now[i] \in RecordsAt(steps, st + 1) /\ ~Ended(steps, st + 1, now[i])
    BY <2>1, <2>3, EndedAfterSplit
  <2>5. ~(i < nx)
    BY <1>2, <1>3
  <2> QED BY <2>4, <2>5 DEF UnitRight
<1>6. ASSUME NEW x \in RecordsAt(steps, st + 1) PROVE RecordKept(steps, st + 1, now, x)
  <2>1. PICK u \in RecordsAt(steps, st) : x \in PartSet(steps[st], u)
    BY NextRecords
  <2>2. Ended(steps, st, u) \/ \E i \in DOMAIN us : us[i] = u
    BY <1>3 DEF UnitsRight, RecordKept
  <2>3. CASE Ended(steps, st, u)
    BY <2>1, <2>3, EndedAfterSplit DEF RecordKept
  <2>4. CASE \E i \in DOMAIN us : us[i] = u
    BY <1>2, <2>1, <2>4 DEF RecordKept, ToSet
  <2> QED BY <2>2, <2>3, <2>4
<1>7. NotRefused(steps, st + 1, b)
  <2>1. NotRefused(steps, st, b)
    BY DEF UnitsRight
  <2>2. \A j : j \in 1 .. (st + 1) - 1 <=> j \in 1 .. st - 1 \/ j = st
    BY <1>4
  <2> QED BY <1>3, <2>1, <2>2 DEF NotRefused
<1> QED BY <1>2, <1>3, <1>4, <1>5, <1>6, <1>7 DEF UnitsRight, now

-----------------------------------------------------------------------------
(* The other steps                                                          *)

LEMMA UnitsAtStart ==
    ASSUME form \in Documents, NEW steps \in Seq(StepSet), NEW b
    PROVE  UnitsRight(steps, 1, 1, <<Whole>>, b)
<1> DEFINE us == <<Whole>>
<1>1. us \in Seq(UnitSet) /\ DOMAIN us = {1} /\ us[1] = Whole /\ Len(us) = 1 /\ 1 .. 1 - 1 = {}
  BY WholeRecord
<1> HIDE DEF us
<1>2. RecordsAt(steps, 1) = {Whole} /\ ~Ended(steps, 1, Whole)
  BY <1>1, RecordsAre DEF Before, Ended
<1>3. UnitRight(steps, 1, 1, Whole, 1, b)
  BY <1>2 DEF UnitRight
<1>4. RecordKept(steps, 1, us, Whole)
  BY <1>1 DEF RecordKept
<1>5. NotRefused(steps, 1, b)
  BY <1>1 DEF NotRefused
<1>6. 1 \in 1 .. Len(steps) + 1 /\ 1 \in 1 .. Len(us) + 1
  BY <1>1
<1> QED BY <1>1, <1>2, <1>3, <1>4, <1>5, <1>6 DEF UnitsRight, us

Kept(us, nx, r) == [us EXCEPT ![nx].committed = @ \/ r = "commit"]

LEMMA UnitsAfterKeep ==
    ASSUME form \in Documents, NEW steps, NEW st, NEW nx \in Nat, NEW us \in Seq(UnitSet), NEW b,
           UnitsRight(steps, st, nx, us, b), IsCheck(steps, st), nx \in DOMAIN us, NEW c, c \subseteq b, NEW r \in {"go_on", "commit"},
           r = Outcome(steps[st], us[nx], c),
           NEW now, now = Kept(us, nx, r)
    PROVE  /\ UnitsRight(steps, st, nx + 1, now, b)
           /\ DOMAIN now = DOMAIN us /\ \A i \in DOMAIN us : now[i].label = us[i].label
<1>1. /\ us \in Seq(UnitSet) /\ \A i \in DOMAIN us : us[i] \in UnitSet
      /\ Len(us) \in Nat /\ DOMAIN us = 1 .. Len(us) /\ nx \in DOMAIN us
  BY UnitsAre
<1> DEFINE u == us[nx]
           v == [u EXCEPT !.committed = @ \/ r = "commit"]
<1>2. u \in UnitSet
  BY <1>1
<1>3. v \in UnitSet /\ v.label = u.label /\ v.committed = (u.committed \/ r = "commit")
  BY <1>2 DEF UnitSet
<1>4. ~v.committed => v = u
  BY <1>2 DEF UnitSet
<1>5. now = [us EXCEPT ![nx] = v]
  BY DEF Kept
<1> HIDE DEF v
<1>6. /\ now \in Seq(UnitSet) /\ DOMAIN now = DOMAIN us /\ Len(now) = Len(us)
      /\ now[nx] = v /\ \A i \in DOMAIN us : i # nx => now[i] = us[i]
  <2>1. us \in [DOMAIN us -> UnitSet]
    BY <1>1
  <2>2. now \in [DOMAIN us -> UnitSet] /\ now[nx] = v /\ \A i \in DOMAIN us : i # nx => now[i] = us[i]
    BY <1>1, <1>3, <1>5
  <2>3. now \in Seq(UnitSet) /\ Len(now) = Len(us)
    BY <1>1, <2>2
  <2> QED BY <2>2, <2>3
<1>7. \A i \in DOMAIN us : now[i].label = us[i].label
  BY <1>3, <1>6
<1>8. Outcome(steps[st], u, b) # "refuse" /\ (Ends(steps[st], u) <=> r = "commit")
  BY OutcomeOfStores
<1> HIDE DEF u
<1>9. ASSUME NEW i \in DOMAIN us, ~now[i].committed PROVE UnitRight(steps, st, nx + 1, now[i], i, b)
  <2>1. now[i] = us[i]
    BY <1>4, <1>6, <1>9 DEF u
  <2>2. UnitRight(steps, st, nx, us[i], i, b)
    BY <1>9, <2>1 DEF UnitsRight
  <2>3. CASE i = nx
    <3>1. r # "commit"
      BY <1>3, <1>6, <1>9, <2>3
    <3> QED BY <1>8, <2>1, <2>2, <2>3, <3>1 DEF UnitRight, u
  <2>4. CASE i # nx
    <3>1. i < nx + 1 => i < nx
      BY <1>1, <2>4
    <3> QED BY <2>1, <2>2, <3>1 DEF UnitRight
  <2> QED BY <2>3, <2>4
<1>10. ASSUME NEW x \in RecordsAt(steps, st) PROVE RecordKept(steps, st, now, x)
  <2>1. RecordKept(steps, st, us, x)
    BY DEF UnitsRight
  <2>2. ASSUME NEW i \in DOMAIN us, us[i] = x PROVE RecordKept(steps, st, now, x)
    <3>1. CASE i # nx \/ v = u
      BY <1>6, <2>2, <3>1 DEF RecordKept, u
    <3>2. CASE i = nx /\ v # u
      <4>1. ~x.committed /\ x = u
        BY <2>2, <3>2, RecordUnits DEF u
      <4>2. r = "commit"
        BY <1>3, <1>4, <3>2, <4>1
      <4> QED BY <1>8, <4>1, <4>2 DEF RecordKept
    <3> QED BY <3>1, <3>2
  <2> QED BY <2>1, <2>2 DEF RecordKept
<1>11. nx + 1 \in 1 .. Len(now) + 1
  BY <1>1, <1>6
<1> QED BY <1>6, <1>7, <1>9, <1>10, <1>11 DEF UnitsRight

LEMMA Removing ==
    ASSUME NEW A, NEW s \in Seq(A), NEW n \in DOMAIN s
    PROVE  /\ RemoveAt(s, n) \in Seq(A) /\ DOMAIN RemoveAt(s, n) = 1 .. Len(s) - 1
           /\ Len(RemoveAt(s, n)) = Len(s) - 1
           /\ \A i \in 1 .. Len(s) - 1 : RemoveAt(s, n)[i] = IF i < n THEN s[i] ELSE s[i + 1]
<1> DEFINE p == SubSeq(s, 1, n - 1)
           q == SubSeq(s, n + 1, Len(s))
           l == Len(s)
<1>1. p \in Seq(A) /\ Len(p) = n - 1 /\ \A i \in 1 .. n - 1 : p[i] = s[i]
  OBVIOUS
<1>2. q \in Seq(A) /\ Len(q) = l - n /\ \A i \in 1 .. l - n : q[i] = s[n + i]
  OBVIOUS
<1>3. n \in 1 .. l /\ l \in Nat
  OBVIOUS
<1> HIDE DEF p, q, l
<1>4. p \o q \in Seq(A) /\ Len(p \o q) = l - 1 /\ DOMAIN (p \o q) = 1 .. l - 1
  <2>1. p \o q \in Seq(A) /\ Len(p \o q) = Len(p) + Len(q) /\ DOMAIN (p \o q) = 1 .. Len(p) + Len(q)
    BY <1>1, <1>2
  <2>2. Len(p) + Len(q) = l - 1
    BY <1>1, <1>2, <1>3
  <2> QED BY <2>1, <2>2
<1>5. ASSUME NEW i \in 1 .. l - 1, i < n PROVE (p \o q)[i] = s[i]
  BY <1>1, <1>2, <1>3, <1>5
<1>6. ASSUME NEW i \in 1 .. l - 1, ~(i < n) PROVE (p \o q)[i] = s[i + 1]
  <2>1. (p \o q)[i] = q[i - Len(p)]
    <3>1. i \in 1 .. Len(p) + Len(q) /\ ~(i <= Len(p))
      BY <1>1, <1>2, <1>3, <1>6
    <3> QED BY <1>1, <1>2, <3>1
  <2>2. Len(p) = n - 1 /\ i - (n - 1) \in 1 .. l - n /\ n + (i - (n - 1)) = i + 1
    BY <1>1, <1>3, <1>6
  <2>3. q[i - (n - 1)] = s[n + (i - (n - 1))]
    BY <1>2, <2>2
  <2> QED BY <2>1, <2>2, <2>3
<1> QED BY <1>4, <1>5, <1>6 DEF RemoveAt, p, q, l

\* now has the units of us but the one at nx.
Without(us, nx, now) ==
    /\ \A i \in DOMAIN now : \E h \in DOMAIN us : h # nx /\ now[i] = us[h]
    /\ \A h \in DOMAIN us : h # nx => \E i \in DOMAIN now : now[i] = us[h]
    /\ \A i, j \in DOMAIN now : i # j =>
         \E h, g \in DOMAIN us : h # nx /\ g # nx /\ h # g /\ now[i] = us[h] /\ now[j] = us[g]

LEMMA UnitsAfterPass ==
    ASSUME form \in Documents, NEW steps, NEW st, NEW nx \in Nat, NEW us \in Seq(UnitSet), NEW b,
           UnitsRight(steps, st, nx, us, b), IsCheck(steps, st), nx \in DOMAIN us,
           NEW c, Outcome(steps[st], us[nx], c) = "pass",
           NEW now, now = RemoveAt(us, nx)
    PROVE  UnitsRight(steps, st, nx, now, b) /\ Without(us, nx, now)
<1> DEFINE l == Len(us)
           Old(i) == IF i < nx THEN i ELSE i + 1
<1>1. /\ us \in Seq(UnitSet) /\ l \in Nat /\ DOMAIN us = 1 .. l /\ nx \in 1 .. l
  BY UnitsAre
<1>2. /\ now \in Seq(UnitSet) /\ DOMAIN now = 1 .. l - 1
      /\ \A i \in 1 .. l - 1 : now[i] = IF i < nx THEN us[i] ELSE us[i + 1]
  BY <1>1, Removing
<1>3. Len(now) = l - 1
  BY <1>1, Removing
<1> HIDE DEF l
<1>4. \A i \in 1 .. l - 1 : Old(i) \in 1 .. l /\ Old(i) # nx /\ now[i] = us[Old(i)]
  BY <1>1, <1>2
<1>5. \A i, j \in 1 .. l - 1 : i # j => Old(i) # Old(j)
  BY <1>1
<1>6. ASSUME NEW h \in 1 .. l, h # nx PROVE \E i \in 1 .. l - 1 : now[i] = us[h]
  <2>1. CASE h < nx
    <3>1. h \in 1 .. l - 1 /\ now[h] = us[h]
      BY <1>1, <1>2, <2>1
    <3> QED BY <3>1
  <2>2. CASE h > nx
    <3>1. h - 1 \in 1 .. l - 1 /\ ~(h - 1 < nx) /\ h - 1 + 1 = h
      BY <1>1, <2>2
    <3>2. now[h - 1] = us[h]
      BY <1>2, <3>1
    <3> QED BY <3>1, <3>2
  <2> QED BY <1>1, <1>6, <2>1, <2>2
<1>7. ASSUME NEW i \in DOMAIN now, ~now[i].committed PROVE UnitRight(steps, st, nx, now[i], i, b)
  <2>1. now[i] = us[Old(i)] /\ Old(i) \in DOMAIN us
    BY <1>1, <1>2, <1>4
  <2>2. UnitRight(steps, st, nx, us[Old(i)], Old(i), b)
    BY <1>7, <2>1 DEF UnitsRight
  <2>3. i < nx => Old(i) < nx
    OBVIOUS
  <2> HIDE DEF Old
  <2> QED BY <2>1, <2>2, <2>3 DEF UnitRight
<1>8. ASSUME NEW x \in RecordsAt(steps, st) PROVE RecordKept(steps, st, now, x)
  <2>1. RecordKept(steps, st, us, x)
    BY DEF UnitsRight
  <2>2. Ends(steps[st], us[nx])
    BY OutcomeOfStores
  <2> QED BY <1>1, <1>2, <1>6, <2>1, <2>2 DEF RecordKept
<1>9. nx \in 1 .. Len(now) + 1
  BY <1>1, <1>3
<1>10. UnitsRight(steps, st, nx, now, b)
  BY <1>2, <1>7, <1>8, <1>9 DEF UnitsRight
<1> HIDE DEF Old
<1>11. \A i \in DOMAIN now : \E h \in DOMAIN us : h # nx /\ now[i] = us[h]
  BY <1>1, <1>2, <1>4
<1>12. \A h \in DOMAIN us : h # nx => \E i \in DOMAIN now : now[i] = us[h]
  BY <1>1, <1>2, <1>6
<1>13. ASSUME NEW i \in DOMAIN now, NEW j \in DOMAIN now, i # j
       PROVE  \E h, g \in DOMAIN us : h # nx /\ g # nx /\ h # g /\ now[i] = us[h] /\ now[j] = us[g]
  BY <1>1, <1>2, <1>4, <1>5, <1>13
<1>14. Without(us, nx, now)
  BY <1>11, <1>12, <1>13 DEF Without
<1> QED BY <1>10, <1>14

LEMMA UnitsAfterStep ==
    ASSUME form \in Documents, NEW steps \in Seq(StepSet), NEW st, NEW nx \in Nat, NEW us \in Seq(UnitSet),
           NEW b, UnitsRight(steps, st, nx, us, b), IsCheck(steps, st), nx > Len(us)
    PROVE  UnitsRight(steps, st + 1, 1, us, b)
<1>1. st \in DOMAIN steps /\ steps[st].action \notin Splits /\ st \in Nat
  BY DEF IsCheck
<1>2. /\ RecordsAt(steps, st + 1) = RecordsAt(steps, st)
      /\ \A u \in RecordsAt(steps, st) :
            Ended(steps, st + 1, u) <=> Ended(steps, st, u) \/ Ends(steps[st], u)
  BY <1>1, EndedAfterCheck
<1>3. \A i \in DOMAIN us : i < nx
  OBVIOUS
<1>4. ASSUME NEW i \in DOMAIN us, ~us[i].committed
      PROVE  /\ us[i] \in RecordsAt(steps, st) /\ ~Ended(steps, st, us[i]) /\ ~Ends(steps[st], us[i])
             /\ Outcome(steps[st], us[i], b) # "refuse"
  BY <1>3, <1>4 DEF UnitsRight, UnitRight
<1>5. \A i \in DOMAIN us : us[i].committed \/ UnitRight(steps, st + 1, 1, us[i], i, b)
  <2>1. \A i \in DOMAIN us : ~(i < 1)
    OBVIOUS
  <2> QED BY <1>2, <1>4, <2>1 DEF UnitRight
<1>6. \A u \in RecordsAt(steps, st) : RecordKept(steps, st, us, u)
  BY DEF UnitsRight
<1>7. \A u \in RecordsAt(steps, st + 1) : RecordKept(steps, st + 1, us, u)
  BY <1>2, <1>6 DEF RecordKept
<1>8. NotRefused(steps, st + 1, b)
  <2>1. NotRefused(steps, st, b)
    BY DEF UnitsRight
  <2>2. \A j : j \in 1 .. (st + 1) - 1 <=> j \in 1 .. st - 1 \/ j = st
    BY <1>1
  <2>3. ASSUME NEW u \in RecordsAt(steps, st), Outcome(steps[st], u, b) = "refuse" PROVE Ended(steps, st, u)
    <3>1. ~Ends(steps[st], u)
      BY <2>3, OutcomeOfStores
    <3>2. \A i \in DOMAIN us : us[i] # u
      BY <1>4, <2>3, RecordUnits
    <3> QED BY <1>6, <3>1, <3>2 DEF RecordKept
  <2> QED BY <2>1, <2>2, <2>3 DEF NotRefused
<1>9. /\ us \in Seq(UnitSet) /\ st + 1 \in 1 .. Len(steps) + 1 /\ 1 \in 1 .. Len(us) + 1
  BY <1>1
<1> QED BY <1>5, <1>7, <1>8, <1>9 DEF UnitsRight

\* A store with more kinds refuses no more.
LEMMA UnitsInStores ==
    ASSUME NEW steps, NEW st, NEW nx, NEW us, NEW b, NEW c, UnitsRight(steps, st, nx, us, b), b \subseteq c
    PROVE  UnitsRight(steps, st, nx, us, c)
<1>1. \A s, u : Outcome(s, u, c) = "refuse" => Outcome(s, u, b) = "refuse"
  BY OutcomeOfStores
<1>2. \A u, i : UnitRight(steps, st, nx, u, i, b) => UnitRight(steps, st, nx, u, i, c)
  BY <1>1 DEF UnitRight
<1>3. NotRefused(steps, st, b) => NotRefused(steps, st, c)
  BY <1>1 DEF NotRefused
<1> QED BY <1>2, <1>3 DEF UnitsRight

LEMMA AcceptsInStores ==
    ASSUME NEW steps, NEW b, NEW c, Accepts(steps, b), b \subseteq c
    PROVE  Accepts(steps, c)
<1>1. \A s, u : Outcome(s, u, c) = "refuse" => Outcome(s, u, b) = "refuse"
  BY OutcomeOfStores
<1> QED BY <1>1 DEF Accepts

LEMMA AcceptsAtEnd ==
    ASSUME NEW steps \in Seq(StepSet), NEW st \in Nat, NEW nx, NEW us, NEW b,
           UnitsRight(steps, st, nx, us, b), st > Len(steps)
    PROVE  Accepts(steps, b)
<1>1. NotRefused(steps, st, b)
  BY DEF UnitsRight
<1>2. DOMAIN steps = 1 .. Len(steps) /\ \A k \in DOMAIN steps : k \in 1 .. st - 1
  OBVIOUS
<1>3. SUFFICES ASSUME NEW k \in DOMAIN steps, steps[k].action \notin Splits, NEW u \in RecordsAt(steps, k),
                      Outcome(steps[k], u, b) = "refuse"
               PROVE  Ended(steps, k, u)
  BY DEF Accepts
<1> QED BY <1>1, <1>2, <1>3 DEF NotRefused, IsCheck

LEMMA RefusedIsRight ==
    ASSUME NEW steps, NEW st, NEW nx, NEW us, NEW b, UnitsRight(steps, st, nx, us, b),
           IsCheck(steps, st), nx \in DOMAIN us, NEW c, Outcome(steps[st], us[nx], c) = "refuse",
           NEW e, e \subseteq c
    PROVE  ~Accepts(steps, e)
<1>1. ~us[nx].committed /\ Outcome(steps[st], us[nx], e) = "refuse"
  BY OutcomeOfStores
<1>2. us[nx] \in RecordsAt(steps, st) /\ ~Ended(steps, st, us[nx])
  BY <1>1 DEF UnitsRight, UnitRight
<1> QED BY <1>1, <1>2 DEF Accepts, IsCheck

-----------------------------------------------------------------------------
(* What the units cover                                                     *)

\* The labels of the smallest parts of detail j.
PartOfDetail(p, j, as) ==
    \/ as = <<>> /\ p = <<j>>
    \/ as # <<>> /\ \E k \in Good(as) : k \in Nat /\ p = <<j, k>>

LEMMA LabelsOfParts ==
    ASSUME form \in Documents, NEW p \in Parts
    PROVE  /\ p \in Seq(Nat)
           /\ \/ form.details = <<>> /\ p = <<>>
              \/ /\ form.details # <<>>
                 /\ \E j \in Good(form.details) :
                        j \in Nat /\ PartOfDetail(p, j, form.details[j].apportions)
<1>1. form.details \in Seq(DetailRecords \cup {Malformed})
  BY WholeRecord
<1>2. CASE form.details = <<>>
  <2>1. p = <<>> /\ <<>> \in Seq(Nat)
    BY <1>2 DEF Parts
  <2> QED BY <1>2, <2>1
<1>3. CASE form.details # <<>>
  <2>1. ToSet(WellFormed(form.details)) = Good(form.details)
    BY <1>1, WellFormedParts
  <2>2. PICK j \in Good(form.details) :
            p \in LET as == form.details[j].apportions
                  IN  IF as = <<>> THEN {<<j>>} ELSE {<<j, k>> : k \in ToSet(WellFormed(as))}
    BY <1>3, <2>1 DEF Parts
  <2> DEFINE as == form.details[j].apportions
  <2>3. j \in Nat /\ as \in Seq(Kinds \cup {Absent, Malformed})
    BY <1>1 DEF Good, DetailRecords
  <2>4. ToSet(WellFormed(as)) = Good(as) /\ \A k \in Good(as) : k \in Nat
    BY <2>3, WellFormedParts DEF Good
  <2>5. p \in IF as = <<>> THEN {<<j>>} ELSE {<<j, k>> : k \in Good(as)}
    BY <2>2, <2>4
  <2> HIDE DEF as
  <2>6. ASSUME as = <<>> PROVE p \in Seq(Nat) /\ PartOfDetail(p, j, as)
    <3>1. p = <<j>>
      BY <2>5, <2>6
    <3>2. <<j>> \in Seq(Nat)
      BY <2>3
    <3> QED BY <2>6, <3>1, <3>2 DEF PartOfDetail
  <2>7. ASSUME as # <<>> PROVE p \in Seq(Nat) /\ PartOfDetail(p, j, as)
    <3>1. PICK k \in Good(as) : p = <<j, k>>
      BY <2>5, <2>7
    <3>2. k \in Nat /\ <<j, k>> \in Seq(Nat)
      <4>1. j \in Nat /\ k \in Nat
        BY <2>3, <2>4
      <4>2. \A m, n \in Nat : <<m, n>> \in Seq(Nat)
        OBVIOUS
      <4> QED BY <4>1, <4>2
    <3>3. p \in Seq(Nat)
      BY <3>1, <3>2, Zenon
    <3>4. PartOfDetail(p, j, as)
      BY <2>7, <3>1, <3>2, Zenon DEF PartOfDetail
    <3> QED BY <3>3, <3>4
  <2>8. p \in Seq(Nat) /\ PartOfDetail(p, j, as)
    BY <2>6, <2>7
  <2> QED BY <1>3, <2>3, <2>8 DEF as
<1> QED BY <1>2, <1>3

LEMMA PrefixOfPart ==
    ASSUME NEW i \in Nat, NEW j \in Nat, NEW as, NEW p \in Seq(Nat), PartOfDetail(p, j, as)
    PROVE  IsPrefix(<<i>>, p) <=> i = j
<1>1. Len(p) >= 1 /\ p[1] = j /\ Len(p) \in Nat
  <2>1. CASE p = <<j>>
    BY <2>1
  <2>2. CASE \E k \in Nat : p = <<j, k>>
    BY <2>2
  <2> QED BY <2>1, <2>2 DEF PartOfDetail
<1> DEFINE s == <<i>>
<1>2. s \in Seq(Nat) /\ Len(s) = 1 /\ s[1] = i /\ 1 .. 1 = {1}
  OBVIOUS
<1> HIDE DEF s
<1>3. IsPrefix(s, p) <=> Len(s) <= Len(p) /\ \A n \in 1 .. Len(s) : s[n] = p[n]
  BY <1>2, PrefixMeans
<1>4. IsPrefix(s, p) <=> i = j
  BY <1>1, <1>2, <1>3
<1> QED BY <1>4 DEF s

LEMMA NoPairOfUnits ==
    ASSUME NEW us \in Seq(UnitSet)
    PROVE  NoPair(us, Comparable) <=> \A i, j \in DOMAIN us : IsPrefix(us[i].label, us[j].label) => i = j
<1>1. \A i \in DOMAIN us : us[i] \in UnitSet
  OBVIOUS
<1>2. \A i, j \in DOMAIN us : <<us[i], us[j]>> \in Comparable <=> IsPrefix(us[i].label, us[j].label)
  BY <1>1 DEF Comparable
<1> QED BY <1>2 DEF NoPair

LEMMA CoveredAtStart ==
    ASSUME form \in Documents
    PROVE  Apart(<<Whole>>, {}) /\ Covered(<<Whole>>, {})
<1> DEFINE us == <<Whole>>
<1>1. DOMAIN us = {1} /\ us[1].label = <<>>
  BY WholeRecord
<1> HIDE DEF us
<1>2. Apart(us, {})
  BY <1>1 DEF Apart
<1>3. \A p \in Parts : IsPrefix(<<>>, p)
  BY LabelsOfParts, PrefixOfItself
<1>4. Covered(us, {})
  BY <1>1, <1>3 DEF Covered
<1> QED BY <1>2, <1>4 DEF us

LEMMA ApartAfterSplit ==
    ASSUME NEW s, NEW us \in Seq(UnitSet), \A i \in DOMAIN us : Unsplit(us[i]), NEW gone, Apart(us, gone)
    PROVE  Apart(Split(s, us), gone)
<1> DEFINE now == Split(s, us)
<1>1. NoPair(us, Comparable)
  BY NoPairOfUnits DEF Apart
<1>2. /\ now \in Seq(UnitSet) /\ NoPair(now, Comparable)
      /\ \A x \in ToSet(now) : \E i \in DOMAIN us : x \in PartSet(s, us[i])
  BY <1>1, SplitItems
<1> HIDE DEF now
<1>3. \A i, j \in DOMAIN now : IsPrefix(now[i].label, now[j].label) => i = j
  BY <1>2, NoPairOfUnits
<1>4. ASSUME NEW i \in DOMAIN now, NEW l \in gone
      PROVE  ~IsPrefix(now[i].label, l) /\ ~IsPrefix(l, now[i].label)
  <2> DEFINE x == now[i]
  <2>1. PICK h \in DOMAIN us : x \in PartSet(s, us[h])
    BY <1>2 DEF ToSet
  <2>2. us[h] \in UnitSet /\ Unsplit(us[h])
    OBVIOUS
  <2> HIDE DEF x
  <2>3. x \in UnitSet /\ IsPrefix(us[h].label, x.label)
    BY <2>1, <2>2, PartsOfOne
  <2>4. us[h].label \in Seq(Nat) /\ x.label \in Seq(Nat) /\ l \in Seq(Nat)
    BY <2>2, <2>3 DEF UnitSet, Apart
  <2>5. ~IsPrefix(us[h].label, l) /\ ~IsPrefix(l, us[h].label)
    BY DEF Apart
  <2>6. ~IsPrefix(x.label, l)
    BY <2>3, <2>4, <2>5, PrefixOfPrefix
  <2>7. ~IsPrefix(l, x.label)
    BY <2>3, <2>4, <2>5, PrefixesOfOne
  <2> QED BY <2>6, <2>7 DEF x
<1>5. Apart(now, gone)
  BY <1>3, <1>4 DEF Apart
<1> QED BY <1>5 DEF now

LEMMA CoveredAfterSplit ==
    ASSUME form \in Documents, NEW steps, NEW st, NEW nx, NEW us, NEW b, UnitsRight(steps, st, nx, us, b),
           NoPair(us, Comparable), NEW s, s.action \in Splits, NEW gone, Covered(us, gone)
    PROVE  Covered(Split(s, us), gone)
<1> DEFINE now == Split(s, us)
<1>1. us \in Seq(UnitSet) /\ \A i \in DOMAIN us : us[i] \in UnitSet /\ Unsplit(us[i])
  BY UnitsAre
<1>2. \A i \in DOMAIN us : \A x \in PartSet(s, us[i]) : x \in ToSet(now)
  BY <1>1, SplitItems
<1> HIDE DEF now
<1>3. SUFFICES ASSUME NEW p \in Parts, NEW i \in DOMAIN us, IsPrefix(us[i].label, p)
               PROVE  \E x \in PartSet(s, us[i]) : IsPrefix(x.label, p)
  BY <1>2 DEF Covered, ToSet, now
<1> DEFINE u == us[i]
<1>4. u \in UnitSet /\ Unsplit(u) /\ (u.committed \/ u \in RecordsAt(steps, st)) /\ IsPrefix(u.label, p)
  BY <1>1, <1>3 DEF UnitsRight, UnitRight
<1> HIDE DEF u
<1>5. CASE u \in PartSet(s, u)
  BY <1>4, <1>5 DEF u
<1>6. CASE u \notin PartSet(s, u)
  <2>1. u = Whole \/ u \in DetailsIn \/ u \in ApportionsIn
    BY <1>4, <1>6, RecordsAre DEF PartSet, DetailSet, ApportionSet
  <2>2. CASE s.action = "split_detail"
    <3>1. ~u.committed /\ u.details # <<>>
      BY <1>6, <2>2 DEF PartSet, DetailSet
    <3>2. u = Whole /\ form.details # <<>>
      BY <2>1, <3>1, WholeRecord, DetailRecord, ApportionRecord
    <3>3. PICK j \in Good(form.details) : j \in Nat /\ PartOfDetail(p, j, form.details[j].apportions)
      BY <3>2, LabelsOfParts
    <3>4. Whole \in UnitSet /\ Whole.details = form.details
      BY WholeRecord
    <3>5. DetailAt(Whole, j) \in PartSet(s, u)
      BY <2>2, <3>1, <3>2, <3>4 DEF PartSet, DetailSet
    <3>6. DetailAt(Whole, j).label = <<j>>
      BY <3>4, DetailUnits
    <3>7. IsPrefix(<<j>>, p)
      BY <3>3, LabelsOfParts, PrefixOfPart
    <3> QED BY <3>5, <3>6, <3>7 DEF u
  <2>3. CASE s.action = "split_apportion"
    <3>1. ~u.committed /\ u.apportions # <<>>
      BY <1>6, <2>3 DEF PartSet, ApportionSet
    <3>2. u \in DetailsIn /\ form.details # <<>>
      BY <2>1, <3>1, WholeRecord, DetailRecord, ApportionRecord
    <3>3. PICK j \in Good(form.details) :
            j \in Nat /\ u.label = <<j>> /\ u.apportions = form.details[j].apportions
      BY <3>2, DetailRecord
    <3>4. PICK h \in Good(form.details) : h \in Nat /\ PartOfDetail(p, h, form.details[h].apportions)
      BY <3>2, LabelsOfParts
    <3>5. p \in Seq(Nat) /\ h = j
      BY <1>4, <3>3, <3>4, LabelsOfParts, PrefixOfPart
    <3>6. PICK k \in Good(u.apportions) : k \in Nat /\ p = <<j, k>>
      BY <3>1, <3>3, <3>4, <3>5 DEF PartOfDetail
    <3>7. ApportionAt(u, k) \in PartSet(s, u)
      BY <2>3, <3>1 DEF PartSet, ApportionSet
    <3> DEFINE x == <<j>> \o <<k>>
               y == <<j, k>>
    <3>8. ApportionAt(u, k).label = x
      BY <1>4, <3>3, ApportionUnits
    <3>9. j \in Nat /\ k \in Nat
      BY <3>3, <3>6
    <3>10. x \in Seq(Nat) /\ Len(x) = 2 /\ x[1] = j /\ x[2] = k /\ 1 .. 2 = {1, 2}
      BY <3>9
    <3>11. y \in Seq(Nat) /\ Len(y) = 2 /\ y[1] = j /\ y[2] = k
      BY <3>9
    <3>12. p = y
      BY <3>6
    <3> HIDE DEF x, y
    <3>13. Len(x) <= Len(y) /\ \A n \in 1 .. Len(x) : x[n] = y[n]
      BY <3>10, <3>11
    <3>14. IsPrefix(x, y)
      BY <3>10, <3>11, <3>13, PrefixMeans
    <3> QED BY <3>7, <3>8, <3>12, <3>14 DEF u
  <2> QED BY <2>2, <2>3 DEF Splits
<1> QED BY <1>5, <1>6

\* The units after a step that keeps them all, and those after one that removes nx.
LEMMA CoverAfterKeep ==
    ASSUME NEW us, NEW gone, Apart(us, gone), Covered(us, gone), NEW now,
           DOMAIN now = DOMAIN us, \A i \in DOMAIN us : now[i].label = us[i].label
    PROVE  Apart(now, gone) /\ Covered(now, gone)
<1>1. Apart(now, gone)
  BY DEF Apart
<1>2. Covered(now, gone)
  BY DEF Covered
<1> QED BY <1>1, <1>2

LEMMA CoverAfterPass ==
    ASSUME NEW us \in Seq(UnitSet), NEW gone, Apart(us, gone), Covered(us, gone),
           NEW nx \in DOMAIN us, NEW now, Without(us, nx, now)
    PROVE  Apart(now, gone \cup {us[nx].label}) /\ Covered(now, gone \cup {us[nx].label})
<1> DEFINE l == us[nx].label
           all == gone \cup {l}
<1>1. /\ gone \subseteq Seq(Nat)
      /\ \A i, j \in DOMAIN us : IsPrefix(us[i].label, us[j].label) => i = j
      /\ \A i \in DOMAIN us, m \in gone : ~IsPrefix(us[i].label, m) /\ ~IsPrefix(m, us[i].label)
      /\ \A m, n \in gone : IsPrefix(m, n) => m = n
  BY DEF Apart
<1>2. l \in Seq(Nat)
  <2>1. us[nx] \in UnitSet
    OBVIOUS
  <2> QED BY <2>1 DEF UnitSet
<1>3. ASSUME NEW i \in DOMAIN now, NEW j \in DOMAIN now, i # j PROVE ~IsPrefix(now[i].label, now[j].label)
  <2>1. PICK h, g \in DOMAIN us : h # g /\ now[i] = us[h] /\ now[j] = us[g]
    BY <1>3 DEF Without
  <2> QED BY <1>1, <2>1
<1>4. ASSUME NEW i \in DOMAIN now, NEW m \in all
      PROVE  ~IsPrefix(now[i].label, m) /\ ~IsPrefix(m, now[i].label)
  <2>1. PICK h \in DOMAIN us : h # nx /\ now[i] = us[h]
    BY DEF Without
  <2> QED BY <1>1, <2>1
<1>5. ASSUME NEW m \in all, NEW n \in all, m # n PROVE ~IsPrefix(m, n)
  <2>1. CASE m \in gone /\ n \in gone
    BY <1>1, <1>5, <2>1
  <2>2. CASE m = l \/ n = l
    BY <1>1, <1>5, <2>2
  <2> QED BY <2>1, <2>2
<1>6. Apart(now, all)
  BY <1>1, <1>2, <1>3, <1>4, <1>5 DEF Apart
<1>7. ASSUME NEW p \in Parts
      PROVE  (\E i \in DOMAIN now : IsPrefix(now[i].label, p)) \/ \E m \in all : IsPrefix(m, p)
  <2>1. CASE \E m \in gone : IsPrefix(m, p)
    BY <2>1
  <2>2. CASE \E h \in DOMAIN us : IsPrefix(us[h].label, p)
    BY <2>2 DEF Without
  <2> QED BY <2>1, <2>2 DEF Covered
<1>8. Covered(now, all)
  BY <1>7 DEF Covered
<1> QED BY <1>6, <1>8

LEMMA CoveredOnce ==
    ASSUME form \in Documents, NEW us \in Seq(UnitSet), NEW gone, Apart(us, gone), Covered(us, gone),
           NEW p \in Parts
    PROVE  Cardinality({l \in {u.label : u \in ToSet(us)} \cup gone : IsPrefix(l, p)}) = 1
<1> DEFINE labels == {u.label : u \in ToSet(us)} \cup gone
           C == {l \in labels : IsPrefix(l, p)}
<1>1. \A l : l \in labels <=> l \in gone \/ \E i \in DOMAIN us : l = us[i].label
  <2>1. \A u : u \in ToSet(us) <=> \E i \in DOMAIN us : u = us[i]
    BY DEF ToSet
  <2>2. \A l : l \in labels <=> l \in gone \/ \E u \in ToSet(us) : l = u.label
    OBVIOUS
  <2> HIDE DEF labels
  <2> QED BY <2>1, <2>2
<1>2. \A i \in DOMAIN us : us[i].label \in Seq(Nat)
  <2>1. \A i \in DOMAIN us : us[i] \in UnitSet
    OBVIOUS
  <2> QED BY <2>1 DEF UnitSet
<1>3. labels \subseteq Seq(Nat)
  BY <1>1, <1>2 DEF Apart
<1> HIDE DEF labels
<1>4. \A l, m \in labels : IsPrefix(l, m) => l = m
  BY <1>1 DEF Apart
<1>5. p \in Seq(Nat)
  BY LabelsOfParts
<1>6. \A l, m \in C : l = m
  BY <1>3, <1>4, <1>5, PrefixesOfOne
<1>7. PICK l \in labels : IsPrefix(l, p)
  BY <1>1 DEF Covered
<1>8. C = {l}
  BY <1>6, <1>7
<1> HIDE DEF C
<1>9. Cardinality(C) = 1
  BY <1>8, FS_Singleton
<1> QED BY <1>9 DEF C, labels

-----------------------------------------------------------------------------
(* The document does not change                                             *)

LEMMA SameForm ==
    ASSUME form' = form
    PROVE  /\ Whole' = Whole /\ Parts' = Parts
           /\ \A steps, k : RecordsAt(steps, k)' = RecordsAt(steps, k)
           /\ \A steps, k, u : Ended(steps, k, u)' <=> Ended(steps, k, u)
           /\ \A steps, b : Accepts(steps, b)' <=> Accepts(steps, b)
           /\ \A us, gone : Covered(us, gone)' <=> Covered(us, gone)
           /\ \A steps, st, nx, us, b : UnitsRight(steps, st, nx, us, b)' <=> UnitsRight(steps, st, nx, us, b)
<1>1. Whole' = Whole
  BY DEF Whole
<1>2. Parts' = Parts
  BY DEF Parts
<1>3. ASSUME NEW steps, NEW k PROVE RecordsAt(steps, k)' = RecordsAt(steps, k)
  BY <1>1 DEF RecordsAt
<1>4. ASSUME NEW steps, NEW k, NEW u PROVE Ended(steps, k, u)' <=> Ended(steps, k, u)
  BY <1>3 DEF Ended
<1>5. ASSUME NEW steps, NEW b PROVE Accepts(steps, b)' <=> Accepts(steps, b)
  BY <1>3, <1>4 DEF Accepts
<1>6. ASSUME NEW us, NEW gone PROVE Covered(us, gone)' <=> Covered(us, gone)
  BY <1>2 DEF Covered
<1>7. ASSUME NEW steps, NEW st, NEW nx, NEW us, NEW b
      PROVE  UnitsRight(steps, st, nx, us, b)' <=> UnitsRight(steps, st, nx, us, b)
  <2>1. \A u, i : UnitRight(steps, st, nx, u, i, b)' <=> UnitRight(steps, st, nx, u, i, b)
    BY <1>3, <1>4 DEF UnitRight
  <2>2. \A u : RecordKept(steps, st, us, u)' <=> RecordKept(steps, st, us, u)
    BY <1>4 DEF RecordKept
  <2>3. NotRefused(steps, st, b)' <=> NotRefused(steps, st, b)
    BY <1>3, <1>4 DEF NotRefused
  <2> QED BY <1>3, <2>1, <2>2, <2>3 DEF UnitsRight
<1> QED BY <1>1, <1>2, <1>3, <1>4, <1>5, <1>6, <1>7

-----------------------------------------------------------------------------
(* The invariant                                                            *)

LEMMA InTarget ==
    ASSUME WorkflowInv
    PROVE  /\ form \in Documents /\ rules \in Seq(Seq(StepSet))
           /\ Len(rules) \in Nat /\ DOMAIN rules = 1 .. Len(rules) /\ target \in 1 .. Len(rules) + 1
           /\ store \subseteq UNION seen /\ Known \subseteq store
           /\ Running => /\ target \in DOMAIN rules /\ Steps \in Seq(StepSet) /\ ValidateTarget(Steps)
                         /\ step \in Nat /\ next \in Nat /\ units \in Seq(UnitSet)
                         /\ DOMAIN units = 1 .. Len(units) /\ Len(units) \in Nat
                         /\ \A i \in DOMAIN units : Unsplit(units[i])
                         /\ NoPair(units, Comparable)
<1>1. form \in Documents /\ rules \in Seq(Seq(StepSet)) /\ target \in 1 .. Len(rules) + 1 /\ store \in seen
  BY WorkflowAssumption DEF WorkflowInv, StepSet
<1>2. Len(rules) \in Nat /\ DOMAIN rules = 1 .. Len(rules)
  BY <1>1
<1>3. store \subseteq UNION seen /\ Known \subseteq store
  BY <1>1 DEF Known
<1>4. ASSUME Running
      PROVE  /\ target \in DOMAIN rules /\ Steps \in Seq(StepSet) /\ ValidateTarget(Steps)
             /\ step \in Nat /\ next \in Nat /\ units \in Seq(UnitSet)
             /\ DOMAIN units = 1 .. Len(units) /\ Len(units) \in Nat
             /\ \A i \in DOMAIN units : Unsplit(units[i])
             /\ NoPair(units, Comparable)
  <2>1. target \in DOMAIN rules
    BY <1>1, <1>2, <1>4 DEF Running
  <2>2. Steps \in Seq(StepSet) /\ ValidateTarget(Steps)
    BY <1>1, <2>1 DEF Steps, WorkflowInv
  <2>3. TargetRight
    BY <1>4 DEF WorkflowInv
  <2>4. step \in 1 .. Len(Steps) + 1
    BY <2>3 DEF TargetRight, UnitsRight
  <2>5. step \in Nat
    BY <2>2, <2>4
  <2>6. /\ units \in Seq(UnitSet) /\ \A i \in DOMAIN units : Unsplit(units[i])
        /\ DOMAIN units = 1 .. Len(units) /\ Len(units) \in Nat /\ next \in 1 .. Len(units) + 1
    BY <1>1, <2>3, UnitsAre DEF TargetRight
  <2>7. NoPair(units, Comparable)
    BY <2>3, <2>6, NoPairOfUnits DEF TargetRight, Apart
  <2> QED BY <2>1, <2>2, <2>5, <2>6, <2>7
<1> QED BY <1>1, <1>2, <1>3, <1>4

\* A step of a target is right if it leaves the units right.
LEMMA StepInTarget ==
    ASSUME WorkflowInv, Running, UNCHANGED <<form, rules, target, store, refusals, verdict, seen>>,
           UnitsRight(Steps, step', next', units', UNION seen), Apart(units', passed'),
           Covered(units', passed')
    PROVE  WorkflowInv'
<1>1. form' = form
  OBVIOUS
<1>2. Steps' = Steps /\ Known' = Known
  BY DEF Steps, Known
<1>3. UnitsRight(Steps, step, next, units, UNION seen)'
  BY <1>1, <1>2, SameForm
<1>4. Covered(units, passed)'
  BY <1>1, SameForm
<1>5. TargetRight'
  BY <1>3, <1>4 DEF TargetRight
<1>6. TargetsSaid' <=> TargetsSaid
  BY <1>1, <1>2, SameForm DEF TargetsSaid
<1>7. verdict = "none" /\ VerdictOfEachRecord'
  BY DEF VerdictOfEachRecord, Running
<1> QED BY <1>5, <1>6, <1>7 DEF WorkflowInv

LEMMA SplitStep == ASSUME WorkflowInv, RunSplit PROVE WorkflowInv'
<1>1. Running /\ Steps[step].action \in Splits /\ step <= Len(Steps) /\ units' = Split(Steps[step], units)
      /\ step' = step + 1 /\ UNCHANGED <<form, rules, target, next, store, refusals, verdict, passed, seen>>
  BY DEF RunSplit, InStep
<1>2. TargetRight
  BY <1>1 DEF WorkflowInv
<1>3. /\ form \in Documents /\ Steps \in Seq(StepSet) /\ ValidateTarget(Steps) /\ units \in Seq(UnitSet)
      /\ step \in Nat /\ \A i \in DOMAIN units : Unsplit(units[i])
  BY <1>1, InTarget
<1>4. NoPair(units, Comparable)
  BY <1>1, InTarget
<1>5. step \in DOMAIN Steps
  BY <1>1, <1>2, <1>3 DEF TargetRight, UnitsRight
<1>6. Steps[step].action \in Splits
  BY <1>1
<1>7. PICK b : b = UNION seen
  OBVIOUS
<1>8. UnitsRight(Steps, step, next, units, b)
  BY <1>2, <1>7 DEF TargetRight
<1>9. PICK s : s = Steps[step]
  OBVIOUS
<1>10. UnitsRight(Steps, step + 1, next, Split(Steps[step], units), b)
  <2>1. form \in Documents /\ Steps \in Seq(StepSet) /\ ValidateTarget(Steps)
    BY <1>3
  <2> QED BY <2>1, <1>4, <1>5, <1>6, <1>8, UnitsAfterSplit
<1>11. Apart(Split(Steps[step], units), passed)
  BY <1>2, <1>3, ApartAfterSplit DEF TargetRight
<1>12. Covered(Split(Steps[step], units), passed)
  <2>1. form \in Documents /\ Covered(units, passed)
    BY <1>2, <1>3 DEF TargetRight
  <2>2. s.action \in Splits
    BY <1>6, <1>9
  <2>3. Covered(Split(s, units), passed)
    BY <2>1, <2>2, <1>4, <1>8, CoveredAfterSplit
  <2> QED BY <2>3, <1>9
<1> QED BY <1>1, <1>7, <1>10, <1>11, <1>12, StepInTarget

\* What is so when a step looks at the next unit.
LEMMA InCheck ==
    ASSUME WorkflowInv, Checks, next <= Len(units)
    PROVE  /\ Running /\ form \in Documents /\ Steps \in Seq(StepSet) /\ step \in Nat /\ next \in Nat
           /\ units \in Seq(UnitSet) /\ next \in DOMAIN units /\ IsCheck(Steps, step)
           /\ UnitsRight(Steps, step, next, units, UNION seen) /\ Apart(units, passed) /\ Covered(units, passed)
<1>1. Running /\ step <= Len(Steps) /\ Steps[step].action \notin Splits
  BY DEF Checks, InStep
<1>2. UnitsRight(Steps, step, next, units, UNION seen) /\ Apart(units, passed) /\ Covered(units, passed)
  BY <1>1 DEF WorkflowInv, TargetRight
<1>3. /\ form \in Documents /\ Steps \in Seq(StepSet) /\ step \in Nat /\ next \in Nat
      /\ units \in Seq(UnitSet) /\ DOMAIN units = 1 .. Len(units) /\ Len(units) \in Nat
  BY <1>1, InTarget
<1>4. step \in 1 .. Len(Steps) + 1 /\ next \in 1 .. Len(units) + 1
  BY <1>2 DEF UnitsRight
<1>5. IsCheck(Steps, step)
  BY <1>1, <1>3, <1>4 DEF IsCheck
<1>6. next \in DOMAIN units
  BY <1>3, <1>4
<1> QED BY <1>1, <1>2, <1>3, <1>5, <1>6

LEMMA KeepStep == ASSUME WorkflowInv, RunKeep PROVE WorkflowInv'
<1>1. /\ Checks /\ next <= Len(units) /\ ResultOfNext \in {"go_on", "commit"}
      /\ units' = Kept(units, next, ResultOfNext) /\ next' = next + 1 /\ step' = step /\ passed' = passed
      /\ UNCHANGED <<form, rules, target, store, refusals, verdict, seen>>
  BY DEF RunKeep, Kept
<1>2. /\ Running /\ form \in Documents /\ next \in Nat /\ units \in Seq(UnitSet) /\ next \in DOMAIN units
      /\ IsCheck(Steps, step) /\ UnitsRight(Steps, step, next, units, UNION seen)
      /\ Apart(units, passed) /\ Covered(units, passed)
  BY <1>1, InCheck
<1>3. PICK b : b = UNION seen
  OBVIOUS
<1>4. PICK r : r = ResultOfNext
  OBVIOUS
<1>5. PICK now : now = Kept(units, next, r)
  OBVIOUS
<1>6. UnitsRight(Steps, step, next, units, b) /\ r \in {"go_on", "commit"}
  BY <1>1, <1>2, <1>3, <1>4
<1>7. store \subseteq b
  BY <1>3, InTarget
<1>8. r = Outcome(Steps[step], units[next], store)
  BY <1>4 DEF ResultOfNext
<1>9. /\ UnitsRight(Steps, step, next + 1, now, b)
      /\ DOMAIN now = DOMAIN units /\ \A i \in DOMAIN units : now[i].label = units[i].label
  <2>1. form \in Documents /\ next \in Nat /\ units \in Seq(UnitSet) /\ next \in DOMAIN units
        /\ IsCheck(Steps, step)
    BY <1>2
  <2> QED BY <2>1, <1>5, <1>6, <1>7, <1>8, UnitsAfterKeep
<1>10. Apart(now, passed) /\ Covered(now, passed)
  <2>1. Apart(units, passed) /\ Covered(units, passed)
    BY <1>2
  <2> QED BY <2>1, <1>9, CoverAfterKeep
<1>11. units' = now
  BY <1>1, <1>4, <1>5
<1> QED BY <1>1, <1>2, <1>3, <1>9, <1>10, <1>11, StepInTarget

LEMMA PassStep == ASSUME WorkflowInv, RunPass PROVE WorkflowInv'
<1>1. /\ Checks /\ next <= Len(units) /\ ResultOfNext = "pass"
      /\ units' = RemoveAt(units, next) /\ passed' = passed \cup {units[next].label}
      /\ UNCHANGED <<form, rules, target, step, next, store, refusals, verdict, seen>>
  BY DEF RunPass
<1>2. /\ Running /\ form \in Documents /\ next \in Nat /\ units \in Seq(UnitSet) /\ next \in DOMAIN units
      /\ IsCheck(Steps, step) /\ UnitsRight(Steps, step, next, units, UNION seen)
      /\ Apart(units, passed) /\ Covered(units, passed)
  BY <1>1, InCheck
<1>3. PICK b : b = UNION seen
  OBVIOUS
<1>4. PICK now : now = RemoveAt(units, next)
  OBVIOUS
<1>5. UnitsRight(Steps, step, next, units, b)
  BY <1>2, <1>3
<1>6. Outcome(Steps[step], units[next], store) = "pass"
  BY <1>1 DEF ResultOfNext
<1>7. form \in Documents /\ next \in Nat /\ units \in Seq(UnitSet) /\ next \in DOMAIN units
      /\ IsCheck(Steps, step)
  BY <1>2
<1>8. UnitsRight(Steps, step, next, now, b) /\ Without(units, next, now)
  BY <1>4, <1>5, <1>6, <1>7, UnitsAfterPass
<1>9. Apart(now, passed \cup {units[next].label}) /\ Covered(now, passed \cup {units[next].label})
  <2>1. Apart(units, passed) /\ Covered(units, passed)
    BY <1>2
  <2> QED BY <2>1, <1>7, <1>8, CoverAfterPass
<1> QED BY <1>1, <1>2, <1>3, <1>4, <1>8, <1>9, StepInTarget

LEMMA StepEnds == ASSUME WorkflowInv, NextStep PROVE WorkflowInv'
<1>1. /\ InStep /\ Running /\ step <= Len(Steps) /\ Steps[step].action \notin Splits
      /\ next > Len(units) /\ step' = step + 1 /\ next' = 1
      /\ UNCHANGED <<form, rules, target, units, store, refusals, verdict, passed, seen>>
  BY DEF NextStep, Checks, InStep
<1>2. UnitsRight(Steps, step, next, units, UNION seen) /\ Apart(units, passed) /\ Covered(units, passed)
  BY <1>1 DEF WorkflowInv, TargetRight
<1>3. /\ form \in Documents /\ Steps \in Seq(StepSet) /\ step \in Nat /\ next \in Nat
      /\ units \in Seq(UnitSet)
  BY <1>1, InTarget
<1>4. IsCheck(Steps, step)
  <2>1. step \in 1 .. Len(Steps) + 1
    BY <1>2 DEF UnitsRight
  <2> QED BY <1>1, <1>3, <2>1 DEF IsCheck
<1>5. PICK b : b = UNION seen
  OBVIOUS
<1>6. UnitsRight(Steps, step, next, units, b)
  BY <1>2, <1>5
<1>7. next > Len(units)
  BY <1>1
<1>8. UnitsRight(Steps, step + 1, 1, units, b)
  <2>1. form \in Documents /\ Steps \in Seq(StepSet) /\ next \in Nat /\ units \in Seq(UnitSet)
    BY <1>3
  <2> QED BY <2>1, <1>4, <1>6, <1>7, UnitsAfterStep
<1> QED BY <1>1, <1>2, <1>5, <1>8, StepInTarget

-----------------------------------------------------------------------------
(* The end of a target, the verdict, and a sync                             *)

\* A target begins with the whole document.
LEMMA TargetBegins ==
    ASSUME WorkflowInv, NextTarget, UNCHANGED <<form, rules, seen>>, Running'
    PROVE  TargetRight'
<1>1. /\ form' = form /\ rules' = rules /\ seen' = seen /\ target' = target + 1 /\ step' = 1 /\ next' = 1
      /\ units' = <<Whole>> /\ passed' = {}
  BY DEF NextTarget
<1>2. /\ form \in Documents /\ rules \in Seq(Seq(StepSet)) /\ Len(rules) \in Nat
      /\ DOMAIN rules = 1 .. Len(rules) /\ target \in 1 .. Len(rules) + 1
  BY InTarget
<1>3. target + 1 \in DOMAIN rules
  BY <1>1, <1>2 DEF Running
<1>4. PICK steps : steps = rules[target + 1]
  OBVIOUS
<1>5. steps \in Seq(StepSet) /\ Steps' = steps
  BY <1>1, <1>2, <1>3, <1>4 DEF Steps
<1>6. UnitsRight(steps, 1, 1, <<Whole>>, UNION seen)
  BY <1>2, <1>5, UnitsAtStart
<1>7. Apart(<<Whole>>, {}) /\ Covered(<<Whole>>, {})
  BY <1>2, CoveredAtStart
<1>8. UnitsRight(Steps, step, next, units, UNION seen)'
  BY <1>1, <1>5, <1>6, SameForm
<1>9. Covered(units, passed)'
  BY <1>1, <1>7, SameForm
<1>10. Apart(units, passed)'
  BY <1>1, <1>7
<1> QED BY <1>8, <1>9, <1>10 DEF TargetRight

LEMMA RefuseStep == ASSUME WorkflowInv, RunRefuse PROVE WorkflowInv'
<1>1. /\ Checks /\ next <= Len(units) /\ ResultOfNext = "refuse" /\ NextTarget /\ Running
      /\ refusals' = Append(refusals, [target |-> target, label |-> units[next].label])
      /\ form' = form /\ rules' = rules /\ store' = store /\ verdict' = verdict /\ seen' = seen
      /\ target' = target + 1 /\ verdict = "none"
  BY DEF RunRefuse, NextTarget, Checks, InStep, Running
<1>2. /\ form \in Documents /\ Steps \in Seq(StepSet) /\ units \in Seq(UnitSet) /\ next \in DOMAIN units
      /\ IsCheck(Steps, step) /\ UnitsRight(Steps, step, next, units, UNION seen)
  BY <1>1, InCheck
<1>3. /\ Len(rules) \in Nat /\ DOMAIN rules = 1 .. Len(rules) /\ target \in DOMAIN rules
      /\ Known \subseteq store
  BY <1>1, InTarget
<1>4. Outcome(Steps[step], units[next], store) = "refuse"
  BY <1>1 DEF ResultOfNext
<1>5. ~Accepts(Steps, Known)
  <2>1. PICK b : b = UNION seen
    OBVIOUS
  <2>2. UnitsRight(Steps, step, next, units, b)
    BY <1>2, <2>1
  <2>3. IsCheck(Steps, step) /\ next \in DOMAIN units
    BY <1>2
  <2> QED BY <2>2, <2>3, <1>3, <1>4, RefusedIsRight
<1>6. refusals' \in Seq([target : Nat, label : Seq(Nat)]) /\ refusals' # <<>>
  <2>1. units[next] \in UnitSet
    BY <1>2
  <2>2. units[next].label \in Seq(Nat) /\ target \in Nat
    BY <1>3, <2>1 DEF UnitSet
  <2>3. [target |-> target, label |-> units[next].label] \in [target : Nat, label : Seq(Nat)]
    BY <2>2
  <2>4. refusals \in Seq([target : Nat, label : Seq(Nat)])
    BY DEF WorkflowInv
  <2> QED BY <1>1, <2>3, <2>4
<1>7. Known' = Known
  BY <1>1 DEF Known
<1>8. TargetsSaid'
  <2>1. target \in 1 .. target' - 1
    BY <1>1, <1>3
  <2>2. \E t \in 1 .. target' - 1 : ~Accepts(rules[t], Known)'
    BY <1>1, <1>5, <1>7, <2>1, SameForm DEF Steps
  <2> QED BY <1>6, <2>2 DEF TargetsSaid
<1>9. Running' => TargetRight'
  BY <1>1, TargetBegins
<1>10. target' \in 1 .. Len(rules') + 1
  BY <1>1, <1>3
<1> QED BY <1>1, <1>6, <1>8, <1>9, <1>10 DEF WorkflowInv, VerdictOfEachRecord

LEMMA AcceptStep == ASSUME WorkflowInv, TargetAccepts PROVE WorkflowInv'
<1>1. /\ Running /\ step > Len(Steps) /\ NextTarget /\ verdict = "none" /\ target' = target + 1
      /\ form' = form /\ rules' = rules /\ store' = store /\ refusals' = refusals
      /\ verdict' = verdict /\ seen' = seen
  BY DEF TargetAccepts, NextTarget, Running
<1>2. /\ Len(rules) \in Nat /\ DOMAIN rules = 1 .. Len(rules) /\ target \in DOMAIN rules
      /\ Steps \in Seq(StepSet) /\ step \in Nat
  BY <1>1, InTarget
<1>3. PICK b : b = UNION seen
  OBVIOUS
<1>4. UnitsRight(Steps, step, next, units, b)
  BY <1>1, <1>3 DEF WorkflowInv, TargetRight
<1>5. Accepts(Steps, b)
  <2>1. step > Len(Steps)
    BY <1>1
  <2> QED BY <1>2, <1>4, <2>1, AcceptsAtEnd
<1>6. TargetsSaid
  BY <1>1 DEF WorkflowInv
<1>7. Known' = Known
  BY <1>1 DEF Known
<1>8. TargetsSaid'
  <2>1. CASE refusals = <<>>
    <3>1. ASSUME NEW t \in 1 .. target PROVE Accepts(rules[t], UNION seen)
      <4>1. CASE t = target
        BY <1>3, <1>5, <4>1 DEF Steps
      <4>2. CASE t # target
        <5>1. t \in 1 .. target - 1
          BY <1>2, <4>2
        <5> QED BY <1>6, <2>1, <5>1 DEF TargetsSaid
      <4> QED BY <4>1, <4>2
    <3>2. target' - 1 = target
      BY <1>1, <1>2
    <3>3. \A t \in 1 .. target' - 1 : Accepts(rules[t], UNION seen)
      BY <3>1, <3>2
    <3>4. \A t \in 1 .. target' - 1 : Accepts(rules[t], UNION seen)'
      BY <1>1, <3>3, SameForm
    <3> QED BY <1>1, <2>1, <3>4 DEF TargetsSaid
  <2>2. CASE refusals # <<>>
    <3>1. PICK t \in 1 .. target - 1 : ~Accepts(rules[t], Known)
      BY <1>6, <2>2 DEF TargetsSaid
    <3>2. t \in 1 .. target' - 1
      BY <1>1, <1>2
    <3>3. ~Accepts(rules[t], Known)'
      BY <1>1, <1>7, <3>1, SameForm
    <3> QED BY <1>1, <2>2, <3>2, <3>3 DEF TargetsSaid
  <2> QED BY <2>1, <2>2
<1>9. Running' => TargetRight'
  BY <1>1, TargetBegins
<1>10. target' \in 1 .. Len(rules') + 1
  BY <1>1, <1>2
<1> QED BY <1>1, <1>8, <1>9, <1>10 DEF WorkflowInv, VerdictOfEachRecord

LEMMA DecideStep == ASSUME WorkflowInv, Decide PROVE WorkflowInv'
<1>1. /\ verdict = "none" /\ target > Len(rules)
      /\ verdict' = IF rules = <<>> \/ refusals # <<>> THEN "refuse" ELSE "accept"
      /\ form' = form /\ rules' = rules /\ target' = target /\ store' = store
      /\ refusals' = refusals /\ seen' = seen
  BY DEF Decide
<1>2. Len(rules) \in Nat /\ DOMAIN rules = 1 .. Len(rules) /\ target \in 1 .. Len(rules) + 1
  BY InTarget
<1>3. target - 1 = Len(rules)
  BY <1>1, <1>2
<1>4. TargetsSaid
  BY <1>1 DEF WorkflowInv
<1>5. PICK b : b = UNION seen
  OBVIOUS
<1>6. CASE rules = <<>> \/ refusals # <<>>
  <2>1. ~AllAccept(Known)
    <3>1. CASE rules = <<>>
      BY <3>1 DEF AllAccept
    <3>2. CASE refusals # <<>>
      BY <1>2, <1>3, <1>4, <3>2 DEF AllAccept, TargetsSaid
    <3> QED BY <1>6, <3>1, <3>2
  <2>2. ~AllAccept(Known)' /\ verdict' = "refuse"
    <3>1. Known' = Known
      BY <1>1 DEF Known
    <3> QED BY <1>1, <1>6, <2>1, <3>1, SameForm DEF AllAccept
  <2>3. VerdictOfEachRecord'
    BY <2>2 DEF VerdictOfEachRecord, Known
  <2> QED BY <1>1, <2>2, <2>3 DEF WorkflowInv, Running
<1>7. CASE rules # <<>> /\ refusals = <<>>
  <2>1. AllAccept(b)
    BY <1>2, <1>3, <1>4, <1>5, <1>7 DEF AllAccept, TargetsSaid
  <2>2. AllAccept(UNION seen)' /\ verdict' = "accept"
    BY <1>1, <1>5, <1>7, <2>1, SameForm DEF AllAccept
  <2>3. VerdictOfEachRecord'
    BY <2>2 DEF VerdictOfEachRecord
  <2> QED BY <1>1, <2>2, <2>3 DEF WorkflowInv, Running
<1> QED BY <1>6, <1>7

\* What a sync adds to the stores there have been neither refuses what they accept,
\* nor accepts what they refuse.
LEMMA StoreStep == ASSUME WorkflowInv, StoreReplaced PROVE WorkflowInv'
<1>1. /\ verdict = "none" /\ verdict' = verdict /\ form' = form /\ rules' = rules /\ target' = target
      /\ step' = step /\ next' = next /\ units' = units /\ refusals' = refusals /\ passed' = passed
      /\ seen' = seen \cup {store'}
  BY DEF StoreReplaced
<1>2. PICK b : b = UNION seen
  OBVIOUS
<1>3. PICK c : c = UNION (seen')
  OBVIOUS
<1>4. b \subseteq c /\ Known' \subseteq Known
  BY <1>1, <1>2, <1>3 DEF Known
<1>5. ASSUME Running' PROVE TargetRight'
  <2>1. Running
    BY <1>1, <1>5 DEF Running
  <2>2. UnitsRight(Steps, step, next, units, b) /\ Apart(units, passed) /\ Covered(units, passed)
    BY <1>2, <2>1 DEF WorkflowInv, TargetRight
  <2>3. UnitsRight(Steps, step, next, units, c)
    BY <1>4, <2>2, UnitsInStores
  <2>4. Steps' = Steps
    BY <1>1 DEF Steps
  <2>5. UnitsRight(Steps, step, next, units, UNION seen)'
    BY <1>1, <1>3, <2>3, <2>4, SameForm
  <2>6. Covered(units, passed)' /\ Apart(units, passed)'
    BY <1>1, <2>2, SameForm
  <2> QED BY <2>5, <2>6 DEF TargetRight
<1>6. TargetsSaid
  BY <1>1 DEF WorkflowInv
<1>7. TargetsSaid'
  <2>1. CASE refusals = <<>>
    <3>1. ASSUME NEW t \in 1 .. target - 1 PROVE Accepts(rules[t], c)
      <4>1. Accepts(rules[t], b)
        BY <1>2, <1>6, <2>1 DEF TargetsSaid
      <4> QED BY <1>4, <4>1, AcceptsInStores
    <3>2. \A t \in 1 .. target - 1 : Accepts(rules[t], UNION seen)'
      BY <1>1, <1>3, <3>1, SameForm
    <3> QED BY <1>1, <2>1, <3>2 DEF TargetsSaid
  <2>2. CASE refusals # <<>>
    <3>1. PICK t \in 1 .. target - 1 : ~Accepts(rules[t], Known)
      BY <1>6, <2>2 DEF TargetsSaid
    <3>2. PICK k : k = Known'
      OBVIOUS
    <3>3. ~Accepts(rules[t], k)
      BY <1>4, <3>1, <3>2, AcceptsInStores
    <3>4. ~Accepts(rules[t], Known)'
      BY <1>1, <3>2, <3>3, SameForm
    <3> QED BY <1>1, <2>2, <3>1, <3>4 DEF TargetsSaid
  <2> QED BY <2>1, <2>2
<1> QED BY <1>1, <1>5, <1>7 DEF WorkflowInv, VerdictOfEachRecord

LEMMA WorkflowInvAtFirst == WorkflowInit => WorkflowInv
<1> SUFFICES ASSUME WorkflowInit PROVE WorkflowInv
  OBVIOUS
<1>1. /\ form \in Documents /\ rules \in RuleFiles /\ \A t \in DOMAIN rules : ValidateTarget(rules[t])
      /\ target = 1 /\ step = 1 /\ next = 1 /\ units = <<Whole>> /\ refusals = <<>> /\ verdict = "none"
      /\ passed = {} /\ seen = {store}
  BY DEF WorkflowInit
<1>2. rules \in Seq(Seq(StepSet))
  BY <1>1, WorkflowAssumption DEF StepSet
<1>3. Len(rules) \in Nat /\ DOMAIN rules = 1 .. Len(rules)
  BY <1>2
<1>4. ASSUME Running PROVE TargetRight
  <2>1. 1 \in DOMAIN rules
    BY <1>1, <1>3, <1>4 DEF Running
  <2>2. Steps \in Seq(StepSet)
    BY <1>1, <1>2, <2>1 DEF Steps
  <2>3. UnitsRight(Steps, 1, 1, <<Whole>>, UNION seen)
    BY <1>1, <2>2, UnitsAtStart
  <2>4. Apart(<<Whole>>, {}) /\ Covered(<<Whole>>, {})
    BY <1>1, CoveredAtStart
  <2> QED BY <1>1, <2>3, <2>4 DEF TargetRight
<1>5. TargetsSaid
  BY <1>1 DEF TargetsSaid
<1> QED BY <1>1, <1>3, <1>4, <1>5 DEF WorkflowInv, VerdictOfEachRecord

LEMMA WorkflowInvStep == WorkflowInv /\ [WorkflowNext]_workflowVars => WorkflowInv'
<1> SUFFICES ASSUME WorkflowInv, [WorkflowNext]_workflowVars PROVE WorkflowInv'
  OBVIOUS
<1>1. CASE RunSplit
  BY <1>1, SplitStep
<1>2. CASE RunKeep
  BY <1>2, KeepStep
<1>3. CASE RunPass
  BY <1>3, PassStep
<1>4. CASE RunRefuse
  BY <1>4, RefuseStep
<1>5. CASE NextStep
  BY <1>5, StepEnds
<1>6. CASE TargetAccepts
  BY <1>6, AcceptStep
<1>7. CASE Decide
  BY <1>7, DecideStep
<1>8. CASE StoreReplaced
  BY <1>8, StoreStep
<1>9. CASE UNCHANGED workflowVars
  <2>1. /\ form' = form /\ rules' = rules /\ target' = target /\ step' = step /\ next' = next
        /\ units' = units /\ store' = store /\ refusals' = refusals /\ verdict' = verdict
        /\ passed' = passed /\ seen' = seen
    BY <1>9 DEF workflowVars
  <2>2. Running' <=> Running
    BY <2>1 DEF Running
  <2>3. Steps' = Steps /\ Known' = Known
    BY <2>1 DEF Steps, Known
  <2>4. TargetRight' <=> TargetRight
    BY <2>1, <2>3, SameForm DEF TargetRight, Apart
  <2>5. TargetsSaid' <=> TargetsSaid
    BY <2>1, <2>3, SameForm DEF TargetsSaid
  <2>6. VerdictOfEachRecord' <=> VerdictOfEachRecord
    <3>1. AllAccept(UNION seen)' <=> AllAccept(UNION seen)
      BY <2>1, SameForm DEF AllAccept
    <3>2. AllAccept(Known)' <=> AllAccept(Known)
      BY <2>1, <2>3, SameForm DEF AllAccept
    <3> QED BY <2>1, <3>1, <3>2 DEF VerdictOfEachRecord, Known
  <2> QED BY <2>1, <2>2, <2>4, <2>5, <2>6 DEF WorkflowInv
<1> QED BY <1>1, <1>2, <1>3, <1>4, <1>5, <1>6, <1>7, <1>8, <1>9 DEF WorkflowNext

\* Evaluate and runTargetWorkflow: what a target has said of the records it has looked
\* at, and which records are still before it, is right after every step, for every
\* document and every valid file of rules, whatever the syncs store meanwhile.
THEOREM WorkflowKeepsInv == WorkflowSpec => []WorkflowInv
BY WorkflowInvAtFirst, WorkflowInvStep, PTL DEF WorkflowSpec

\* Evaluate: a document is accepted only if each of its records is, by some store there
\* was meanwhile, and refused only if some record is, by one of them. No record's verdict
\* depends on another's.
THEOREM EachRecordAlone == WorkflowSpec => []VerdictOfEachRecord
<1>1. WorkflowInv => VerdictOfEachRecord
  BY DEF WorkflowInv
<1> QED BY <1>1, WorkflowKeepsInv, PTL

\* runTargetWorkflow: however splits, passes and commits alternate, every part of the
\* document is covered by exactly one record that is kept or was passed.
THEOREM NoPartSlipsThrough == WorkflowSpec => []NothingSlipsThrough
<1>1. WorkflowInv => NothingSlipsThrough
  <2> SUFFICES ASSUME WorkflowInv, verdict = "none", target <= Len(rules), NEW p \in Parts
               PROVE  Cardinality({l \in {u.label : u \in ToSet(units)} \cup passed : IsPrefix(l, p)}) = 1
    BY DEF NothingSlipsThrough
  <2>1. Running
    BY DEF Running
  <2>2. form \in Documents /\ units \in Seq(UnitSet)
    BY <2>1, InTarget
  <2>3. Apart(units, passed) /\ Covered(units, passed)
    BY <2>1 DEF WorkflowInv, TargetRight
  <2> QED BY <2>2, <2>3, CoveredOnce
<1> QED BY <1>1, WorkflowKeepsInv, PTL

\* The types, while a target runs from the invariant, and after it from what a target
\* leaves behind.
LEMMA TypesKept ==
    ASSUME WorkflowTypeOK, WorkflowInv, WorkflowInv', WorkflowNext
    PROVE  WorkflowTypeOK'
<1>1. /\ form' \in Documents /\ rules' \in RuleFiles /\ target' \in 1 .. Len(rules') + 1
      /\ verdict' \in {"none", "accept", "refuse"} /\ store' \in seen'
      /\ form' = form /\ rules' = rules
  BY DEF WorkflowInv, WorkflowNext, RunSplit, RunKeep, RunPass, RunRefuse, NextStep, TargetAccepts,
         Decide, StoreReplaced
<1>2. seen' \subseteq Stores
  BY DEF WorkflowTypeOK, WorkflowNext, RunSplit, RunKeep, RunPass, RunRefuse, NextStep, TargetAccepts,
         Decide, StoreReplaced
<1>3. refusals' \in Seq([target : DOMAIN rules, label : Seq(Nat)])
  <2>1. CASE RunRefuse
    <3>1. Checks /\ next <= Len(units) /\ Running
      BY <2>1 DEF RunRefuse, Checks, InStep
    <3>2. target \in DOMAIN rules
      BY <3>1, InTarget
    <3>3. units[next] \in UnitSet
      BY <3>1, InCheck
    <3>4. [target |-> target, label |-> units[next].label] \in [target : DOMAIN rules, label : Seq(Nat)]
      BY <3>2, <3>3 DEF UnitSet
    <3> QED BY <2>1, <3>4 DEF RunRefuse, WorkflowTypeOK
  <2>2. CASE ~RunRefuse
    BY <2>2 DEF WorkflowTypeOK, WorkflowNext, RunSplit, RunKeep, RunPass, NextStep, TargetAccepts,
                Decide, StoreReplaced
  <2> QED BY <2>1, <2>2
<1>4. /\ step' \in Nat \ {0} /\ next' \in Nat \ {0} /\ units' \in Seq(UnitSet) /\ passed' \subseteq Seq(Nat)
  <2>1. CASE Running'
    <3>1. UnitsRight(Steps, step, next, units, UNION seen)' /\ Apart(units, passed)'
      BY <2>1 DEF WorkflowInv, TargetRight
    <3>2. step' \in 1 .. Len(Steps') + 1 /\ next' \in 1 .. Len(units') + 1 /\ units' \in Seq(UnitSet)
      BY <3>1 DEF UnitsRight
    <3>3. step' \in Nat
      BY <2>1, <3>2 DEF WorkflowTypeOK, WorkflowNext, RunSplit, RunKeep, RunPass, RunRefuse, NextStep,
                        NextTarget, TargetAccepts, Decide, StoreReplaced
    <3>4. passed' \subseteq Seq(Nat)
      BY <3>1 DEF Apart
    <3> QED BY <3>2, <3>3, <3>4
  <2>2. CASE ~Running' /\ NextTarget
    <3>1. Whole \in UnitSet
      BY WholeRecord DEF WorkflowTypeOK
    <3> QED BY <2>2, <3>1 DEF NextTarget
  <2>3. CASE ~Running' /\ ~NextTarget
    BY <2>3 DEF WorkflowTypeOK, Running, WorkflowNext, RunSplit, RunKeep, RunPass, RunRefuse, NextStep,
                TargetAccepts, Decide, StoreReplaced, Checks, InStep
  <2> QED BY <2>1, <2>2, <2>3
<1> QED BY <1>1, <1>2, <1>3, <1>4 DEF WorkflowTypeOK

\* The types of the state of an evaluation: units are records, at every step of every target,
\* and each refusal names a target and a record.
THEOREM WorkflowTypesCorrect == WorkflowSpec => []WorkflowTypeOK
<1>1. WorkflowInit => WorkflowTypeOK
  <2> SUFFICES ASSUME WorkflowInit PROVE WorkflowTypeOK
    OBVIOUS
  <2>1. WorkflowInv /\ Whole \in UnitSet
    BY WorkflowInvAtFirst, WholeRecord DEF WorkflowInit
  <2> QED BY <2>1 DEF WorkflowInit, WorkflowTypeOK, WorkflowInv
<1>2. WorkflowTypeOK /\ WorkflowInv /\ WorkflowInv' /\ [WorkflowNext]_workflowVars => WorkflowTypeOK'
  BY TypesKept DEF workflowVars, WorkflowTypeOK
<1> QED BY <1>1, <1>2, WorkflowKeepsInv, PTL DEF WorkflowSpec

-----------------------------------------------------------------------------
(* The match with the budget                                                *)

\* The branch b begins with the nodes that were matched.
BeginsWithPath(b) == Len(path) <= Len(b) /\ \A k \in DOMAIN path : b[k] = path[k]

\* What the match has gone down to, and why: each of its nodes is led to by the field of
\* some node of its layer; and a branch that all fields lead down begins with them.
Led(b, k) == \E m \in LayerOf(b, k) : LeadsBy(m, b[k], LayerOf(b, k))
Reached ==
    /\ tree \in Trees /\ tree # {}
    /\ path \in Seq(BudgetNodes)
    /\ IF path = <<>> THEN current = tree
       ELSE path \in Branches /\ GoesDown(path) /\ current = path[Len(path)].kids
    /\ answer = "none" => current # {}
    /\ answer = "match" => path # <<>> /\ current = {}
    /\ \A k \in DOMAIN path : Led(path, k)
    /\ \A b \in Branches : MustLeadDown(b) => BeginsWithPath(b)

MatchInv ==
    /\ tree \in Trees \cup {NoTree}
    /\ fields \in [Dims -> Codes \cup {NoCode}]
    /\ path \in Seq(BudgetNodes)
    /\ failed \in BOOLEAN
    /\ answer \in {"none", "match", "not_synced", "empty_budget", "field_missing", "not_in_budget"}
    /\ current \subseteq BudgetNodes /\ IsLayer(current)
    /\ answer = "not_synced" => tree = NoTree
    /\ answer = "empty_budget" => tree = {}
    /\ answer \in {"none", "match"} => Reached
    /\ RefusalIsJustified

-----------------------------------------------------------------------------
(* The search for ancestors                                                 *)

\* The recursion of Ancestor has a solution: each round looks up the parent of what the
\* round before it has found.
LEMMA AncestorRounds ==
    ASSUME NEW c \in Codes \cup {NoCode}
    PROVE  /\ Ancestor[0][c] = c
           /\ \A k \in Nat : Ancestor[k + 1][c] =
                IF Ancestor[k][c] = NoCode THEN NoCode ELSE Parent[Ancestor[k][c]]
<1> DEFINE C == Codes \cup {NoCode}
           V == [C -> C]
           start == [x \in C |-> x]
           Up(f) == [x \in C |-> IF f[x] = NoCode THEN NoCode ELSE Parent[f[x]]]
           look(n) == [p \in (1 .. n) \X V |-> Up(p[2])]
           Rounds(f, n) == /\ f \in [0 .. n -> V] /\ f[0] = start
                           /\ \A k \in 1 .. n : f[k] = Up(f[k - 1])
<1>1. start \in V /\ \A f \in V : Up(f) \in V
  BY MatchAssumption
<1>2. ASSUME NEW n \in Nat PROVE \E f : Rounds(f, n)
  <2>1. look(n) \in [(1 .. n) \X V -> V]
    BY <1>1
  <2> HIDE DEF V, start
  <2>2. PICK f : Values(f, n, V, start, look(n))
    BY <1>1, <2>1, LoopHasValues
  <2>3. f \in [0 .. n -> V] /\ f[0] = start /\ \A k \in 1 .. n : f[k] = look(n)[<<k, f[k - 1]>>]
    BY <2>2 DEF Values
  <2>4. ASSUME NEW k \in 1 .. n PROVE f[k] = Up(f[k - 1])
    <3>1. k - 1 \in 0 .. n
      OBVIOUS
    <3>2. <<k, f[k - 1]>> \in (1 .. n) \X V
      BY <2>3, <3>1
    <3>3. look(n)[<<k, f[k - 1]>>] = Up(<<k, f[k - 1]>>[2])
      BY <3>2
    <3> QED BY <2>3, <3>3
  <2> QED BY <2>3, <2>4
<1> HIDE DEF V, start, Up
<1>3. ASSUME NEW m \in Nat, NEW n \in Nat, NEW f, NEW g, Rounds(f, m), Rounds(g, n), m <= n
      PROVE  \A k \in Nat : k <= m => f[k] = g[k]
  <2> DEFINE S == {k \in Nat : k <= m => f[k] = g[k]}
  <2>1. 0 \in S
    BY <1>3
  <2>2. ASSUME NEW k \in Nat, k \in S PROVE k + 1 \in S
    <3>1. SUFFICES ASSUME k + 1 <= m PROVE f[k + 1] = g[k + 1]
      OBVIOUS
    <3>2. k + 1 \in 1 .. m /\ k + 1 \in 1 .. n /\ k + 1 - 1 = k /\ k <= m
      BY <1>3, <3>1
    <3>3. f[k + 1] = Up(f[k]) /\ g[k + 1] = Up(g[k])
      BY <1>3, <3>2
    <3> QED BY <2>2, <3>2, <3>3
  <2> HIDE DEF S
  <2>3. \A k \in Nat : k \in S
    BY <2>1, <2>2, SetInduction
  <2> QED BY <2>3 DEF S
<1> DEFINE G(n) == CHOOSE f : Rounds(f, n)
           all == [n \in Nat |-> G(n)[n]]
<1>4. ASSUME NEW n \in Nat PROVE Rounds(G(n), n)
  BY <1>2
<1> HIDE DEF G
<1>5. all[0] = start
  <2>1. G(0)[0] = start
    BY <1>4
  <2> QED BY <2>1
<1>6. ASSUME NEW n \in Nat PROVE all[n + 1] = Up(all[n])
  <2>1. n + 1 \in Nat /\ n + 1 \in 1 .. n + 1 /\ n + 1 - 1 = n /\ n <= n + 1 /\ n <= n
    OBVIOUS
  <2>2. Rounds(G(n + 1), n + 1) /\ Rounds(G(n), n)
    BY <1>4, <2>1
  <2>3. G(n + 1)[n + 1] = Up(G(n + 1)[n])
    BY <2>1, <2>2
  <2> HIDE DEF Rounds
  <2>4. G(n)[n] = G(n + 1)[n]
    BY <1>3, <2>1, <2>2
  <2>5. all[n] = G(n)[n] /\ all[n + 1] = G(n + 1)[n + 1]
    BY <2>1
  <2> HIDE DEF all
  <2> QED BY <2>3, <2>4, <2>5
<1> DEFINE Round(f) == [k \in Nat |-> [x \in C |->
                          IF k = 0 THEN x
                          ELSE LET below == f[k - 1][x]
                               IN  IF below = NoCode THEN NoCode ELSE Parent[below]]]
<1>7. all = Round(all)
  <2> HIDE DEF all
  <2>1. ASSUME NEW k \in Nat PROVE all[k] = Round(all)[k]
    <3>1. CASE k = 0
      BY <1>5, <3>1 DEF start
    <3>2. CASE k # 0
      <4>1. k - 1 \in Nat /\ k - 1 + 1 = k
        BY <3>2
      <4>2. all[k] = Up(all[k - 1])
        BY <1>6, <4>1
      <4> QED BY <3>2, <4>2 DEF Up
    <3> QED BY <3>1, <3>2
  <2>2. all = [k \in Nat |-> all[k]]
    BY DEF all
  <2> HIDE DEF Round
  <2>3. Round(all) = [k \in Nat |-> Round(all)[k]]
    BY DEF Round
  <2> QED BY <2>1, <2>2, <2>3
<1>8. Ancestor = CHOOSE f : f = Round(f)
  BY DEF Ancestor
<1>9. Ancestor = Round(Ancestor)
  <2> HIDE DEF all, Round
  <2>1. \E f : f = Round(f)
    BY <1>7
  <2> QED BY <1>8, <2>1
<1>10. c \in C
  OBVIOUS
<1>11. Ancestor[0][c] = c
  BY <1>9, <1>10
<1>12. ASSUME NEW k \in Nat
       PROVE  Ancestor[k + 1][c] = IF Ancestor[k][c] = NoCode THEN NoCode ELSE Parent[Ancestor[k][c]]
  <2>1. k + 1 \in Nat /\ k + 1 # 0 /\ k + 1 - 1 = k
    OBVIOUS
  <2>2. Ancestor[k + 1] = Round(Ancestor)[k + 1]
    BY <1>9
  <2> HIDE DEF C
  <2> QED BY <1>10, <2>1, <2>2
<1> QED BY <1>11, <1>12

LEMMA NearestIs ==
    ASSUME NEW code, NEW set
    PROVE  \/ /\ NearestInTree(code, set) = NoCode
              /\ \A k \in 0 .. MaxLevels - 1 : Ancestor[k][code] \notin set
           \/ \E k \in 0 .. MaxLevels - 1 :
                /\ NearestInTree(code, set) = Ancestor[k][code] /\ Ancestor[k][code] \in set
                /\ \A j \in 0 .. MaxLevels - 1 : j < k => Ancestor[j][code] \notin set
<1> DEFINE rounds == {k \in 0 .. MaxLevels - 1 : Ancestor[k][code] \in set}
<1>1. MaxLevels \in Nat
  BY MatchAssumption
<1>2. CASE rounds = {}
  BY <1>2 DEF NearestInTree
<1>3. CASE rounds # {}
  <2>1. rounds \subseteq Nat
    BY <1>1
  <2>2. \E m \in rounds : \A k \in rounds : m <= k
    BY <1>3, <2>1, LeastElement
  <2>3. Min(rounds) \in rounds /\ \A k \in rounds : Min(rounds) <= k
    BY <2>2 DEF Min
  <2>4. PICK m : m = Min(rounds)
    OBVIOUS
  <2>5. NearestInTree(code, set) = Ancestor[m][code]
    BY <1>3, <2>4 DEF NearestInTree
  <2>6. m \in 0 .. MaxLevels - 1 /\ Ancestor[m][code] \in set
    BY <2>3, <2>4
  <2>7. ASSUME NEW j \in 0 .. MaxLevels - 1, j < m PROVE Ancestor[j][code] \notin set
    BY <1>1, <2>3, <2>4, <2>6, <2>7
  <2> QED BY <2>5, <2>6, <2>7
<1> QED BY <1>2, <1>3

\* A node that is above a field's value comes into sight when one looks far enough.
LEMMA InSight ==
    ASSUME NEW a, NEW code, NEW l \in 1 .. MaxLevels, NEW h \in 1 .. MaxLevels, l <= h, IsAbove(a, code, l)
    PROVE  IsAbove(a, code, h)
<1>1. MaxLevels \in Nat
  BY MatchAssumption
<1>2. PICK k \in 0 .. l - 1 : Ancestor[k][code] = a
  BY DEF IsAbove
<1>3. k \in 0 .. h - 1
  BY <1>1, <1>2
<1> QED BY <1>2, <1>3 DEF IsAbove

\* A field leads to one node of a layer at most.
LEMMA LeadsOnce ==
    ASSUME NEW layer, IsLayer(layer), NEW f, NEW m \in layer, NEW n \in layer,
           LeadsBy(f, m, layer), LeadsBy(f, n, layer)
    PROVE  m = n
<1>1. m.code = n.code => m = n
  BY DEF IsLayer
<1>2. CASE ~HasAncestors(f)
  BY <1>1, <1>2 DEF LeadsBy
<1>3. CASE HasAncestors(f)
  <2>1. PICK l \in 1 .. MaxLevels :
            /\ IsAbove(m.code, fields[f.dim], l)
            /\ \A x \in layer \ {m} : ~IsAbove(x.code, fields[f.dim], l)
    BY <1>3 DEF LeadsBy
  <2>2. PICK h \in 1 .. MaxLevels :
            /\ IsAbove(n.code, fields[f.dim], h)
            /\ \A x \in layer \ {n} : ~IsAbove(x.code, fields[f.dim], h)
    BY <1>3 DEF LeadsBy
  <2>3. CASE l <= h
    <3>1. IsAbove(m.code, fields[f.dim], h)
      BY <2>1, <2>3, InSight
    <3> QED BY <2>2, <3>1
  <2>4. CASE h <= l
    <3>1. IsAbove(n.code, fields[f.dim], l)
      BY <2>2, <2>4, InSight
    <3> QED BY <2>1, <3>1
  <2>5. l \in Nat /\ h \in Nat
    BY MatchAssumption
  <2> QED BY <2>3, <2>4, <2>5
<1> QED BY <1>2, <1>3

\* What the search finds for some node of the layer is what its field leads to.
LEMMA FoundLeads ==
    ASSUME IsLayer(current), NEW first \in current, fields[first.dim] # NoCode,
           NEW n \in current, n.code = Found(first)
    PROVE  LeadsBy(first, n, current)
<1> DEFINE value == fields[first.dim]
<1>1. /\ n.code \in Codes /\ NoCode \notin Codes
      /\ \A m \in current : m.code = n.code => m = n
      /\ \A m \in current : m.code \in LayerCodes
  BY MatchAssumption DEF IsLayer, LayerCodes
<1>2. CASE ~HasAncestors(first)
  BY <1>1, <1>2 DEF LeadsBy, Found
<1>3. CASE HasAncestors(first)
  <2>1. Found(first) = NearestInTree(value, LayerCodes)
    BY <1>3 DEF Found
  <2>2. PICK k \in 0 .. MaxLevels - 1 :
            /\ n.code = Ancestor[k][value]
            /\ \A j \in 0 .. MaxLevels - 1 : j < k => Ancestor[j][value] \notin LayerCodes
    BY <1>1, <2>1, NearestIs
  <2>3. MaxLevels \in Nat
    BY MatchAssumption
  <2> HIDE DEF value
  <2>4. k + 1 \in 1 .. MaxLevels /\ k \in 0 .. k + 1 - 1
    BY <2>3
  <2>5. IsAbove(n.code, value, k + 1)
    BY <2>2, <2>4 DEF IsAbove
  <2>6. ASSUME NEW m \in current \ {n}, IsAbove(m.code, value, k + 1) PROVE FALSE
    <3>1. PICK j \in 0 .. k + 1 - 1 : Ancestor[j][value] = m.code
      BY <2>6 DEF IsAbove
    <3>2. j \in 0 .. MaxLevels - 1 /\ (j < k \/ j = k)
      BY <2>3
    <3>3. m.code # n.code /\ m.code \in LayerCodes
      BY <1>1
    <3>4. CASE j < k
      BY <2>2, <3>1, <3>2, <3>3, <3>4
    <3>5. CASE j = k
      BY <2>2, <3>1, <3>3, <3>5
    <3> QED BY <3>2, <3>4, <3>5
  <2> QED BY <1>1, <1>3, <2>4, <2>5, <2>6 DEF LeadsBy, value
<1> QED BY <1>2, <1>3

\* A node that the match finds nothing by, or whose field is empty, leads nowhere.
LEMMA NothingLeads ==
    ASSUME IsLayer(current), NEW first \in current,
           fields[first.dim] = NoCode \/ Found(first) = NoCode, NEW n \in current
    PROVE  ~LeadsBy(first, n, current)
<1> DEFINE value == fields[first.dim]
<1>1. NoCode \notin LayerCodes /\ n.code \in LayerCodes
  BY MatchAssumption DEF IsLayer, LayerCodes
<1> SUFFICES ASSUME LeadsBy(first, n, current) PROVE FALSE
  OBVIOUS
<1>2. value # NoCode /\ Found(first) = NoCode
  BY <1>1 DEF LeadsBy
<1>3. CASE ~HasAncestors(first)
  BY <1>1, <1>2, <1>3 DEF LeadsBy, Found
<1>4. CASE HasAncestors(first)
  <2>1. NearestInTree(value, LayerCodes) = NoCode
    BY <1>2, <1>4 DEF Found
  <2>2. \A k \in 0 .. MaxLevels - 1 : Ancestor[k][value] \notin LayerCodes
    BY <1>1, <2>1, NearestIs
  <2>3. PICK l \in 1 .. MaxLevels : IsAbove(n.code, value, l)
    BY <1>1, <1>4 DEF LeadsBy
  <2>4. PICK k \in 0 .. l - 1 : Ancestor[k][value] = n.code
    BY <2>3 DEF IsAbove
  <2>5. MaxLevels \in Nat
    BY MatchAssumption
  <2>6. k \in 0 .. MaxLevels - 1
    BY <2>5
  <2> QED BY <1>1, <2>2, <2>4, <2>6
<1> QED BY <1>3, <1>4

-----------------------------------------------------------------------------
(* The invariant                                                            *)

LEMMA SameMatch ==
    ASSUME tree' = tree, fields' = fields
    PROVE  /\ \A b : GoesDown(b)' <=> GoesDown(b)
           /\ \A b, k : Led(b, k)' <=> Led(b, k)
           /\ \A b : MustLeadDown(b)' <=> MustLeadDown(b)
<1>1. \A b : GoesDown(b)' <=> GoesDown(b)
  BY DEF GoesDown
<1>2. \A m, n, layer : LeadsBy(m, n, layer)' <=> LeadsBy(m, n, layer)
  BY DEF LeadsBy
<1>3. \A b, k : LayerOf(b, k)' = LayerOf(b, k)
  BY DEF LayerOf
<1>4. \A b : MustLeadDown(b)' <=> MustLeadDown(b)
  BY <1>1, <1>2, <1>3 DEF MustLeadDown, ToTheBottom
<1>5. \A b, k : Led(b, k)' <=> Led(b, k)
  BY <1>2, <1>3 DEF Led
<1> QED BY <1>1, <1>4, <1>5

LEMMA BranchNodes ==
    /\ \A t \in Trees : IsLayer(t) /\ t \subseteq BudgetNodes
    /\ \A b \in Branches : /\ b \in Seq(BudgetNodes) /\ b # <<>> /\ Len(b) \in DOMAIN b
                           /\ IsLayer(b[Len(b)].kids) /\ b[Len(b)].kids \subseteq BudgetNodes
<1>1. \A b \in Branches : b \in Seq(BudgetNodes) /\ b # <<>>
  BY MatchAssumption
<1>2. ASSUME NEW b \in Branches PROVE \A k \in DOMAIN b : b[k] \in BudgetNodes
  BY <1>1
<1>3. ASSUME NEW t \in Trees, NEW n \in t PROVE n \in BudgetNodes
  <2>1. <<n>> \in Branches
    BY MatchAssumption
  <2> QED BY <1>2, <2>1
<1>4. ASSUME NEW b \in Branches PROVE Len(b) \in DOMAIN b /\ IsLayer(b[Len(b)].kids)
  <2>1. IsLayer(b[Len(b)].kids)
    BY MatchAssumption
  <2> QED BY <1>1, <2>1
<1>5. ASSUME NEW b \in Branches, NEW n \in b[Len(b)].kids PROVE n \in BudgetNodes
  <2>1. Append(b, n) \in Branches
    BY MatchAssumption
  <2>2. PICK c : c = Append(b, n)
    OBVIOUS
  <2>3. c \in Branches /\ b \in Seq(BudgetNodes)
    BY <1>1, <2>1, <2>2
  <2>4. Len(b) \in Nat /\ DOMAIN b = 1 .. Len(b)
    BY <2>3
  <2>5. Len(b) + 1 \in DOMAIN c /\ c[Len(b) + 1] = n
    BY <2>2, <2>4
  <2> QED BY <1>2, <2>3, <2>5
<1>6. \A t \in Trees : IsLayer(t)
  BY MatchAssumption
<1> QED BY <1>1, <1>3, <1>4, <1>5, <1>6

\* While the match goes on, a branch that all fields lead down has a node in the layer.
LEMMA NextOfBranch ==
    ASSUME Reached, answer = "none", NEW b \in Branches, MustLeadDown(b)
    PROVE  /\ Len(path) + 1 \in DOMAIN b /\ b[Len(path) + 1] \in current
           /\ \A m \in current : LeadsBy(m, b[Len(path) + 1], current)
<1>1. /\ path \in Seq(BudgetNodes) /\ Len(path) \in Nat /\ DOMAIN path = 1 .. Len(path)
      /\ current # {} /\ BeginsWithPath(b)
  BY DEF Reached
<1>2. b \in Seq(BudgetNodes) /\ b # <<>> /\ Len(b) \in Nat /\ DOMAIN b = 1 .. Len(b) /\ Len(b) \in 1 .. Len(b)
  BY BranchNodes
<1>3. Len(path) <= Len(b) /\ \A k \in 1 .. Len(path) : b[k] = path[k]
  BY <1>1 DEF BeginsWithPath
<1>4. Len(path) # Len(b)
  <2>1. SUFFICES ASSUME Len(path) = Len(b) PROVE FALSE
    OBVIOUS
  <2>2. path # <<>> /\ b[Len(b)] = path[Len(path)]
    BY <1>1, <1>2, <1>3, <2>1
  <2>3. current = b[Len(b)].kids
    BY <2>2 DEF Reached
  <2> QED BY <1>1, <2>3 DEF MustLeadDown, ToTheBottom
<1>5. Len(path) + 1 \in DOMAIN b
  <2>1. Len(path) \in Nat /\ Len(b) \in Nat /\ Len(path) <= Len(b)
    BY <1>1, <1>2, <1>3
  <2>2. Len(path) + 1 \in 1 .. Len(b)
    BY <1>4, <2>1
  <2> QED BY <1>2, <2>2
<1>6. LayerOf(b, Len(path) + 1) = current
  <2>1. CASE path = <<>>
    BY <1>1, <2>1 DEF Reached, LayerOf
  <2>2. CASE path # <<>>
    <3>1. Len(path) + 1 # 1 /\ Len(path) + 1 - 1 = Len(path) /\ Len(path) \in 1 .. Len(path)
      BY <1>1, <2>2
    <3>2. LayerOf(b, Len(path) + 1) = b[Len(path)].kids
      BY <3>1 DEF LayerOf
    <3> QED BY <1>3, <2>2, <3>1, <3>2 DEF Reached
  <2> QED BY <2>1, <2>2
<1>7. b[Len(path) + 1] \in LayerOf(b, Len(path) + 1)
  <2>1. CASE path = <<>>
    BY <1>1, <2>1 DEF MustLeadDown, ToTheBottom, GoesDown, LayerOf
  <2>2. CASE path # <<>>
    <3>1. Len(path) \in 1 .. Len(b) - 1 /\ Len(path) + 1 # 1 /\ Len(path) + 1 - 1 = Len(path)
      BY <1>1, <1>2, <1>5, <2>2
    <3> QED BY <3>1 DEF MustLeadDown, ToTheBottom, GoesDown, LayerOf
  <2> QED BY <2>1, <2>2
<1>8. \A m \in LayerOf(b, Len(path) + 1) :
        LeadsBy(m, b[Len(path) + 1], LayerOf(b, Len(path) + 1))
  BY <1>5 DEF MustLeadDown
<1> QED BY <1>5, <1>6, <1>7, <1>8

LEMMA MatchInvInit == MatchInit => MatchInv
<1> SUFFICES ASSUME MatchInit PROVE MatchInv
  OBVIOUS
<1>1. /\ tree \in Trees \cup {NoTree} /\ fields \in [Dims -> Codes \cup {NoCode}]
      /\ current = IF tree = NoTree THEN {} ELSE tree
      /\ answer = IF tree = NoTree THEN "not_synced" ELSE IF tree = {} THEN "empty_budget" ELSE "none"
      /\ path = <<>> /\ failed = FALSE
  BY DEF MatchInit
<1>2. path \in Seq(BudgetNodes) /\ Len(path) = 0 /\ DOMAIN path = {}
  BY <1>1
<1>3. current \subseteq BudgetNodes /\ IsLayer(current)
  <2>1. IsLayer({})
    BY DEF IsLayer
  <2> QED BY <1>1, <2>1, BranchNodes
<1>4. \A b \in Branches : BeginsWithPath(b)
  <2>1. \A b \in Branches : Len(b) \in Nat
    BY BranchNodes
  <2> QED BY <1>2, <2>1 DEF BeginsWithPath
<1>5. answer = "none" => Reached
  BY <1>1, <1>2, <1>4 DEF Reached
<1> QED BY <1>1, <1>2, <1>3, <1>5 DEF MatchInv, RefusalIsJustified, Refused

LEMMA LayerStep == ASSUME MatchInv, MatchLayer PROVE MatchInv'
<1>1. PICK first \in current, n \in current :
        /\ fields[first.dim] # NoCode /\ n.code = Found(first)
        /\ path' = Append(path, n) /\ current' = n.kids
        /\ answer' = IF n.kids = {} THEN "match" ELSE "none"
  BY DEF MatchLayer
<1>2. answer = "none" /\ tree' = tree /\ fields' = fields /\ failed' = failed
  BY DEF MatchLayer
<1>3. Reached /\ IsLayer(current) /\ current \subseteq BudgetNodes
  BY <1>2 DEF MatchInv
<1>4. /\ tree \in Trees /\ tree # {} /\ path \in Seq(BudgetNodes)
      /\ Len(path) \in Nat /\ DOMAIN path = 1 .. Len(path) /\ n \in BudgetNodes
  BY <1>3 DEF Reached
<1>5. PICK now : now = Append(path, n)
  OBVIOUS
<1>6. /\ now \in Seq(BudgetNodes) /\ Len(now) = Len(path) + 1 /\ now # <<>>
      /\ DOMAIN now = 1 .. Len(path) + 1
      /\ now[Len(path) + 1] = n /\ \A k \in DOMAIN path : now[k] = path[k]
  BY <1>4, <1>5
<1>7. now \in Branches
  <2>1. CASE path = <<>>
    <3>1. <<n>> \in Branches
      BY <1>3, <1>4, <2>1, MatchAssumption DEF Reached
    <3>2. Append(<<>>, n) = <<n>>
      OBVIOUS
    <3> QED BY <1>5, <2>1, <3>1, <3>2
  <2>2. CASE path # <<>>
    <3>1. path \in Branches /\ n \in path[Len(path)].kids
      BY <1>3, <2>2 DEF Reached
    <3> QED BY <1>5, <3>1, MatchAssumption
  <2> QED BY <2>1, <2>2
<1>8. GoesDown(now)
  <2>1. now[1] \in tree
    <3>1. CASE path = <<>>
      BY <1>3, <1>6, <3>1 DEF Reached
    <3>2. CASE path # <<>>
      <4>1. 1 \in DOMAIN path
        BY <1>4, <3>2
      <4> QED BY <1>3, <1>6, <3>2, <4>1 DEF Reached, GoesDown
    <3> QED BY <3>1, <3>2
  <2>2. ASSUME NEW k \in 1 .. Len(path) PROVE now[k + 1] \in now[k].kids
    <3>1. path # <<>> /\ k \in DOMAIN path
      BY <1>4
    <3>2. now[k] = path[k]
      BY <1>6, <3>1
    <3>3. CASE k = Len(path)
      BY <1>3, <1>6, <3>1, <3>2, <3>3 DEF Reached
    <3>4. CASE k # Len(path)
      <4>1. k \in 1 .. Len(path) - 1 /\ k + 1 \in DOMAIN path
        <5>1. k \in Nat /\ 1 <= k /\ k <= Len(path) /\ Len(path) \in Nat
          BY <1>4
        <5>2. k \in 1 .. Len(path) - 1 /\ k + 1 \in 1 .. Len(path)
          BY <3>4, <5>1
        <5> QED BY <1>4, <5>2
      <4>2. path[k + 1] \in path[k].kids
        BY <1>3, <3>1, <4>1 DEF Reached, GoesDown
      <4> QED BY <1>6, <3>2, <4>1, <4>2
    <3> QED BY <3>3, <3>4
  <2>3. Len(now) - 1 = Len(path)
    BY <1>4, <1>6
  <2> QED BY <2>1, <2>2, <2>3 DEF GoesDown
<1>9. Len(now) = Len(path) + 1 /\ now[Len(now)].kids = n.kids
  BY <1>6
<1>10. IsLayer(n.kids) /\ n.kids \subseteq BudgetNodes
  BY <1>7, <1>9, BranchNodes
<1>11. LeadsBy(first, n, current)
  BY <1>1, <1>3, FoundLeads
<1>12. LayerOf(now, Len(path) + 1) = current
  <2>1. CASE path = <<>>
    <3>1. Len(path) + 1 = 1
      BY <2>1
    <3> QED BY <1>3, <2>1, <3>1 DEF Reached, LayerOf
  <2>2. CASE path # <<>>
    <3>1. Len(path) + 1 # 1 /\ Len(path) + 1 - 1 = Len(path) /\ Len(path) \in DOMAIN path
      BY <1>4, <2>2
    <3>2. LayerOf(now, Len(path) + 1) = now[Len(path)].kids
      BY <3>1 DEF LayerOf
    <3> QED BY <1>3, <1>6, <2>2, <3>1, <3>2 DEF Reached
  <2> QED BY <2>1, <2>2
<1>13. ASSUME NEW k \in DOMAIN now PROVE Led(now, k)
  <2>1. CASE k = Len(path) + 1
    BY <1>6, <1>11, <1>12, <2>1 DEF Led
  <2>2. CASE k # Len(path) + 1
    <3>1. k \in DOMAIN path
      BY <1>4, <1>6, <2>2
    <3>2. Led(path, k)
      BY <1>3, <3>1 DEF Reached
    <3>3. LayerOf(now, k) = LayerOf(path, k)
      <4>1. CASE k = 1
        BY <4>1 DEF LayerOf
      <4>2. CASE k # 1
        <5>1. k - 1 \in DOMAIN path
          BY <1>4, <3>1, <4>2
        <5> QED BY <1>6, <4>2, <5>1 DEF LayerOf
      <4> QED BY <4>1, <4>2
    <3> QED BY <1>6, <3>1, <3>2, <3>3 DEF Led
  <2> QED BY <2>1, <2>2
<1>14. ASSUME NEW b \in Branches, MustLeadDown(b)
       PROVE  Len(now) <= Len(b) /\ \A k \in DOMAIN now : b[k] = now[k]
  <2>1. /\ Len(path) + 1 \in DOMAIN b /\ b[Len(path) + 1] \in current
        /\ LeadsBy(first, b[Len(path) + 1], current)
    BY <1>2, <1>3, <1>14, NextOfBranch
  <2>2. b[Len(path) + 1] = n
    BY <1>3, <1>11, <2>1, LeadsOnce
  <2>3. \A k \in DOMAIN path : b[k] = path[k]
    BY <1>3, <1>14 DEF Reached, BeginsWithPath
  <2>4. Len(now) <= Len(b)
    <3>1. b \in Seq(BudgetNodes)
      BY BranchNodes
    <3> QED BY <1>4, <1>6, <2>1, <3>1
  <2>5. ASSUME NEW k \in DOMAIN now PROVE b[k] = now[k]
    <3>1. k = Len(path) + 1 \/ k \in DOMAIN path
      BY <1>4, <1>6
    <3> QED BY <1>6, <2>2, <2>3, <3>1
  <2> QED BY <2>4, <2>5
<1>15. path' = now
  BY <1>1, <1>5
<1>16. Reached'
  <2>1. tree' \in Trees /\ tree' # {} /\ path' \in Seq(BudgetNodes)
    BY <1>2, <1>4, <1>6, <1>15
  <2>2. path' # <<>> /\ path' \in Branches /\ current' = path'[Len(path')].kids
    BY <1>1, <1>6, <1>7, <1>9, <1>15
  <2>3. GoesDown(path)'
    BY <1>2, <1>8, <1>15, SameMatch
  <2>4. (answer' = "none" => current' # {}) /\ (answer' = "match" => current' = {})
    BY <1>1
  <2>5. (\A k \in DOMAIN path : Led(path, k))'
    BY <1>2, <1>15, <1>13, SameMatch
  <2>6. (\A b \in Branches : MustLeadDown(b) => BeginsWithPath(b))'
    BY <1>2, <1>15, <1>14, SameMatch DEF BeginsWithPath
  <2> QED BY <2>1, <2>2, <2>3, <2>4, <2>5, <2>6 DEF Reached
<1>17. answer' \in {"none", "match"}
  BY <1>1
<1>18. /\ tree' \in Trees \cup {NoTree} /\ fields' \in [Dims -> Codes \cup {NoCode}] /\ failed' \in BOOLEAN
       /\ path' \in Seq(BudgetNodes) /\ current' \subseteq BudgetNodes /\ IsLayer(current')
  BY <1>1, <1>2, <1>6, <1>10, <1>15 DEF MatchInv
<1>19. answer' # "not_synced" /\ answer' # "empty_budget" /\ RefusalIsJustified'
  BY <1>17 DEF RefusalIsJustified, Refused
<1> QED BY <1>16, <1>17, <1>18, <1>19 DEF MatchInv

\* A refusal leaves everything but the answer, and says that no branch leads down.
LEMMA RefusedStep ==
    ASSUME MatchInv, answer = "none", UNCHANGED <<tree, fields, current, path>>,
           answer' \in {"field_missing", "not_in_budget"}, failed' \in BOOLEAN,
           ~failed' => \E m \in current : \A n \in current : ~LeadsBy(m, n, current)
    PROVE  MatchInv'
<1>1. Reached
  BY DEF MatchInv
<1>2. RefusalIsJustified'
  <2>1. ASSUME ~failed', NEW b \in Branches, MustLeadDown(b) PROVE FALSE
    <3>1. PICK m \in current : \A n \in current : ~LeadsBy(m, n, current)
      BY <2>1
    <3> QED BY <1>1, <2>1, <3>1, NextOfBranch
  <2> QED BY <2>1, SameMatch DEF RefusalIsJustified
<1> QED BY <1>2 DEF MatchInv

LEMMA MatchInvStep == MatchInv /\ [MatchNext]_matchVars => MatchInv'
<1> SUFFICES ASSUME MatchInv, [MatchNext]_matchVars PROVE MatchInv'
  OBVIOUS
<1>1. CASE MatchLayer
  BY <1>1, LayerStep
<1>2. IsLayer(current)
  BY DEF MatchInv
<1>3. CASE FieldMissing
  <2>1. PICK first \in current : fields[first.dim] = NoCode
    BY <1>3 DEF FieldMissing
  <2>2. /\ answer = "none" /\ answer' = "field_missing" /\ failed' = failed
        /\ UNCHANGED <<tree, fields, current, path>>
    BY <1>3 DEF FieldMissing
  <2>3. \A n \in current : ~LeadsBy(first, n, current)
    BY <1>2, <2>1, NothingLeads
  <2> QED BY <2>2, <2>3, RefusedStep DEF MatchInv
<1>4. CASE NotInBudget
  <2>1. PICK first \in current : Found(first) = NoCode
    BY <1>4 DEF NotInBudget
  <2>2. /\ answer = "none" /\ answer' = "not_in_budget" /\ failed' = failed
        /\ UNCHANGED <<tree, fields, current, path>>
    BY <1>4 DEF NotInBudget
  <2>3. \A n \in current : ~LeadsBy(first, n, current)
    BY <1>2, <2>1, NothingLeads
  <2> QED BY <2>2, <2>3, RefusedStep DEF MatchInv
<1>5. CASE LookupFails
  <2>1. /\ answer = "none" /\ answer' = "not_in_budget" /\ failed' = TRUE
        /\ UNCHANGED <<tree, fields, current, path>>
    BY <1>5 DEF LookupFails
  <2> QED BY <2>1, RefusedStep
<1>6. CASE UNCHANGED matchVars
  <2>1. /\ tree' = tree /\ fields' = fields /\ current' = current /\ path' = path
        /\ answer' = answer /\ failed' = failed
    BY <1>6 DEF matchVars
  <2>2. RefusalIsJustified' <=> RefusalIsJustified
    BY <2>1, SameMatch DEF RefusalIsJustified, Refused
  <2>3. Reached' <=> Reached
    BY <2>1, SameMatch DEF Reached, BeginsWithPath
  <2> QED BY <2>1, <2>2, <2>3 DEF MatchInv
<1> QED BY <1>1, <1>3, <1>4, <1>5, <1>6 DEF MatchNext

LEMMA MatchIsInvariant == MatchSpec => []MatchInv
BY MatchInvInit, MatchInvStep, PTL DEF MatchSpec

\* matchToBudget: the types of its variables, whatever the tree and the hierarchy.
THEOREM MatchTypesCorrect == MatchSpec => []MatchTypeOK
<1>1. MatchInv => MatchTypeOK
  BY DEF MatchInv, MatchTypeOK
<1> QED BY <1>1, MatchIsInvariant, PTL

\* matchToBudget: a record that passes is in the budget, down to the bottom of the branch
\* that was matched, each of whose nodes is the first above a field that a node of its
\* layer is about, in every tree and whichever node of a layer comes first.
THEOREM MatchesAreInBudget == MatchSpec => []MatchIsJustified
<1>1. MatchInv => MatchIsJustified
  <2> SUFFICES ASSUME MatchInv, answer = "match" PROVE MayLeadDown(path)
    BY DEF MatchIsJustified
  <2>1. Reached /\ path # <<>> /\ current = {}
    BY DEF MatchInv, Reached
  <2> QED BY <2>1 DEF Reached, MayLeadDown, ToTheBottom, Led
<1> QED BY <1>1, MatchIsInvariant, PTL

\* matchToBudget: no record is refused that the fields of all nodes lead down some branch
\* of the tree, in every tree and whichever node of a layer comes first, unless a lookup
\* failed.
THEOREM RefusedAreNotInBudget == MatchSpec => []RefusalIsJustified
<1>1. MatchInv => RefusalIsJustified
  BY DEF MatchInv
<1> QED BY <1>1, MatchIsInvariant, PTL
=============================================================================
