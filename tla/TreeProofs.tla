----------------------------- MODULE TreeProofs -----------------------------
(***************************************************************************)
(* Theorems about BudgetTree, for every budget, every size of a page, and  *)
(* every number of workers and of failures: a build that succeeds has the  *)
(* whole tree, and has counted its leaves once each.                       *)
(*                                                                         *)
(* A node is settled once the rows of its children are nodes of the tree.  *)
(* The children of a settled node are leaves or have a task of their own,  *)
(* which the build waits for; so, when no task is left, all that is below  *)
(* the top is there.                                                       *)
(***************************************************************************)
EXTENDS BudgetTree, SelectionProofs, FiniteSetTheorems

-----------------------------------------------------------------------------
(* The inductive invariant                                                  *)

\* The rows of the children of n, and those on some pages.
Below(n) == UNION {Contents(k) : k \in ToSet(budget.kids[n])}
OnPages(n, P) == {i \in DOMAIN budget.kids[n] :
                    \E p \in P : p * PageSize < i /\ i <= p * PageSize + PageSize}
RowsOnPages(n, P) == UNION {Contents(budget.kids[n][i]) : i \in OnPages(n, P)}

\* The types, of the functions and sequences too.
TypesInv ==
    /\ TreeTypeOK
    /\ tasks \in Seq(Objects \cup {TopRow}) /\ nextDrills \in Seq(Objects)
    /\ rows \in [Parents -> Seq(Objects)]
    /\ wanted \in [Parents -> SUBSET Nat]

\* Rows of children of n, of each child all or none.
WholeRows(n, S) == \A o \in S : o \in Below(n) /\ <<o[1], 1>> \in S

\* What fetchNodes has of a node: if EKB has told of all children, the rows of the
\* pages that it no longer waits for.
FetchInv ==
    \A n \in Parents :
        /\ fetch[n] \in {"later", "done"} => WholeRows(n, ToSet(rows[n]))
        /\ fetch[n] = "later" =>
            /\ selfInPage = FALSE
            /\ wanted[n] \subseteq LaterPages(n)
            /\ Told(n) => ToSet(rows[n]) = RowsOnPages(n, ({0} \cup LaterPages(n)) \ wanted[n])
        /\ fetch[n] = "done" /\ Told(n) => ToSet(rows[n]) = Below(n)

\* The tasks whose rows are not in the tree yet.
Pending == (ToSet(tasks) \ merged) \cup ToSet(nextDrills)

TaskInv ==
    /\ \A t \in ToSet(tasks) \cup ToSet(nextDrills) :
        t[2] = 1 /\ (t = TopRow \/ t[1] \in drilled)
    /\ ToSet(tasks) \cap ToSet(nextDrills) = {}
    /\ drilled \subseteq InBudget
    /\ result = "ok" => Pending = {}

\* A node whose task has been merged, and what EKB has then told of.
Settled(n) == n \in drilled \cup {Top} /\ <<n, 1>> \notin Pending
Shown(k) == \E n \in drilled \cup {Top} : Settled(n) /\ Told(n) /\ k \in ToSet(budget.kids[n])
RightBelow(n) ==
    /\ \A c \in Codes : children[<<n, 1>>][c] \in ExpectedChildren(<<n, 1>>)[c] \cup {None}
    /\ Told(n) =>
        /\ \A c \in Codes : children[<<n, 1>>][c] \in ExpectedChildren(<<n, 1>>)[c]
        /\ \A k \in ToSet(budget.kids[n]) : IsLeaf(k) \/ k \in drilled

\* A row that the index may have for a code.
RightIndex(c) ==
    \/ index[c] = None /\ \A o \in Objects : Code(o) = c => ~Shown(o[1])
    \/ index[c] \in Objects /\ Code(index[c]) = c

ShapeInv ==
    /\ \A n \in InBudget \cup {Top} :
        IF Settled(n) THEN RightBelow(n) ELSE children[<<n, 1>>] = [c \in Codes |-> None]
    /\ {k \in Leaves : Shown(k)} \subseteq leavesSeen
    /\ leavesSeen \subseteq Leaves
    /\ \A c \in Codes : RightIndex(c)

TreeInv ==
    /\ budget \in Budgets
    /\ TypesInv
    /\ FetchInv
    /\ TaskInv
    /\ ShapeInv

-----------------------------------------------------------------------------
(* Pages                                                                    *)

\* How many pages L rows make, and on which page the i-th is.
LEMMA Dividing ==
    ASSUME NEW P \in Nat, P > 0, NEW a \in Nat
    PROVE  a \div P \in Nat /\ P * (a \div P) <= a /\ a < P * (a \div P) + P
<1>1. a \div P \in Nat
  OBVIOUS
<1>2. P * (a \div P) <= a
  OBVIOUS
<1>3. P * (a \div P) + P > a
  OBVIOUS
<1>4. P * (a \div P) \in Nat
  BY <1>1
<1> QED BY <1>1, <1>2, <1>3, <1>4

LEMMA PageOf ==
    ASSUME NEW L \in Nat, NEW i \in 1 .. L
    PROVE  \E p \in Nat : /\ p * PageSize < i /\ i <= p * PageSize + PageSize
                          /\ p <= ((L + PageSize - 1) \div PageSize) - 1
<1> DEFINE P == PageSize
           p == (i - 1) \div P
           q == (L + P - 1) \div P
<1>1. P \in Nat /\ P > 0
  BY TreeAssumption
<1> HIDE DEF P
<1>2. i - 1 \in Nat /\ L + P - 1 \in Nat
  BY <1>1
<1>3. p \in Nat /\ P * p <= i - 1 /\ i - 1 < P * p + P
  BY <1>1, <1>2, Dividing
<1>4. q \in Nat /\ L + P - 1 < P * q + P
  BY <1>1, <1>2, Dividing
<1> HIDE DEF p, q
<1>5. P * p \in Nat /\ P * q \in Nat /\ p * P = P * p /\ q * P = P * q
  BY <1>1, <1>3, <1>4
<1>6. p * P < i /\ i <= p * P + P /\ P * p < P * q
  BY <1>1, <1>3, <1>4, <1>5
<1>7. ~(q <= p)
  <2>1. q <= p => P * q <= P * p
    BY <1>1, <1>3, <1>4
  <2> QED BY <1>5, <1>6, <2>1
<1>8. p <= q - 1
  BY <1>3, <1>4, <1>7
<1> QED BY <1>3, <1>6, <1>8 DEF P, q

LEMMA MinOfTwo ==
    ASSUME NEW a \in Int, NEW b \in Int
    PROVE  Min({a, b}) = IF a <= b THEN a ELSE b
<1> DEFINE m == IF a <= b THEN a ELSE b
<1>1. m \in {a, b} /\ \A y \in {a, b} : m <= y
  OBVIOUS
<1>2. \A x \in {a, b} : (\A y \in {a, b} : x <= y) => x = m
  OBVIOUS
<1> HIDE DEF m
<1>3. Min({a, b}) = m
  BY <1>1, <1>2 DEF Min
<1> QED BY <1>3 DEF m

LEMMA MaxOfSome ==
    ASSUME NEW n \in Nat, NEW T \in SUBSET (1 .. n), T # {}
    PROVE  Max(T) \in T
<1> DEFINE U == {n - i : i \in T}
<1>1. U \subseteq Nat /\ U # {}
  <2>1. \A i \in T : n - i \in Nat
    OBVIOUS
  <2> QED BY <2>1
<1>2. PICK m \in U : \A k \in U : m <= k
  BY <1>1, LeastElement
<1>3. n - m \in T
  BY <1>2
<1>4. \A y \in T : n - m >= y
  <2>1. SUFFICES ASSUME NEW y \in T PROVE n - m >= y
    OBVIOUS
  <2>2. n - y \in U
    OBVIOUS
  <2>3. m <= n - y /\ m \in Nat
    BY <1>1, <1>2, <2>2
  <2> QED BY <2>3
<1> QED BY <1>3, <1>4 DEF Max

\* The budget that is being read.
LEMMA BudgetShape ==
    ASSUME budget \in Budgets
    PROVE  /\ Top \notin Nodes /\ PageSize \in Nat \ {0}
           /\ \A n \in Parents : budget.kids[n] \in Seq(Nodes)
           /\ \A n \in Parents : ToSet(budget.kids[n]) \subseteq InBudget
           /\ InBudget \subseteq Nodes
           /\ \A k \in Nodes : Len(budget.codes[k]) \in Nat \ {0} /\ DOMAIN budget.codes[k] = 1 .. Len(budget.codes[k])
           /\ \A k \in Nodes : <<k, 1>> \in Contents(k)
           /\ \A k \in InBudget : Contents(k) \subseteq Objects
<1>1. /\ Top \notin Nodes /\ PageSize \in Nat \ {0}
      /\ budget.kids \in [Parents -> Seq(Nodes)] /\ budget.codes \in [Nodes -> Seq(Codes) \ {<<>>}]
  BY TreeAssumption
<1>2. \A n \in Parents : budget.kids[n] \in Seq(Nodes)
  BY <1>1
<1>3. \A n \in Parents : ToSet(budget.kids[n]) \subseteq InBudget
  BY DEF InBudget
<1>4. InBudget \subseteq Nodes
  BY <1>2 DEF InBudget, ToSet
<1>5. ASSUME NEW k \in Nodes
      PROVE  Len(budget.codes[k]) \in Nat \ {0} /\ DOMAIN budget.codes[k] = 1 .. Len(budget.codes[k])
  <2>1. budget.codes[k] \in Seq(Codes) /\ budget.codes[k] # <<>>
    BY <1>1
  <2> QED BY <2>1
<1>6. \A k \in Nodes : <<k, 1>> \in Contents(k)
  BY <1>5 DEF Contents
<1>7. \A k \in InBudget : Contents(k) \subseteq Objects
  BY DEF Objects
<1> QED BY <1>1, <1>2, <1>3, <1>4, <1>5, <1>6, <1>7

\* parseRawNodes loses no content of a node and adds none.
LEMMA Parsing ==
    ASSUME budget \in Budgets, NEW ns \in Seq(InBudget)
    PROVE  /\ ParseRawNodes(ns) \in Seq(Objects)
           /\ ToSet(ParseRawNodes(ns)) = UNION {Contents(ns[j]) : j \in DOMAIN ns}
<1> DEFINE part(j) == [i \in DOMAIN budget.codes[ns[j]] |-> <<ns[j], i>>]
           parts == [j \in DOMAIN ns |-> part(j)]
<1>1. DOMAIN ns = 1 .. Len(ns) /\ Len(ns) \in Nat /\ \A j \in DOMAIN ns : ns[j] \in InBudget
  OBVIOUS
<1>2. ASSUME NEW j \in DOMAIN ns
      PROVE  part(j) \in Seq(Objects) /\ ToSet(part(j)) = Contents(ns[j])
  <2>1. ns[j] \in Nodes /\ Contents(ns[j]) \subseteq Objects
    BY <1>1, BudgetShape
  <2>2. Len(budget.codes[ns[j]]) \in Nat /\ DOMAIN budget.codes[ns[j]] = 1 .. Len(budget.codes[ns[j]])
    BY <2>1, BudgetShape
  <2>3. \A i \in DOMAIN budget.codes[ns[j]] : <<ns[j], i>> \in Objects
    BY <2>1 DEF Contents
  <2>4. part(j) \in [1 .. Len(budget.codes[ns[j]]) -> Objects]
    BY <2>2, <2>3
  <2>5. part(j) \in Seq(Objects)
    BY <2>2, <2>4
  <2>6. ToSet(part(j)) = Contents(ns[j])
    BY DEF ToSet, Contents
  <2> QED BY <2>5, <2>6
<1>3. parts \in Seq(Seq(Objects)) /\ DOMAIN parts = DOMAIN ns /\ \A j \in DOMAIN ns : ToSet(parts[j]) = Contents(ns[j])
  <2>1. \A j \in DOMAIN ns : parts[j] = part(j) /\ part(j) \in Seq(Objects) /\ ToSet(part(j)) = Contents(ns[j])
    BY <1>2
  <2>2. parts \in [1 .. Len(ns) -> Seq(Objects)]
    BY <1>1, <1>2
  <2>3. parts \in Seq(Seq(Objects))
    BY <1>1, <2>2
  <2> QED BY <2>1, <2>3
<1>4. ParseRawNodes(ns) = FlattenSeq(parts)
  BY DEF ParseRawNodes
<1> HIDE DEF parts, part
<1>5. FlattenSeq(parts) \in Seq(Objects) /\ ToSet(FlattenSeq(parts)) = UNION {ToSet(parts[j]) : j \in DOMAIN parts}
  BY <1>3, Flattening
<1>6. UNION {ToSet(parts[j]) : j \in DOMAIN parts} = UNION {Contents(ns[j]) : j \in DOMAIN ns}
  BY <1>3
<1> QED BY <1>4, <1>5, <1>6

-----------------------------------------------------------------------------
(* fetchNodes                                                               *)

\* The rows of a page are those of the children that are on it.
LEMMA PageRows ==
    ASSUME budget \in Budgets, NEW n \in Parents, NEW p \in Nat
    PROVE  /\ ParseRawNodes(Page(n, p * PageSize)) \in Seq(Objects)
           /\ WholeRows(n, ToSet(ParseRawNodes(Page(n, p * PageSize))))
           /\ selfInPage = FALSE =>
                ToSet(ParseRawNodes(Page(n, p * PageSize))) = RowsOnPages(n, {p})
<1> DEFINE s == budget.kids[n]
           L == Len(s)
           m == p * PageSize
           e == m + (IF selfInPage THEN PageSize - 1 ELSE PageSize)
           last == IF e <= L THEN e ELSE L
           ns == SubSeq(s, m + 1, last)
           size == IF last - m < 0 THEN 0 ELSE last - m
<1>1. /\ PageSize \in Nat \ {0} /\ s \in Seq(InBudget)
  <2>1. PageSize \in Nat \ {0} /\ s \in Seq(Nodes) /\ ToSet(s) \subseteq InBudget
    BY BudgetShape
  <2>2. \A i \in DOMAIN s : s[i] \in InBudget
    BY <2>1 DEF ToSet
  <2> QED BY <2>1, <2>2
<1>2. L \in Nat /\ DOMAIN s = 1 .. L /\ \A i \in 1 .. L : s[i] \in InBudget
  BY <1>1
<1>3. m \in Nat
  BY <1>1
<1>4. e \in Int /\ e <= m + PageSize /\ (selfInPage = FALSE => e = m + PageSize)
  BY <1>1, <1>3
<1> HIDE DEF s, L, m
<1>5. last \in Int /\ last <= L /\ last <= e
  BY <1>2, <1>4
<1> HIDE DEF e
<1>6. Page(n, m) = ns
  <2>1. Min({e, L}) = last
    BY <1>2, <1>4, MinOfTwo
  <2> QED BY <2>1 DEF Page, s, L, e
<1> HIDE DEF last
<1>7. size \in Nat /\ \A j \in 1 .. size : m + j \in 1 .. L /\ m + j <= last
  BY <1>2, <1>3, <1>5
<1>8. /\ ns \in Seq(InBudget) /\ Len(ns) = size
      /\ \A j \in 1 .. size : ns[j] = s[m + j]
  <2>1. CASE m < last
    <3>1. ns \in Seq(InBudget) /\ Len(ns) = last - m
      BY <1>1, <1>3, <1>5, <2>1 DEF L
    <3>2. \A j \in 1 .. last - m : ns[j] = s[m + j]
      BY <1>1, <1>3, <1>5 DEF L
    <3>3. size = last - m
      BY <1>3, <1>5, <2>1
    <3> QED BY <3>1, <3>2, <3>3
  <2>2. CASE last <= m
    <3>1. ns = <<>>
      BY <1>1, <1>3, <1>5, <2>2 DEF L
    <3>2. size = 0
      BY <1>3, <1>5, <2>2
    <3>3. <<>> \in Seq(InBudget) /\ Len(<<>>) = 0 /\ 1 .. 0 = {}
      OBVIOUS
    <3> HIDE DEF ns, size
    <3> QED BY <3>1, <3>2, <3>3
  <2> QED BY <1>3, <1>5, <2>1, <2>2
<1>9. DOMAIN ns = 1 .. size
  BY <1>8
<1> HIDE DEF ns
<1>10. /\ ParseRawNodes(ns) \in Seq(Objects)
       /\ ToSet(ParseRawNodes(ns)) = UNION {Contents(ns[j]) : j \in DOMAIN ns}
  BY <1>8, Parsing
<1>11. ASSUME selfInPage = FALSE
       PROVE  UNION {Contents(ns[j]) : j \in DOMAIN ns} = RowsOnPages(n, {p})
  <2>1. OnPages(n, {p}) = {i \in 1 .. L : m < i /\ i <= m + PageSize}
    BY <1>2 DEF OnPages, s, m
  <2>2. \A j \in 1 .. size : m + j \in OnPages(n, {p})
    <3>1. SUFFICES ASSUME NEW j \in 1 .. size PROVE m + j \in OnPages(n, {p})
      OBVIOUS
    <3>2. m + j \in 1 .. L /\ m + j <= last /\ m < m + j
      BY <1>3, <1>7
    <3> HIDE DEF size
    <3>3. m + j <= m + PageSize
      BY <1>1, <1>3, <1>4, <1>5, <3>2
    <3> QED BY <2>1, <3>2, <3>3
  <2>3. \A i \in OnPages(n, {p}) : i - m \in 1 .. size /\ m + (i - m) = i
    <3>1. SUFFICES ASSUME NEW i \in 1 .. L, m < i, i <= m + PageSize
                   PROVE  i - m \in 1 .. size /\ m + (i - m) = i
      BY <2>1
    <3>2. i <= last
      BY <1>1, <1>2, <1>3, <1>4, <1>11, <3>1 DEF last
    <3> QED BY <1>2, <1>3, <1>5, <3>1, <3>2
  <2> HIDE DEF size
  <2>4. \A j \in DOMAIN ns : Contents(ns[j]) \subseteq RowsOnPages(n, {p})
    BY <1>8, <1>9, <2>2 DEF RowsOnPages, s
  <2>5. \A i \in OnPages(n, {p}) : i - m \in DOMAIN ns /\ Contents(s[i]) = Contents(ns[i - m])
    BY <1>8, <1>9, <2>3
  <2>6. RowsOnPages(n, {p}) \subseteq UNION {Contents(ns[j]) : j \in DOMAIN ns}
    BY <2>5 DEF RowsOnPages, s
  <2> QED BY <2>4, <2>6
<1>12. \A j \in DOMAIN ns : ns[j] \in ToSet(s)
  BY <1>2, <1>7, <1>8, <1>9 DEF ToSet
<1>13. WholeRows(n, UNION {Contents(ns[j]) : j \in DOMAIN ns})
  <2>1. SUFFICES ASSUME NEW j \in DOMAIN ns, NEW o \in Contents(ns[j])
                 PROVE  o \in Below(n) /\ <<o[1], 1>> \in Contents(ns[j])
    BY DEF WholeRows
  <2>2. o[1] = ns[j]
    BY DEF Contents
  <2>3. ns[j] \in Nodes
    BY <1>8, <1>9, BudgetShape
  <2> QED BY <1>12, <2>2, <2>3, BudgetShape DEF Below, s
<1> QED BY <1>6, <1>10, <1>11, <1>13 DEF m

\* An error has no rows.
LEMMA NoRows ==
    ASSUME budget \in Budgets, NEW n
    PROVE  /\ ParseRawNodes(<<>>) \in Seq(Objects)
           /\ ToSet(ParseRawNodes(<<>>)) = {}
           /\ WholeRows(n, ToSet(ParseRawNodes(<<>>)))
<1>1. <<>> \in Seq(InBudget) /\ DOMAIN <<>> = {}
  OBVIOUS
<1>2. ParseRawNodes(<<>>) \in Seq(Objects) /\ ToSet(ParseRawNodes(<<>>)) = {}
  BY <1>1, Parsing
<1> QED BY <1>2 DEF WholeRows

\* A page that is not full is the only one, and all pages are all children.
LEMMA AllPages ==
    ASSUME budget \in Budgets, NEW n \in Parents, selfInPage \in BOOLEAN
    PROVE  /\ RowsOnPages(n, {0} \cup LaterPages(n)) = Below(n)
           /\ selfInPage = FALSE /\ Len(Page(n, 0)) < PageSize => RowsOnPages(n, {0}) = Below(n)
           /\ selfInPage = TRUE => Len(Page(n, 0)) < PageSize
           /\ selfInPage = TRUE /\ Len(budget.kids[n]) < PageSize => Page(n, 0) = budget.kids[n]
<1> DEFINE s == budget.kids[n]
           L == Len(s)
<1>1. PageSize \in Nat \ {0} /\ s \in Seq(Nodes)
  BY BudgetShape
<1>2. L \in Nat /\ DOMAIN s = 1 .. L
  BY <1>1
<1>3. \A P : OnPages(n, P) = DOMAIN s => RowsOnPages(n, P) = Below(n)
  BY DEF RowsOnPages, Below, ToSet
<1>4. OnPages(n, {0} \cup LaterPages(n)) = DOMAIN s
  <2>1. SUFFICES ASSUME NEW i \in 1 .. L
                 PROVE  \E p \in {0} \cup LaterPages(n) : p * PageSize < i /\ i <= p * PageSize + PageSize
    BY <1>2 DEF OnPages
  <2>2. PICK p \in Nat : /\ p * PageSize < i /\ i <= p * PageSize + PageSize
                         /\ p <= ((L + PageSize - 1) \div PageSize) - 1
    BY <1>2, PageOf
  <2> HIDE DEF L
  <2> DEFINE q == (L + PageSize - 1) \div PageSize
  <2>3. LaterPages(n) = 1 .. q - 1 /\ q \in Nat
    <3>1. LaterPages(n) = 1 .. q - 1
      BY DEF LaterPages, L
    <3>2. PageSize \in Nat /\ PageSize > 0 /\ L + PageSize - 1 \in Nat
      BY <1>1, <1>2
    <3>3. q \in Nat
      BY <3>2, Dividing
    <3> QED BY <3>1, <3>3
  <2> HIDE DEF q
  <2>4. p <= q - 1
    BY <2>2 DEF q
  <2>5. p \in {0} \cup LaterPages(n)
    BY <2>3, <2>4
  <2> QED BY <2>2, <2>5
<1>5. ASSUME selfInPage = FALSE, Len(Page(n, 0)) < PageSize PROVE OnPages(n, {0}) = DOMAIN s
  <2> DEFINE last == IF PageSize <= L THEN PageSize ELSE L
  <2> HIDE DEF L
  <2>1. Page(n, 0) = SubSeq(s, 1, last)
    <3>1. Min({PageSize, L}) = last
      BY <1>1, <1>2, MinOfTwo
    <3>2. 0 + (IF selfInPage THEN PageSize - 1 ELSE PageSize) = PageSize /\ 0 + 1 = 1
      BY <1>1, <1>5
    <3> QED BY <3>1, <3>2 DEF Page, L
  <2>2. last \in Nat /\ last <= L
    BY <1>1, <1>2
  <2> HIDE DEF last
  <2>3. Len(SubSeq(s, 1, last)) = last
    BY <1>1, <1>2, <2>2 DEF L
  <2>4. L < PageSize
    BY <1>1, <1>2, <1>5, <2>1, <2>2, <2>3 DEF last
  <2>5. \A i \in 1 .. L : 0 * PageSize < i /\ i <= 0 * PageSize + PageSize
    BY <1>1, <1>2, <2>4
  <2> QED BY <1>2, <2>5 DEF OnPages
<1>6. ASSUME selfInPage = TRUE
      PROVE  /\ Len(Page(n, 0)) < PageSize
             /\ L < PageSize => Page(n, 0) = s
  <2> DEFINE last == IF PageSize - 1 <= L THEN PageSize - 1 ELSE L
  <2> HIDE DEF L
  <2>1. Page(n, 0) = SubSeq(s, 1, last)
    <3>1. Min({PageSize - 1, L}) = last
      BY <1>1, <1>2, MinOfTwo
    <3>2. 0 + (IF selfInPage THEN PageSize - 1 ELSE PageSize) = PageSize - 1 /\ 0 + 1 = 1
      BY <1>1, <1>6
    <3> QED BY <3>1, <3>2 DEF Page, L
  <2>2. last \in Nat /\ last <= L /\ last < PageSize /\ (L < PageSize => last = L)
    BY <1>1, <1>2
  <2> HIDE DEF last
  <2>3. Len(SubSeq(s, 1, last)) = last
    BY <1>1, <1>2, <2>2 DEF L
  <2>4. SubSeq(s, 1, Len(s)) = s
    BY <1>1
  <2> QED BY <2>1, <2>2, <2>3, <2>4 DEF L
<1> QED BY <1>3, <1>4, <1>5, <1>6

\* A page more.
LEMMA MorePages ==
    ASSUME NEW n, NEW P, NEW Q
    PROVE  RowsOnPages(n, P \cup Q) = RowsOnPages(n, P) \cup RowsOnPages(n, Q)
<1>1. OnPages(n, P \cup Q) = OnPages(n, P) \cup OnPages(n, Q)
  BY DEF OnPages
<1> QED BY <1>1 DEF RowsOnPages

\* The budget at EKB does not change during the build.
LEMMA SameBudget ==
    ASSUME budget' = budget
    PROVE  /\ Objects' = Objects /\ InBudget' = InBudget
           /\ \A n : Below(n)' = Below(n) /\ LaterPages(n)' = LaterPages(n)
           /\ \A n, S : WholeRows(n, S)' = WholeRows(n, S)
           /\ \A n, P : RowsOnPages(n, P)' = RowsOnPages(n, P)
           /\ \A n : Contents(n)' = Contents(n) /\ IsLeaf(n)' = IsLeaf(n)
           /\ Leaves' = Leaves
           /\ \A o : Code(o)' = Code(o) /\ ExpectedChildren(o)' = ExpectedChildren(o)
<1>1. Objects' = Objects /\ InBudget' = InBudget
  BY DEF Objects, InBudget, Contents
<1>2. \A n : Below(n)' = Below(n) /\ LaterPages(n)' = LaterPages(n)
  BY DEF Below, Contents, LaterPages
<1>6. \A n, S : WholeRows(n, S)' = WholeRows(n, S)
  BY <1>2 DEF WholeRows
<1>7. Leaves' = Leaves
  BY <1>1 DEF Leaves, IsLeaf
<1>3. \A n, P : RowsOnPages(n, P)' = RowsOnPages(n, P)
  BY DEF RowsOnPages, OnPages, Contents
<1>4. \A n : Contents(n)' = Contents(n) /\ IsLeaf(n)' = IsLeaf(n)
  BY DEF Contents, IsLeaf
<1>5. \A o : Code(o)' = Code(o) /\ ExpectedChildren(o)' = ExpectedChildren(o)
  BY DEF Code, ExpectedChildren, Contents
<1> QED BY <1>1, <1>2, <1>3, <1>4, <1>5, <1>6, <1>7

\* What EKB has told of is no more later than it is now.
LEMMA ToldStays ==
    ASSUME budget' = budget, selfInPage' = selfInPage, misled \subseteq misled', NEW n
    PROVE  Told(n)' => Told(n)
<1> QED BY DEF Told

\* Neither the answers of EKB nor the end of the build change the tree.
LEMMA ShapeStays ==
    ASSUME ShapeInv, budget' = budget, selfInPage' = selfInPage, misled \subseteq misled',
           UNCHANGED <<tasks, merged, nextDrills, drilled, children, index, leavesSeen>>
    PROVE  ShapeInv'
<1>1. /\ InBudget' = InBudget /\ Objects' = Objects /\ Leaves' = Leaves
      /\ \A o : Code(o)' = Code(o) /\ ExpectedChildren(o)' = ExpectedChildren(o)
      /\ \A k : IsLeaf(k)' = IsLeaf(k)
  BY SameBudget
<1>2. \A n : Told(n)' => Told(n)
  BY ToldStays
<1>3. \A n : Settled(n)' = Settled(n)
  BY DEF Settled, Pending
<1>4. \A n : RightBelow(n) => RightBelow(n)'
  BY <1>1, <1>2 DEF RightBelow
<1>5. \A k : Shown(k)' => Shown(k)
  BY <1>2, <1>3 DEF Shown
<1>6. \A c : RightIndex(c) => RightIndex(c)'
  BY <1>1, <1>5 DEF RightIndex
<1>7. \A n \in InBudget \cup {Top} :
        IF Settled(n)' THEN RightBelow(n)' ELSE children'[<<n, 1>>] = [c \in Codes |-> None]
  BY <1>3, <1>4 DEF ShapeInv
<1>8. {k \in Leaves : Shown(k)'} \subseteq leavesSeen /\ leavesSeen \subseteq Leaves
  BY <1>5 DEF ShapeInv
<1>9. \A c \in Codes : RightIndex(c)'
  BY <1>6 DEF ShapeInv
<1> QED BY <1>1, <1>7, <1>8, <1>9 DEF ShapeInv

\* What fetchNodes does is all about one node's rows.
LEMMA RestUntouched ==
    ASSUME TreeInv, budget' = budget, selfInPage' = selfInPage,
           misled \subseteq misled', misled' \subseteq Parents,
           UNCHANGED loopVars, UNCHANGED storeVars,
           fetch' \in [Parents -> {"idle", "first", "later", "done", "failed"}],
           rows' \in [Parents -> Seq(Objects)],
           wanted' \in [Parents -> SUBSET Nat],
           FetchInv'
    PROVE  TreeInv'
<1>1. Objects' = Objects /\ InBudget' = InBudget
  BY SameBudget
<1>2. /\ result' = result /\ tasks' = tasks /\ merged' = merged /\ nextDrills' = nextDrills
      /\ drilled' = drilled /\ children' = children /\ index' = index /\ leavesSeen' = leavesSeen
  BY DEF loopVars, storeVars
<1>3. TypesInv'
  <2>1. \A n \in Parents : ToSet(rows'[n]) \subseteq Objects /\ wanted'[n] \subseteq Nat
    <3>1. ASSUME NEW n \in Parents PROVE ToSet(rows'[n]) \subseteq Objects
      <4>1. rows'[n] \in Seq(Objects)
        OBVIOUS
      <4> QED BY <4>1 DEF ToSet
    <3> QED BY <3>1
  <2>2. TreeTypeOK'
    BY <1>1, <1>2, <2>1 DEF TreeInv, TypesInv, TreeTypeOK
  <2>3. tasks' \in Seq(Objects \cup {TopRow}) /\ nextDrills' \in Seq(Objects)
    BY <1>2 DEF TreeInv, TypesInv
  <2> QED BY <1>1, <2>2, <2>3 DEF TypesInv
<1>4. TaskInv'
  BY <1>1, <1>2 DEF TreeInv, TaskInv, Pending
<1>5. ShapeInv'
  BY <1>2, ShapeStays DEF TreeInv
<1> QED BY <1>3, <1>4, <1>5 DEF TreeInv

\* What an action that concerns the rows of n has to keep.
LEMMA OneNodeFetched ==
    ASSUME FetchInv, budget' = budget, selfInPage' = selfInPage, NEW n \in Parents,
           misled \subseteq misled',
           \A k \in Parents : k # n =>
                rows'[k] = rows[k] /\ wanted'[k] = wanted[k] /\ fetch'[k] = fetch[k],
           fetch'[n] \in {"later", "done"} => WholeRows(n, ToSet(rows'[n])),
           fetch'[n] = "later" => selfInPage = FALSE /\ wanted'[n] \subseteq LaterPages(n),
           fetch'[n] = "later" /\ Told(n)' =>
                ToSet(rows'[n]) = RowsOnPages(n, ({0} \cup LaterPages(n)) \ wanted'[n]),
           fetch'[n] = "done" /\ Told(n)' => ToSet(rows'[n]) = Below(n)
    PROVE  FetchInv'
<1>1. /\ \A k : Below(k)' = Below(k) /\ LaterPages(k)' = LaterPages(k)
      /\ \A k, S : WholeRows(k, S)' = WholeRows(k, S)
  BY SameBudget
<1>2. \A k, P : RowsOnPages(k, P)' = RowsOnPages(k, P)
  BY SameBudget
<1>3. \A k : Told(k)' => Told(k)
  BY ToldStays
<1>4. SUFFICES ASSUME NEW k \in Parents
               PROVE  /\ fetch'[k] \in {"later", "done"} => WholeRows(k, ToSet(rows'[k]))
                      /\ fetch'[k] = "later" =>
                          /\ selfInPage = FALSE
                          /\ wanted'[k] \subseteq LaterPages(k)
                          /\ Told(k)' =>
                                ToSet(rows'[k]) = RowsOnPages(k, ({0} \cup LaterPages(k)) \ wanted'[k])
                      /\ fetch'[k] = "done" /\ Told(k)' => ToSet(rows'[k]) = Below(k)
  BY <1>1, <1>2 DEF FetchInv
<1>5. CASE k = n
  BY <1>5
<1>6. CASE k # n
  BY <1>3, <1>6 DEF FetchInv
<1> QED BY <1>5, <1>6

LEMMA FirstPageStep ==
    ASSUME TreeInv, NEW n \in Parents, FirstPage(n)
    PROVE  TreeInv'
<1>1. /\ fetch \in [Parents -> {"idle", "first", "later", "done", "failed"}]
      /\ rows \in [Parents -> Seq(Objects)] /\ wanted \in [Parents -> SUBSET Nat]
      /\ budget \in Budgets /\ selfInPage \in BOOLEAN /\ misled \subseteq Parents /\ FetchInv
  BY DEF TreeInv, TypesInv, TreeTypeOK
<1>2. PICK page \in Answers(Page(n, 0)), counted \in BOOLEAN :
        /\ rows' = [rows EXCEPT ![n] = ParseRawNodes(page)]
        /\ wanted' = [wanted EXCEPT ![n] = PagesAfter(n, page, counted)]
        /\ fetch' = [fetch EXCEPT ![n] = IF PagesAfter(n, page, counted) = {} THEN "done" ELSE "later"]
        /\ misled' = IF page = Page(n, 0) /\ PagesAfter(n, page, counted) = PagesAfter(n, page, TRUE)
                     THEN misled ELSE misled \cup {n}
  BY DEF FirstPage
<1>3. budget' = budget /\ selfInPage' = selfInPage /\ UNCHANGED loopVars /\ UNCHANGED storeVars
  BY DEF FirstPage
<1> DEFINE more == PagesAfter(n, page, counted)
           got == ParseRawNodes(page)
<1>4. page = Page(n, 0 * PageSize) \/ page = <<>>
  BY <1>1, BudgetShape DEF Answers
<1>5. /\ got \in Seq(Objects) /\ WholeRows(n, ToSet(got))
      /\ selfInPage = FALSE /\ page = Page(n, 0) => ToSet(got) = RowsOnPages(n, {0})
  <2>1. 0 \in Nat /\ 0 * PageSize = 0
    BY <1>1, BudgetShape
  <2>2. CASE page = Page(n, 0 * PageSize)
    BY <1>1, <2>1, <2>2, PageRows
  <2>3. CASE page = <<>> /\ page # Page(n, 0 * PageSize)
    BY <1>1, <2>1, <2>3, NoRows
  <2> QED BY <1>4, <2>2, <2>3
<1>6. more \subseteq LaterPages(n) /\ LaterPages(n) \in SUBSET (Nat \ {0})
  BY DEF LaterPages, PagesAfter
<1>7. more # {} => Len(page) >= PageSize /\ more = LaterPages(n)
  <2>1. Len(page) \in Nat
    BY <1>1, <1>2, BudgetShape DEF Answers, Page
  <2> QED BY <1>1, <2>1, BudgetShape DEF PagesAfter
<1>8. more # {} => selfInPage = FALSE
  <2>1. SUFFICES ASSUME Len(page) >= PageSize, selfInPage = TRUE PROVE FALSE
    BY <1>1, <1>7
  <2>2. Len(Page(n, 0)) < PageSize
    BY <1>1, <2>1, AllPages
  <2>3. PageSize \in Int /\ Len(<<>>) < PageSize
    <3>1. PageSize \in Nat \ {0}
      BY TreeAssumption
    <3>2. Len(<<>>) = 0
      OBVIOUS
    <3> HIDE DEF more, got
    <3> QED BY <3>1, <3>2
  <2>4. Len(page) \in Nat
    BY <1>1, <1>2, BudgetShape DEF Answers, Page
  <2>5. CASE page = Page(n, 0)
    BY <2>1, <2>2, <2>3, <2>4, <2>5
  <2>6. CASE page = <<>>
    BY <2>1, <2>3, <2>6
  <2> QED BY <1>2, <2>5, <2>6 DEF Answers
<1>9. Told(n)' => page = Page(n, 0) /\ more = PagesAfter(n, page, TRUE) /\ Told(n)
  <2>1. ASSUME Told(n)' PROVE misled' # misled \cup {n}
    BY <2>1 DEF Told
  <2>2. misled \subseteq misled'
    BY <1>2
  <2> QED BY <1>2, <1>3, <2>1, <2>2, ToldStays
<1>10. ASSUME Told(n)', more = {} PROVE ToSet(got) = Below(n)
  <2>1. page = Page(n, 0) /\ PagesAfter(n, page, TRUE) = {} /\ (selfInPage => Len(budget.kids[n]) < PageSize)
    BY <1>9, <1>10 DEF Told
  <2>2. CASE selfInPage = FALSE
    <3>1. Len(page) < PageSize \/ LaterPages(n) = {}
      BY <2>1 DEF PagesAfter
    <3>2. {0} \cup {} = {0}
      OBVIOUS
    <3> HIDE DEF got, more
    <3> QED BY <1>1, <1>5, <2>1, <2>2, <3>1, <3>2, AllPages
  <2>3. CASE selfInPage = TRUE
    <3>1. page = budget.kids[n]
      BY <1>1, <2>1, <2>3, AllPages
    <3>2. page \in Seq(InBudget)
      <4>1. page \in Seq(Nodes) /\ ToSet(page) \subseteq InBudget
        BY <1>1, <3>1, BudgetShape
      <4> QED BY <4>1 DEF ToSet
    <3>3. ToSet(got) = UNION {Contents(page[j]) : j \in DOMAIN page}
      BY <1>1, <3>2, Parsing
    <3> QED BY <3>1, <3>3 DEF Below, ToSet
  <2> QED BY <1>1, <2>2, <2>3
<1> HIDE DEF more, got
<1>11. /\ rows'[n] = got /\ wanted'[n] = more
       /\ fetch'[n] = IF more = {} THEN "done" ELSE "later"
       /\ \A k \in Parents : k # n =>
            rows'[k] = rows[k] /\ wanted'[k] = wanted[k] /\ fetch'[k] = fetch[k]
  BY <1>1, <1>2 DEF more, got
<1>12. misled \subseteq misled' /\ misled' \subseteq Parents
  BY <1>1, <1>2
<1>13. more # {} => ({0} \cup LaterPages(n)) \ more = {0}
  BY <1>6, <1>7
<1>14. FetchInv'
  BY <1>1, <1>3, <1>5, <1>6, <1>8, <1>9, <1>10, <1>11, <1>12, <1>13, OneNodeFetched
<1>15. /\ fetch' \in [Parents -> {"idle", "first", "later", "done", "failed"}]
       /\ rows' \in [Parents -> Seq(Objects)]
       /\ wanted' \in [Parents -> SUBSET Nat]
  <2>1. fetch' \in [Parents -> {"idle", "first", "later", "done", "failed"}]
    BY <1>1, <1>2
  <2>2. rows' \in [Parents -> Seq(Objects)]
    BY <1>1, <1>2, <1>5 DEF got
  <2>3. wanted' \in [Parents -> SUBSET Nat]
    BY <1>1, <1>2, <1>6 DEF more
  <2> QED BY <2>1, <2>2, <2>3
<1> QED BY <1>3, <1>12, <1>14, <1>15, RestUntouched

LEMMA LaterPageStep ==
    ASSUME TreeInv, NEW n \in Parents, NEW p \in wanted[n], LaterPage(n, p)
    PROVE  TreeInv'
<1>1. /\ fetch \in [Parents -> {"idle", "first", "later", "done", "failed"}]
      /\ rows \in [Parents -> Seq(Objects)] /\ wanted \in [Parents -> SUBSET Nat]
      /\ budget \in Budgets /\ selfInPage \in BOOLEAN /\ misled \subseteq Parents /\ FetchInv
  BY DEF TreeInv, TypesInv, TreeTypeOK
<1>2. PICK page \in Answers(Page(n, p * PageSize)) :
        /\ rows' = [rows EXCEPT ![n] = @ \o ParseRawNodes(page)]
        /\ misled' = IF page = Page(n, p * PageSize) THEN misled ELSE misled \cup {n}
  BY DEF LaterPage
<1>3. /\ wanted' = [wanted EXCEPT ![n] = @ \ {p}]
      /\ fetch' = [fetch EXCEPT ![n] = IF wanted[n] = {p} THEN "done" ELSE "later"]
      /\ fetch[n] = "later" /\ budget' = budget /\ selfInPage' = selfInPage
      /\ UNCHANGED loopVars /\ UNCHANGED storeVars
  BY DEF LaterPage
<1> DEFINE got == ParseRawNodes(page)
           all == {0} \cup LaterPages(n)
<1>4. p \in Nat
  BY <1>1
<1>5. /\ selfInPage = FALSE /\ wanted[n] \subseteq LaterPages(n)
      /\ WholeRows(n, ToSet(rows[n]))
      /\ Told(n) => ToSet(rows[n]) = RowsOnPages(n, all \ wanted[n])
  BY <1>1, <1>3 DEF FetchInv
<1>6. /\ got \in Seq(Objects) /\ WholeRows(n, ToSet(got))
      /\ page = Page(n, p * PageSize) => ToSet(got) = RowsOnPages(n, {p})
  <2>1. CASE page = Page(n, p * PageSize)
    BY <1>1, <1>4, <1>5, <2>1, PageRows
  <2>2. CASE page # Page(n, p * PageSize)
    <3>1. page = <<>>
      BY <1>2, <2>2 DEF Answers
    <3> QED BY <1>1, <2>2, <3>1, NoRows
  <2> QED BY <2>1, <2>2
<1> HIDE DEF got
<1>7. /\ rows[n] \o got \in Seq(Objects)
      /\ ToSet(rows[n] \o got) = ToSet(rows[n]) \cup ToSet(got)
  <2>1. rows[n] \in Seq(Objects)
    BY <1>1
  <2> QED BY <1>6, <2>1, Joining
<1>8. WholeRows(n, ToSet(rows[n] \o got))
  BY <1>5, <1>6, <1>7 DEF WholeRows
<1>9. misled \subseteq misled' /\ misled' \subseteq Parents
  BY <1>1, <1>2
<1>10. ASSUME Told(n)'
       PROVE  ToSet(rows[n] \o got) = RowsOnPages(n, all \ (wanted[n] \ {p}))
  <2>1. Told(n) /\ page = Page(n, p * PageSize)
    <3>1. misled' # misled \cup {n}
      BY <1>10 DEF Told
    <3> QED BY <1>2, <1>3, <1>9, <1>10, <3>1, ToldStays
  <2>2. all \ (wanted[n] \ {p}) = (all \ wanted[n]) \cup {p}
    BY <1>5
  <2> HIDE DEF all
  <2> QED BY <1>5, <1>6, <1>7, <2>1, <2>2, MorePages
<1>11. ASSUME Told(n)', wanted[n] = {p} PROVE ToSet(rows[n] \o got) = Below(n)
  <2>1. all \ (wanted[n] \ {p}) = all
    BY <1>11
  <2> QED BY <1>1, <1>10, <1>11, <2>1, AllPages
<1>12. /\ rows'[n] = rows[n] \o got /\ wanted'[n] = wanted[n] \ {p}
       /\ fetch'[n] = IF wanted[n] = {p} THEN "done" ELSE "later"
       /\ \A k \in Parents : k # n =>
            rows'[k] = rows[k] /\ wanted'[k] = wanted[k] /\ fetch'[k] = fetch[k]
  BY <1>1, <1>2, <1>3 DEF got
<1>13. wanted'[n] \subseteq LaterPages(n)
  BY <1>5, <1>12
<1>14. FetchInv'
  BY <1>1, <1>3, <1>5, <1>8, <1>9, <1>10, <1>11, <1>12, <1>13, OneNodeFetched
<1>15. /\ fetch' \in [Parents -> {"idle", "first", "later", "done", "failed"}]
       /\ rows' \in [Parents -> Seq(Objects)]
       /\ wanted' \in [Parents -> SUBSET Nat]
  <2>1. fetch' \in [Parents -> {"idle", "first", "later", "done", "failed"}]
    BY <1>1, <1>3
  <2>2. rows' \in [Parents -> Seq(Objects)]
    BY <1>1, <1>2, <1>7 DEF got
  <2>3. wanted' \in [Parents -> SUBSET Nat]
    BY <1>1, <1>3
  <2> QED BY <2>1, <2>2, <2>3
<1> QED BY <1>3, <1>9, <1>14, <1>15, RestUntouched

LEMMA PageFailsStep ==
    ASSUME TreeInv, NEW n \in Parents, PageFails(n)
    PROVE  TreeInv'
<1>1. /\ fetch' = [fetch EXCEPT ![n] = "failed"]
      /\ wanted' = [wanted EXCEPT ![n] = {}]
      /\ rows' = rows /\ budget' = budget /\ selfInPage' = selfInPage /\ misled' = misled
      /\ UNCHANGED loopVars /\ UNCHANGED storeVars
  BY DEF PageFails, ekbVars
<1>2. /\ fetch \in [Parents -> {"idle", "first", "later", "done", "failed"}]
      /\ rows \in [Parents -> Seq(Objects)] /\ wanted \in [Parents -> SUBSET Nat]
      /\ misled \subseteq Parents /\ FetchInv
  BY DEF TreeInv, TypesInv, TreeTypeOK
<1>3. /\ fetch'[n] = "failed"
      /\ \A k \in Parents : k # n =>
            rows'[k] = rows[k] /\ wanted'[k] = wanted[k] /\ fetch'[k] = fetch[k]
  BY <1>1, <1>2
<1>4. FetchInv'
  BY <1>1, <1>2, <1>3, OneNodeFetched
<1>5. /\ fetch' \in [Parents -> {"idle", "first", "later", "done", "failed"}]
      /\ rows' \in [Parents -> Seq(Objects)]
      /\ wanted' \in [Parents -> SUBSET Nat]
  BY <1>1, <1>2
<1> QED BY <1>1, <1>2, <1>4, <1>5, RestUntouched

-----------------------------------------------------------------------------
(* buildTree                                                                *)

\* A row is a content of a node of the budget.
LEMMA RowShape ==
    ASSUME budget \in Budgets, NEW o \in Objects
    PROVE  /\ o = <<o[1], o[2]>> /\ o[1] \in InBudget /\ o[1] \in Nodes
           /\ o[2] \in DOMAIN budget.codes[o[1]] /\ o[2] \in Nat \ {0}
           /\ o \in Contents(o[1])
<1>1. PICK n \in InBudget : \E j \in DOMAIN budget.codes[n] : o = <<n, j>>
  BY DEF Objects, Contents
<1> PICK i \in DOMAIN budget.codes[n] : o = <<n, i>>
  BY <1>1
<1>2. n \in Nodes /\ i \in Nat \ {0}
  BY <1>1, BudgetShape
<1> QED BY <1>1, <1>2 DEF Contents

LEMMA RowsBelow ==
    ASSUME budget \in Budgets, NEW n \in Parents
    PROVE  /\ Below(n) \subseteq Objects
           /\ \A o \in Below(n) : o[1] \in ToSet(budget.kids[n])
           /\ \A k \in ToSet(budget.kids[n]) : Contents(k) \subseteq Below(n) /\ <<k, 1>> \in Below(n)
<1>1. ToSet(budget.kids[n]) \subseteq InBudget /\ InBudget \subseteq Nodes
  BY BudgetShape
<1>2. Below(n) \subseteq Objects
  BY <1>1 DEF Below, Objects
<1>3. \A o \in Below(n) : o[1] \in ToSet(budget.kids[n])
  BY DEF Below, Contents
<1>4. \A k \in ToSet(budget.kids[n]) : Contents(k) \subseteq Below(n) /\ <<k, 1>> \in Below(n)
  BY <1>1, BudgetShape DEF Below
<1> QED BY <1>2, <1>3, <1>4

\* A map after the rows are written to it.
LEMMA Written ==
    ASSUME NEW rs \in Seq(Objects), NEW map, NEW c \in Codes
    PROVE  /\ (\A r \in ToSet(rs) : Code(r) # c) => WrittenTo(map, rs)[c] = map[c]
           /\ (\E r \in ToSet(rs) : Code(r) = c) =>
                WrittenTo(map, rs)[c] \in ToSet(rs) /\ Code(WrittenTo(map, rs)[c]) = c
<1> DEFINE written == {i \in DOMAIN rs : Code(rs[i]) = c}
<1>1. WrittenTo(map, rs)[c] = IF written = {} THEN map[c] ELSE rs[Max(written)]
  BY DEF WrittenTo
<1>2. DOMAIN rs = 1 .. Len(rs) /\ Len(rs) \in Nat
  OBVIOUS
<1>3. ASSUME \A r \in ToSet(rs) : Code(r) # c PROVE written = {}
  BY <1>3 DEF ToSet
<1>4. ASSUME \E r \in ToSet(rs) : Code(r) = c PROVE written # {}
  BY <1>4 DEF ToSet
<1>5. written \in SUBSET (1 .. Len(rs))
  BY <1>2
<1>6. \A i \in written : rs[i] \in ToSet(rs) /\ Code(rs[i]) = c
  BY DEF ToSet
<1> HIDE DEF written
<1>7. written # {} => Max(written) \in written
  BY <1>2, <1>5, MaxOfSome
<1> QED BY <1>1, <1>3, <1>4, <1>6, <1>7

\* The rows that get a task.
LEMMA Drilling ==
    ASSUME budget \in Budgets, NEW rs \in Seq(Objects)
    PROVE  /\ ToDrill(rs) \in Seq(Objects)
           /\ \A o \in ToSet(ToDrill(rs)) :
                o \in ToSet(rs) /\ o \in Objects /\ o[1] \in Nodes /\ o[1] \in InBudget /\ o[1] \notin drilled
           /\ \A o \in Objects :
                o \in ToSet(ToDrill(rs)) <=>
                    /\ o \in ToSet(rs) /\ ~IsLeaf(o[1]) /\ o[1] \notin drilled
                    /\ \A i \in DOMAIN budget.codes[o[1]] : <<o[1], i>> \in ToSet(rs) => o[2] <= i
<1> DEFINE T == {o \in Objects :
                  /\ ~IsLeaf(o[1])
                  /\ o[1] \notin drilled
                  /\ \A i \in DOMAIN budget.codes[o[1]] : <<o[1], i>> \in ToSet(rs) => o[2] <= i}
           nd == ToDrill(rs)
<1>1. nd = Picked(rs, T)
  BY DEF ToDrill
<1> HIDE DEF T, nd
<1>2. nd \in Seq(Objects) /\ ToSet(nd) = ToSet(rs) \cap T
  BY <1>1, PickedItems
<1>3. \A o \in ToSet(nd) : o \in ToSet(rs) /\ o \in Objects /\ o[1] \notin drilled
  BY <1>2 DEF T
<1>4. \A o \in ToSet(nd) : o[1] \in Nodes /\ o[1] \in InBudget
  BY <1>3, RowShape
<1>5. \A o \in Objects :
        o \in ToSet(nd) <=>
            /\ o \in ToSet(rs) /\ ~IsLeaf(o[1]) /\ o[1] \notin drilled
            /\ \A i \in DOMAIN budget.codes[o[1]] : <<o[1], i>> \in ToSet(rs) => o[2] <= i
  BY <1>2 DEF T
<1> QED BY <1>2, <1>3, <1>4, <1>5 DEF nd

LEMMA MergeTypes ==
    ASSUME budget \in Budgets, TypesInv, NEW t \in ToSet(tasks) \ merged, Merge(t)
    PROVE  TypesInv'
<1> DEFINE rs == rows[t[1]]
           nd == ToDrill(rs)
           drills == nextDrills \o nd
<1>1. /\ fetch \in [Parents -> {"idle", "first", "later", "done", "failed"}]
      /\ rows \in [Parents -> Seq(Objects)] /\ wanted \in [Parents -> SUBSET Nat]
      /\ tasks \in Seq(Objects \cup {TopRow}) /\ nextDrills \in Seq(Objects)
      /\ merged \subseteq ToSet(tasks) /\ drilled \subseteq Nodes /\ leavesSeen \subseteq Nodes
      /\ index \in [Codes -> Objects \cup {None}]
      /\ children \in [Objects \cup {TopRow} -> [Codes -> Objects \cup {None}]]
      /\ result \in {"none", "ok", "error"} /\ selfInPage \in BOOLEAN /\ misled \subseteq Parents
  BY DEF TypesInv, TreeTypeOK
<1>2. t \in Objects \cup {TopRow}
  BY <1>1 DEF ToSet
<1>3. t[1] \in Parents
  <2>1. t \in Objects => t[1] \in Nodes
    BY RowShape
  <2> QED BY <1>2, <2>1 DEF Parents, TopRow
<1>4. rs \in Seq(Objects)
  BY <1>1, <1>3
<1>5. /\ budget' = budget /\ rows' = rows /\ wanted' = wanted /\ Objects' = Objects
      /\ selfInPage' = selfInPage /\ misled' = misled
  BY SameBudget DEF Merge, ekbVars
<1>6. nd \in Seq(Objects) /\ \A o \in ToSet(nd) : o[1] \in Nodes
  BY <1>4, Drilling
<1>7. \A r \in ToSet(rs) : r \in Objects /\ r[1] \in Nodes
  <2>1. \A r \in ToSet(rs) : r \in Objects
    BY <1>4 DEF ToSet
  <2> QED BY <2>1, RowShape
<1>8. children' = [children EXCEPT ![t] = WrittenTo(@, rs)] /\ index' = WrittenTo(index, rs)
  BY DEF Merge
<1>9. leavesSeen' = CountLeaves(rs) /\ drilled' = drilled \cup {o[1] : o \in ToSet(nd)}
  BY DEF Merge
<1>10. \/ merged' = merged \cup {t} /\ nextDrills' = drills /\ UNCHANGED <<tasks, fetch, result>>
       \/ /\ tasks' = drills /\ merged' = {} /\ nextDrills' = <<>>
          /\ fetch' = [m \in Parents |-> IF \E o \in ToSet(drills) : o[1] = m THEN "first" ELSE fetch[m]]
          /\ result' = IF t = TopRow /\ rs = <<>> THEN "error" ELSE IF drills = <<>> THEN "ok" ELSE "none"
  BY DEF Merge
<1> HIDE DEF nd
<1>11. drills \in Seq(Objects) /\ <<>> \in Seq(Objects)
  BY <1>1, <1>6, Joining
<1> HIDE DEF drills, rs
<1>12. \A map \in [Codes -> Objects \cup {None}] : WrittenTo(map, rs) \in [Codes -> Objects \cup {None}]
  <2>1. SUFFICES ASSUME NEW map \in [Codes -> Objects \cup {None}], NEW c \in Codes
                 PROVE  WrittenTo(map, rs)[c] \in Objects \cup {None}
    BY DEF WrittenTo
  <2>2. CASE \A r \in ToSet(rs) : Code(r) # c
    <3>1. WrittenTo(map, rs)[c] = map[c]
      BY <1>4, <2>2, Written
    <3> QED BY <3>1
  <2>3. CASE \E r \in ToSet(rs) : Code(r) = c
    BY <1>4, <1>7, <2>3, Written
  <2> QED BY <2>2, <2>3
<1>13. children' \in [Objects \cup {TopRow} -> [Codes -> Objects \cup {None}]]
  BY <1>1, <1>2, <1>8, <1>12
<1>14. index' \in [Codes -> Objects \cup {None}]
  BY <1>1, <1>8, <1>12
<1>15. leavesSeen' \subseteq Nodes /\ drilled' \subseteq Nodes
  BY <1>1, <1>6, <1>7, <1>9 DEF CountLeaves
<1>16. /\ tasks' \in Seq(Objects \cup {TopRow}) /\ nextDrills' \in Seq(Objects)
       /\ merged' \subseteq ToSet(tasks') /\ result' \in {"none", "ok", "error"}
       /\ fetch' \in [Parents -> {"idle", "first", "later", "done", "failed"}]
  <2>1. drills \in Seq(Objects \cup {TopRow})
    BY <1>11
  <2>2. CASE merged' = merged \cup {t} /\ nextDrills' = drills /\ UNCHANGED <<tasks, fetch, result>>
    BY <1>1, <1>11, <2>2
  <2>3. CASE /\ tasks' = drills /\ merged' = {} /\ nextDrills' = <<>>
             /\ fetch' = [m \in Parents |-> IF \E o \in ToSet(drills) : o[1] = m THEN "first" ELSE fetch[m]]
             /\ result' = IF t = TopRow /\ rs = <<>> THEN "error" ELSE IF drills = <<>> THEN "ok" ELSE "none"
    <3>1. fetch' \in [Parents -> {"idle", "first", "later", "done", "failed"}]
      BY <1>1, <2>3
    <3>2. result' \in {"none", "ok", "error"}
      BY <2>3
    <3> QED BY <1>11, <2>1, <2>3, <3>1, <3>2
  <2> QED BY <1>10, <2>2, <2>3
<1>17. ToSet(tasks') \cup ToSet(nextDrills') \subseteq Objects \cup {TopRow}
  BY <1>16 DEF ToSet
<1>18. \A n \in Parents : ToSet(rows'[n]) \subseteq Objects /\ wanted'[n] \subseteq Nat
  BY <1>5 DEF TypesInv, TreeTypeOK
<1>19. TreeTypeOK'
  BY <1>1, <1>5, <1>13, <1>14, <1>15, <1>16, <1>17, <1>18 DEF TreeTypeOK
<1> QED BY <1>1, <1>5, <1>16, <1>19 DEF TypesInv


\* A merge settles the node of its task, and no other.
LEMMA MergeSettles ==
    ASSUME budget \in Budgets, TypesInv, FetchInv, TaskInv,
           NEW t \in ToSet(tasks) \ merged, Merge(t)
    PROVE  /\ t = <<t[1], 1>> /\ t[1] \in InBudget \cup {Top} /\ t[1] \in Parents
           /\ rows[t[1]] \in Seq(Objects) /\ WholeRows(t[1], ToSet(rows[t[1]]))
           /\ Told(t[1]) => ToSet(rows[t[1]]) = Below(t[1])
           /\ ~Settled(t[1])
           /\ \A m : (Settled(m)' <=> Settled(m) \/ m = t[1])
           /\ Told(t[1]) => \A k \in ToSet(budget.kids[t[1]]) : IsLeaf(k) \/ k \in drilled'
           /\ drilled \subseteq drilled'
           /\ TaskInv'
<1> DEFINE n == t[1]
           rs == rows[n]
           nd == ToDrill(rs)
           drills == nextDrills \o nd
           D == {o[1] : o \in ToSet(nd)}
<1>1. /\ rows \in [Parents -> Seq(Objects)]
      /\ tasks \in Seq(Objects \cup {TopRow}) /\ nextDrills \in Seq(Objects)
      /\ merged \subseteq ToSet(tasks)
  BY DEF TypesInv, TreeTypeOK
<1>2. /\ \A u \in ToSet(tasks) \cup ToSet(nextDrills) : u[2] = 1 /\ (u = TopRow \/ u[1] \in drilled)
      /\ ToSet(tasks) \cap ToSet(nextDrills) = {}
      /\ drilled \subseteq InBudget
  BY DEF TaskInv
<1>3. /\ budget' = budget /\ drilled' = drilled \cup D
      /\ \/ merged' = merged \cup {t} /\ nextDrills' = drills /\ UNCHANGED <<tasks, fetch, result>>
         \/ /\ merged \cup {t} = ToSet(tasks)
            /\ tasks' = drills /\ merged' = {} /\ nextDrills' = <<>>
            /\ result' = IF t = TopRow /\ rs = <<>> THEN "error" ELSE IF drills = <<>> THEN "ok" ELSE "none"
      /\ result = "none" /\ fetch[n] = "done"
  BY DEF Merge, ekbVars
<1>4. t \in Objects \cup {TopRow}
  BY <1>1 DEF ToSet
<1>5. /\ t = <<n, 1>> /\ n \in InBudget \cup {Top} /\ n \in Parents
      /\ n \in drilled \cup {Top}
  <2>1. CASE t = TopRow
    BY <2>1 DEF TopRow, Parents
  <2>2. CASE t # TopRow
    <3>1. t \in Objects /\ t[2] = 1 /\ t[1] \in drilled
      BY <1>2, <1>4, <2>2
    <3>2. t = <<t[1], t[2]>> /\ t[1] \in InBudget /\ t[1] \in Nodes
      BY <3>1, RowShape
    <3> QED BY <3>1, <3>2 DEF Parents
  <2> QED BY <2>1, <2>2
<1> HIDE DEF n
<1>6. rs \in Seq(Objects) /\ WholeRows(n, ToSet(rs)) /\ (Told(n) => ToSet(rs) = Below(n))
  BY <1>1, <1>3, <1>5 DEF FetchInv
<1> HIDE DEF rs
<1>7. /\ nd \in Seq(Objects)
      /\ \A o \in ToSet(nd) :
            o \in ToSet(rs) /\ o \in Objects /\ o[1] \in Nodes /\ o[1] \in InBudget /\ o[1] \notin drilled
      /\ \A o \in Objects :
            o \in ToSet(nd) <=>
                /\ o \in ToSet(rs) /\ ~IsLeaf(o[1]) /\ o[1] \notin drilled
                /\ \A i \in DOMAIN budget.codes[o[1]] : <<o[1], i>> \in ToSet(rs) => o[2] <= i
  BY <1>6, Drilling
<1> HIDE DEF nd
<1>8. ASSUME NEW o \in ToSet(nd) PROVE o[2] = 1 /\ o = <<o[1], 1>>
  <2>1. o \in Objects /\ o[1] \in Nodes
    BY <1>7
  <2>2. o = <<o[1], o[2]>> /\ o[2] \in Nat \ {0}
    BY <2>1, RowShape
  <2>3. <<o[1], 1>> \in ToSet(rs)
    BY <1>6, <1>7 DEF WholeRows
  <2>4. 1 \in DOMAIN budget.codes[o[1]]
    BY <2>1, BudgetShape
  <2>5. o[2] <= 1
    BY <1>7, <2>1, <2>3, <2>4
  <2> QED BY <2>2, <2>5
<1>9. ASSUME Told(n), NEW k \in ToSet(budget.kids[n]) PROVE IsLeaf(k) \/ k \in drilled'
  <2>1. SUFFICES ASSUME ~IsLeaf(k), k \notin drilled PROVE k \in D
    BY <1>3
  <2> DEFINE o == <<k, 1>>
  <2>2. o \in Objects /\ o \in ToSet(rs) /\ o[1] = k /\ o[2] = 1
    BY <1>5, <1>6, <1>9, RowsBelow
  <2>3. \A i \in DOMAIN budget.codes[k] : 1 <= i
    <3>1. k \in Nodes
      BY <2>2, RowShape
    <3> QED BY <3>1, BudgetShape
  <2> HIDE DEF o
  <2>4. o \in ToSet(nd)
    BY <1>7, <2>1, <2>2, <2>3
  <2> QED BY <2>2, <2>4
<1>10. /\ drills \in Seq(Objects) /\ ToSet(drills) = ToSet(nextDrills) \cup ToSet(nd)
  BY <1>1, <1>7, Joining
<1> HIDE DEF drills
<1>11. t \notin ToSet(nd) /\ ToSet(nd) \cap ToSet(tasks) = {}
  <2>1. ASSUME NEW o \in ToSet(nd), o \in ToSet(tasks) PROVE FALSE
    <3>1. o[1] \in Nodes /\ o[1] \notin drilled
      BY <1>7
    <3>2. o = TopRow
      BY <1>2, <2>1, <3>1
    <3> QED BY <3>1, <3>2, BudgetShape DEF TopRow
  <2> QED BY <2>1
<1>12. Pending' = (Pending \ {t}) \cup ToSet(nd)
  <2>1. ToSet(<<>>) = {}
    BY DEF ToSet
  <2>2. t \notin ToSet(nextDrills)
    BY <1>2
  <2>3. CASE merged' = merged \cup {t} /\ nextDrills' = drills /\ UNCHANGED <<tasks, fetch, result>>
    BY <1>10, <2>2, <2>3 DEF Pending
  <2>4. CASE /\ merged \cup {t} = ToSet(tasks)
             /\ tasks' = drills /\ merged' = {} /\ nextDrills' = <<>>
    BY <1>10, <2>1, <2>2, <2>4 DEF Pending
  <2> QED BY <1>3, <2>3, <2>4
<1>13. t \in Pending /\ ~Settled(n)
  BY <1>5 DEF Pending, Settled
<1>14. ASSUME NEW m PROVE (Settled(m)' <=> Settled(m) \/ m = n)
  <2>1. Settled(m)' <=> m \in drilled' \cup {Top} /\ <<m, 1>> \notin Pending'
    BY DEF Settled
  <2>2. Settled(m) <=> m \in drilled \cup {Top} /\ <<m, 1>> \notin Pending
    BY DEF Settled
  <2>3. CASE m = n
    <3>1. n \in drilled' \cup {Top} /\ t \notin Pending'
      BY <1>3, <1>5, <1>11, <1>12
    <3> QED BY <1>5, <2>1, <2>3, <3>1
  <2>4. CASE m \in D
    <3>1. PICK o \in ToSet(nd) : o[1] = m
      BY <2>4
    <3>2. <<m, 1>> \in ToSet(nd) /\ m \notin drilled /\ m \in Nodes
      BY <1>7, <1>8, <3>1
    <3>3. m # Top
      BY <3>2, BudgetShape
    <3>4. m # n
      BY <1>5, <3>2, <3>3
    <3> QED BY <1>12, <2>1, <2>2, <3>2, <3>3, <3>4
  <2>5. CASE m \notin D /\ m # n
    <3>1. <<m, 1>> \notin ToSet(nd)
      <4>1. <<m, 1>> \in ToSet(nd) => <<m, 1>>[1] \in D
        OBVIOUS
      <4>2. <<m, 1>>[1] = m
        OBVIOUS
      <4> QED BY <2>5, <4>1, <4>2
    <3>2. <<m, 1>> # t
      BY <1>5, <2>5
    <3>3. m \in drilled' \cup {Top} <=> m \in drilled \cup {Top}
      BY <1>3, <2>5
    <3> QED BY <1>12, <2>1, <2>2, <2>5, <3>1, <3>2, <3>3
  <2> QED BY <2>3, <2>4, <2>5
<1>15. TaskInv'
  <2>1. \A u \in ToSet(drills) : u[2] = 1 /\ (u = TopRow \/ u[1] \in drilled')
    <3>1. ASSUME NEW u \in ToSet(nextDrills) PROVE u[2] = 1 /\ (u = TopRow \/ u[1] \in drilled')
      BY <1>2, <1>3
    <3>2. ASSUME NEW u \in ToSet(nd) PROVE u[2] = 1 /\ u[1] \in drilled'
      BY <1>3, <1>8
    <3> QED BY <1>10, <3>1, <3>2
  <2>2. D \subseteq InBudget
    BY <1>7
  <2>3. drilled' \subseteq InBudget'
    BY <1>2, <1>3, <2>2, SameBudget
  <2>4. ToSet(<<>>) = {}
    BY DEF ToSet
  <2>5. CASE merged' = merged \cup {t} /\ nextDrills' = drills /\ UNCHANGED <<tasks, fetch, result>>
    <3>1. \A u \in ToSet(tasks') \cup ToSet(nextDrills') : u[2] = 1 /\ (u = TopRow \/ u[1] \in drilled')
      BY <1>2, <1>3, <2>1, <2>5
    <3>2. ToSet(tasks') \cap ToSet(nextDrills') = {}
      BY <1>2, <1>10, <1>11, <2>5
    <3>3. result' # "ok"
      BY <1>3, <2>5
    <3> QED BY <2>3, <3>1, <3>2, <3>3 DEF TaskInv
  <2>6. CASE /\ tasks' = drills /\ merged' = {} /\ nextDrills' = <<>>
             /\ result' = IF t = TopRow /\ rs = <<>> THEN "error" ELSE IF drills = <<>> THEN "ok" ELSE "none"
    <3>1. \A u \in ToSet(tasks') \cup ToSet(nextDrills') : u[2] = 1 /\ (u = TopRow \/ u[1] \in drilled')
      BY <2>1, <2>4, <2>6
    <3>2. ToSet(tasks') \cap ToSet(nextDrills') = {}
      BY <2>4, <2>6
    <3>3. result' = "ok" => Pending' = {}
      BY <2>4, <2>6 DEF Pending
    <3> QED BY <2>3, <3>1, <3>2, <3>3 DEF TaskInv
  <2> QED BY <1>3, <2>5, <2>6
<1>16. drilled \subseteq drilled'
  BY <1>3
<1> QED BY <1>5, <1>6, <1>9, <1>13, <1>14, <1>15, <1>16 DEF n, rs

\* What a merge adds to the tree.
LEMMA MergeShape ==
    ASSUME TreeInv, NEW t \in ToSet(tasks) \ merged, Merge(t)
    PROVE  ShapeInv'
<1> DEFINE n == t[1]
           rs == rows[n]
<1>1. budget \in Budgets /\ TypesInv /\ FetchInv /\ TaskInv /\ ShapeInv
  BY DEF TreeInv
<1>2. /\ t = <<n, 1>> /\ n \in InBudget \cup {Top} /\ n \in Parents
      /\ rs \in Seq(Objects) /\ WholeRows(n, ToSet(rs)) /\ (Told(n) => ToSet(rs) = Below(n))
      /\ ~Settled(n)
      /\ \A m : (Settled(m)' <=> Settled(m) \/ m = n)
      /\ Told(n) => \A k \in ToSet(budget.kids[n]) : IsLeaf(k) \/ k \in drilled'
      /\ drilled \subseteq drilled'
  BY <1>1, MergeSettles
<1>3. /\ children' = [children EXCEPT ![t] = WrittenTo(@, rs)]
      /\ index' = WrittenTo(index, rs) /\ leavesSeen' = CountLeaves(rs)
      /\ budget' = budget /\ selfInPage' = selfInPage /\ misled' = misled
  BY DEF Merge, ekbVars
<1>4. /\ children \in [Objects \cup {TopRow} -> [Codes -> Objects \cup {None}]]
      /\ tasks \in Seq(Objects \cup {TopRow})
  BY <1>1 DEF TypesInv, TreeTypeOK
<1>5. t \in Objects \cup {TopRow}
  BY <1>4 DEF ToSet
<1> HIDE DEF n, rs
<1>6. /\ InBudget' = InBudget /\ Objects' = Objects /\ Leaves' = Leaves
      /\ \A k : IsLeaf(k)' = IsLeaf(k)
      /\ \A o : Code(o)' = Code(o) /\ ExpectedChildren(o)' = ExpectedChildren(o)
  BY <1>3, SameBudget
<1>7. /\ \A m : Told(m)' = Told(m)
      /\ \A k : Shown(k)' <=> Shown(k) \/ (Told(n) /\ k \in ToSet(budget.kids[n]))
  <2>1. \A m : Told(m)' = Told(m)
    BY <1>3 DEF Told
  <2>2. \A k : Shown(k) <=> \E m : Settled(m) /\ Told(m) /\ k \in ToSet(budget.kids[m])
    BY DEF Shown, Settled
  <2>3. \A k : Shown(k)' <=> \E m : Settled(m)' /\ Told(m) /\ k \in ToSet(budget.kids[m])
    BY <1>3, <2>1 DEF Shown, Settled
  <2> QED BY <1>2, <2>1, <2>2, <2>3
<1>8. \A m \in InBudget \cup {Top} : m # n => children'[<<m, 1>>] = children[<<m, 1>>]
  <2>1. SUFFICES ASSUME NEW m \in InBudget \cup {Top}, m # n PROVE children'[<<m, 1>>] = children[<<m, 1>>]
    OBVIOUS
  <2>2. <<m, 1>> \in Objects \cup {TopRow}
    BY <1>1, BudgetShape DEF TopRow
  <2>3. <<m, 1>> # t
    BY <1>2, <2>1
  <2> QED BY <1>3, <1>4, <2>2, <2>3
<1>9. \A c \in Codes :
        /\ children'[t][c] \in ExpectedChildren(t)[c] \cup {None}
        /\ Told(n) => children'[t][c] \in ExpectedChildren(t)[c]
  <2>1. SUFFICES ASSUME NEW c \in Codes
                 PROVE  /\ children'[t][c] \in ExpectedChildren(t)[c] \cup {None}
                        /\ Told(n) => children'[t][c] \in ExpectedChildren(t)[c]
    OBVIOUS
  <2> DEFINE map == [d \in Codes |-> None]
  <2>2. children'[t] = WrittenTo(map, rs)
    <3>1. children[t] = map
      BY <1>1, <1>2 DEF ShapeInv
    <3> HIDE DEF map
    <3> QED BY <1>3, <1>4, <1>5, <3>1
  <2>3. ExpectedChildren(t)[c] =
            IF \E r \in Below(n) : Code(r) = c THEN {r \in Below(n) : Code(r) = c} ELSE {None}
    BY DEF ExpectedChildren, Below, n
  <2>4. map[c] = None
    OBVIOUS
  <2> HIDE DEF map
  <2>5. CASE \A r \in ToSet(rs) : Code(r) # c
    BY <1>2, <2>2, <2>3, <2>4, <2>5, Written
  <2>6. CASE \E r \in ToSet(rs) : Code(r) = c
    <3>1. WrittenTo(map, rs)[c] \in ToSet(rs) /\ Code(WrittenTo(map, rs)[c]) = c
      BY <1>2, <2>6, Written
    <3>2. WrittenTo(map, rs)[c] \in Below(n)
      BY <1>2, <3>1 DEF WholeRows
    <3> QED BY <2>2, <2>3, <3>1, <3>2
  <2> QED BY <2>5, <2>6
<1>10. ASSUME NEW m \in InBudget \cup {Top}
       PROVE  IF Settled(m)' THEN RightBelow(m)' ELSE children'[<<m, 1>>] = [c \in Codes |-> None]
  <2>1. CASE m = n
    <3>1. /\ \A c \in Codes : children'[<<m, 1>>][c] \in ExpectedChildren(<<m, 1>>)[c] \cup {None}
          /\ Told(m) =>
              /\ \A c \in Codes : children'[<<m, 1>>][c] \in ExpectedChildren(<<m, 1>>)[c]
              /\ \A k \in ToSet(budget.kids[m]) : IsLeaf(k) \/ k \in drilled'
      BY <1>2, <1>9, <2>1
    <3>2. Settled(m)'
      BY <1>2, <2>1
    <3> QED BY <1>3, <1>6, <1>7, <3>1, <3>2 DEF RightBelow
  <2>2. CASE m # n
    <3>1. IF Settled(m) THEN RightBelow(m) ELSE children[<<m, 1>>] = [c \in Codes |-> None]
      BY <1>1 DEF ShapeInv
    <3>2. (Settled(m)' <=> Settled(m)) /\ children'[<<m, 1>>] = children[<<m, 1>>]
      BY <1>2, <1>8, <2>2
    <3>3. RightBelow(m) => RightBelow(m)'
      BY <1>2, <1>3, <1>6, <1>7, <3>2 DEF RightBelow
    <3> QED BY <3>1, <3>2, <3>3
  <2> QED BY <2>1, <2>2
<1>11. {k \in Leaves : Shown(k)'} \subseteq leavesSeen' /\ leavesSeen' \subseteq Leaves
  <2>1. {k \in Leaves : Shown(k)} \subseteq leavesSeen /\ leavesSeen \subseteq Leaves
    BY <1>1 DEF ShapeInv
  <2>2. leavesSeen' = leavesSeen \cup {o[1] : o \in {r \in ToSet(rs) : IsLeaf(r[1])}}
    BY <1>3 DEF CountLeaves
  <2>3. \A o \in ToSet(rs) : o[1] \in InBudget
    <3>1. \A o \in ToSet(rs) : o \in Objects
      BY <1>2 DEF ToSet
    <3> QED BY <1>1, <3>1, RowShape
  <2>4. leavesSeen' \subseteq Leaves
    BY <2>1, <2>2, <2>3 DEF Leaves
  <2>5. ASSUME NEW k \in Leaves, Told(n), k \in ToSet(budget.kids[n]) PROVE k \in leavesSeen'
    <3>1. <<k, 1>> \in ToSet(rs) /\ <<k, 1>>[1] = k
      BY <1>1, <1>2, <2>5, RowsBelow
    <3>2. IsLeaf(<<k, 1>>[1])
      BY <3>1 DEF Leaves
    <3> QED BY <2>2, <3>1, <3>2
  <2> QED BY <1>7, <2>1, <2>2, <2>4, <2>5
<1>12. ASSUME NEW c \in Codes
       PROVE  \/ index'[c] = None /\ \A o \in Objects : Code(o) = c => ~Shown(o[1])'
              \/ index'[c] \in Objects /\ Code(index'[c]) = c
  <2>1. CASE \E r \in ToSet(rs) : Code(r) = c
    <3>1. index'[c] \in ToSet(rs) /\ Code(index'[c]) = c
      BY <1>2, <1>3, <2>1, Written
    <3>2. index'[c] \in Objects
      BY <1>2, <3>1 DEF ToSet
    <3> QED BY <3>1, <3>2
  <2>2. CASE \A r \in ToSet(rs) : Code(r) # c
    <3>1. index'[c] = index[c]
      BY <1>2, <1>3, <2>2, Written
    <3>2. RightIndex(c)
      BY <1>1 DEF ShapeInv
    <3>3. ASSUME NEW o \in Objects, Code(o) = c, Told(n) PROVE o[1] \notin ToSet(budget.kids[n])
      <4>1. o \in Contents(o[1])
        BY <1>1, RowShape
      <4>2. o[1] \in ToSet(budget.kids[n]) => o \in Below(n)
        BY <1>1, <1>2, <4>1, RowsBelow
      <4> QED BY <1>2, <2>2, <3>3, <4>2
    <3> QED BY <1>7, <3>1, <3>2, <3>3 DEF RightIndex
  <2> QED BY <2>1, <2>2
<1>13. \A m \in (InBudget \cup {Top})' :
         (IF Settled(m) THEN RightBelow(m) ELSE children[<<m, 1>>] = [c \in Codes |-> None])'
  BY <1>6, <1>10
<1>14. ({k \in Leaves : Shown(k)} \subseteq leavesSeen /\ leavesSeen \subseteq Leaves)'
  BY <1>6, <1>11
<1>15. \A c \in Codes : RightIndex(c)'
  BY <1>6, <1>12 DEF RightIndex
<1> QED BY <1>13, <1>14, <1>15 DEF ShapeInv

LEMMA MergeStep ==
    ASSUME TreeInv, NEW t \in ToSet(tasks), Merge(t)
    PROVE  TreeInv'
<1>1. /\ t \in ToSet(tasks) \ merged /\ rows' = rows /\ wanted' = wanted
      /\ budget' = budget /\ selfInPage' = selfInPage /\ misled' = misled
  BY DEF Merge, ekbVars
<1>2. budget \in Budgets /\ TypesInv /\ FetchInv /\ TaskInv
  BY DEF TreeInv
<1>3. TypesInv'
  BY <1>1, <1>2, MergeTypes
<1>4. TaskInv'
  BY <1>1, <1>2, MergeSettles
<1>5. ShapeInv'
  BY <1>1, MergeShape
<1>6. \A m \in Parents : fetch'[m] \in {"first", fetch[m]}
  <2>1. fetch' = fetch \/ \E drills :
          fetch' = [m \in Parents |-> IF \E o \in ToSet(drills) : o[1] = m THEN "first" ELSE fetch[m]]
    BY DEF Merge
  <2> QED BY <2>1
<1>7. FetchInv'
  <2>1. /\ \A m : Below(m)' = Below(m) /\ LaterPages(m)' = LaterPages(m)
        /\ \A m, S : WholeRows(m, S)' = WholeRows(m, S)
    BY <1>1, SameBudget
  <2>2. \A m, P : RowsOnPages(m, P)' = RowsOnPages(m, P)
    BY <1>1, SameBudget
  <2>3. \A m : Told(m)' = Told(m)
    BY <1>1 DEF Told
  <2> QED BY <1>1, <1>2, <1>6, <2>1, <2>2, <2>3 DEF FetchInv
<1> QED BY <1>1, <1>2, <1>3, <1>4, <1>5, <1>7 DEF TreeInv

\* The build gives up.
LEMMA EndStep ==
    ASSUME TreeInv, result' = "error",
           UNCHANGED <<ekbVars, tasks, merged, nextDrills, drilled, fetchVars, storeVars>>
    PROVE  TreeInv'
<1>1. /\ budget' = budget /\ tasks' = tasks /\ merged' = merged /\ nextDrills' = nextDrills
      /\ selfInPage' = selfInPage /\ misled' = misled
      /\ drilled' = drilled /\ fetch' = fetch /\ rows' = rows /\ wanted' = wanted
      /\ children' = children /\ index' = index /\ leavesSeen' = leavesSeen
  BY DEF ekbVars, fetchVars, storeVars
<1>2. Objects' = Objects /\ InBudget' = InBudget
  BY <1>1, SameBudget
<1>3. TypesInv'
  BY <1>1, <1>2 DEF TreeInv, TypesInv, TreeTypeOK
<1>4. FetchInv'
  <2>1. /\ \A m : Below(m)' = Below(m) /\ LaterPages(m)' = LaterPages(m)
        /\ \A m, S : WholeRows(m, S)' = WholeRows(m, S)
    BY <1>1, SameBudget
  <2>2. \A m, P : RowsOnPages(m, P)' = RowsOnPages(m, P)
    BY <1>1, SameBudget
  <2>3. \A m : Told(m)' = Told(m)
    BY <1>1 DEF Told
  <2> QED BY <1>1, <2>1, <2>2, <2>3 DEF FetchInv, TreeInv
<1>5. TaskInv'
  BY <1>1, <1>2 DEF TaskInv, TreeInv
<1>6. ShapeInv'
  BY <1>1, ShapeStays DEF TreeInv
<1> QED BY <1>1, <1>3, <1>4, <1>5, <1>6 DEF TreeInv

-----------------------------------------------------------------------------
(* The specification                                                        *)

LEMMA TreeStarts == TreeInit => TreeInv
<1> SUFFICES ASSUME TreeInit PROVE TreeInv
  OBVIOUS
<1>1. /\ budget \in Budgets /\ result = "none" /\ tasks = <<TopRow>> /\ merged = {} /\ nextDrills = <<>>
      /\ drilled = {} /\ fetch = [n \in Parents |-> IF n = Top THEN "first" ELSE "idle"]
      /\ rows = [n \in Parents |-> <<>>] /\ wanted = [n \in Parents |-> {}]
      /\ children = [o \in Objects \cup {TopRow} |-> [c \in Codes |-> None]]
      /\ index = [c \in Codes |-> None] /\ leavesSeen = {}
      /\ selfInPage \in BOOLEAN /\ misled = {}
  BY TreeAssumption DEF TreeInit
<1>2. ToSet(<<TopRow>>) = {TopRow} /\ ToSet(<<>>) = {}
  BY DEF ToSet
<1>3. <<TopRow>> \in Seq(Objects \cup {TopRow}) /\ <<>> \in Seq(Objects)
  OBVIOUS
<1>4. TypesInv
  <2>1. rows \in [Parents -> Seq(Objects)]
    BY <1>1, <1>3
  <2>2. wanted \in [Parents -> SUBSET Nat]
    BY <1>1
  <2>3. fetch \in [Parents -> {"idle", "first", "later", "done", "failed"}]
    BY <1>1
  <2>4. \A n \in Parents : ToSet(rows[n]) \subseteq Objects /\ wanted[n] \subseteq Nat
    BY <1>1, <1>2
  <2>5. children \in [Objects \cup {TopRow} -> [Codes -> Objects \cup {None}]]
    <3>1. [c \in Codes |-> None] \in [Codes -> Objects \cup {None}]
      OBVIOUS
    <3> QED BY <1>1, <3>1
  <2>6. index \in [Codes -> Objects \cup {None}]
    BY <1>1
  <2>7. ToSet(tasks) \cup ToSet(nextDrills) \subseteq Objects \cup {TopRow} /\ merged \subseteq ToSet(tasks)
    BY <1>1, <1>2
  <2>8. TreeTypeOK
    BY <1>1, <2>3, <2>4, <2>5, <2>6, <2>7 DEF TreeTypeOK
  <2> QED BY <1>1, <1>3, <2>1, <2>2, <2>8 DEF TypesInv
<1>5. FetchInv
  BY <1>1 DEF FetchInv
<1>6. Pending = {TopRow}
  BY <1>1, <1>2 DEF Pending
<1>7. TaskInv
  BY <1>1, <1>2 DEF TaskInv, TopRow
<1>8. \A n : ~Settled(n)
  BY <1>1, <1>6 DEF Settled, TopRow
<1>9. ShapeInv
  <2>1. \A n \in InBudget \cup {Top} : children[<<n, 1>>] = [c \in Codes |-> None]
    <3>1. ASSUME NEW n \in InBudget \cup {Top} PROVE <<n, 1>> \in Objects \cup {TopRow}
      BY <1>1, BudgetShape DEF TopRow
    <3> QED BY <1>1, <3>1
  <2>2. \A k : ~Shown(k)
    BY <1>8 DEF Shown
  <2>3. \A c \in Codes : RightIndex(c)
    BY <1>1, <2>2 DEF RightIndex
  <2> QED BY <1>1, <1>8, <2>1, <2>2, <2>3 DEF ShapeInv
<1> QED BY <1>1, <1>4, <1>5, <1>7, <1>9 DEF TreeInv

LEMMA TreeSteps == TreeInv /\ [TreeNext]_treeVars => TreeInv'
<1> SUFFICES ASSUME TreeInv, [TreeNext]_treeVars PROVE TreeInv'
  OBVIOUS
<1>1. ASSUME NEW n \in Parents, Request(n) PROVE TreeInv'
  BY <1>1, FirstPageStep, LaterPageStep, PageFailsStep DEF Request
<1>2. ASSUME NEW t \in ToSet(tasks), Merge(t) PROVE TreeInv'
  BY <1>2, MergeStep
<1>3. ASSUME NEW t \in ToSet(tasks), MergeFails(t) PROVE TreeInv'
  <2>1. /\ result' = "error"
        /\ UNCHANGED <<ekbVars, tasks, merged, nextDrills, drilled, fetchVars, storeVars>>
    BY <1>3 DEF MergeFails
  <2> QED BY <2>1, EndStep
<1>4. ASSUME ContextEnds PROVE TreeInv'
  <2>1. /\ result' = "error"
        /\ UNCHANGED <<ekbVars, tasks, merged, nextDrills, drilled, fetchVars, storeVars>>
    BY <1>4 DEF ContextEnds
  <2> QED BY <2>1, EndStep
<1>5. CASE UNCHANGED treeVars
  <2>1. /\ budget' = budget /\ selfInPage' = selfInPage /\ misled' = misled
        /\ UNCHANGED loopVars /\ UNCHANGED storeVars /\ UNCHANGED fetchVars
    BY <1>5 DEF treeVars, ekbVars
  <2>2. fetch' = fetch /\ rows' = rows /\ wanted' = wanted
    BY <2>1 DEF fetchVars
  <2>3. /\ fetch' \in [Parents -> {"idle", "first", "later", "done", "failed"}]
        /\ rows' \in [Parents -> Seq(Objects)]
        /\ wanted' \in [Parents -> SUBSET Nat] /\ misled' \subseteq Parents
    BY <2>1, <2>2 DEF TreeInv, TypesInv, TreeTypeOK
  <2>4. FetchInv'
    <3>1. /\ \A m : Below(m)' = Below(m) /\ LaterPages(m)' = LaterPages(m)
          /\ \A m, S : WholeRows(m, S)' = WholeRows(m, S)
      BY <2>1, SameBudget
    <3>2. \A m, P : RowsOnPages(m, P)' = RowsOnPages(m, P)
      BY <2>1, SameBudget
    <3>3. \A m : Told(m)' = Told(m)
      BY <2>1 DEF Told
    <3> QED BY <2>1, <2>2, <3>1, <3>2, <3>3 DEF FetchInv, TreeInv
  <2> QED BY <2>1, <2>3, <2>4, RestUntouched
<1> QED BY <1>1, <1>2, <1>3, <1>4, <1>5 DEF TreeNext, MergeAny

\* TreeInv is an invariant of the specification.
LEMMA TreeIsInvariant == TreeSpec => []TreeInv
<1> QED BY TreeStarts, TreeSteps, PTL DEF TreeSpec

\* The variables have their types: whatever EKB counts in a page, tasks are rows
\* that it has returned, and a map has rows of the budget or nothing.
THEOREM TreeTypesCorrect == TreeSpec => []TreeTypeOK
<1>1. TreeInv => TreeTypeOK
  BY DEF TreeInv, TypesInv
<1> QED BY <1>1, TreeIsInvariant, PTL

-----------------------------------------------------------------------------
(* A build that has succeeded                                               *)

\* No task is left: what was to be drilled is settled.
LEMMA AllSettled ==
    ASSUME TreeInv, result = "ok"
    PROVE  /\ \A n : Settled(n) <=> n \in drilled \cup {Top}
           /\ drilled \subseteq InBudget
<1>1. Pending = {} /\ drilled \subseteq InBudget
  BY DEF TreeInv, TaskInv
<1> QED BY <1>1 DEF Settled

\* Whatever is answered in which order, with any number of pages and workers: a
\* build that succeeds has left out no row that EKB has told of, and added none.
THEOREM TreeIsComplete == TreeSpec => []CompleteTree
<1>1. TreeInv => CompleteTree
  <2>1. SUFFICES ASSUME TreeInv, result = "ok", NEW n \in drilled \cup {Top} PROVE RightBelow(n)
    BY DEF CompleteTree, RightBelow
  <2>2. Settled(n) /\ n \in InBudget \cup {Top}
    BY <2>1, AllSettled
  <2> QED BY <2>1, <2>2 DEF TreeInv, ShapeInv
<1> QED BY <1>1, TreeIsInvariant, PTL

\* If EKB has told of everything, the tree is the whole budget: the children of a
\* settled node are leaves or settled, and nothing is in the budget that is not below
\* the top.
THEOREM ToldTreeIsWhole ==
    TreeSpec => []((\A n \in Parents : Told(n)) => BuildsWholeTree)
<1>1. ASSUME TreeInv, \A n \in Parents : Told(n) PROVE BuildsWholeTree
  <2>1. SUFFICES ASSUME result = "ok", NEW n \in InBudget \cup {Top}, NEW c \in Codes
                 PROVE  children[<<n, 1>>][c] \in ExpectedChildren(<<n, 1>>)[c]
    BY DEF BuildsWholeTree
  <2>2. budget \in Budgets /\ ShapeInv
    BY <1>1 DEF TreeInv
  <2>3. \A m : Settled(m) <=> m \in drilled \cup {Top}
    BY <1>1, <2>1, AllSettled
  <2>4. drilled \cup {Top} \subseteq InBudget \cup {Top} /\ InBudget \cup {Top} \subseteq Parents
    BY <1>1, <2>1, <2>2, AllSettled, BudgetShape DEF Parents
  <2> DEFINE S == {k \in Nodes : IsLeaf(k) \/ k \in drilled}
  <2>5. \A m \in S \cup {Top} : ToSet(budget.kids[m]) \subseteq S
    <3>1. SUFFICES ASSUME NEW m \in S \cup {Top}, NEW k \in ToSet(budget.kids[m]) PROVE k \in S
      OBVIOUS
    <3>2. m \in Parents
      BY DEF Parents
    <3>3. k \in Nodes
      BY <2>2, <3>1, <3>2, BudgetShape
    <3>4. ~IsLeaf(m)
      BY <3>1 DEF IsLeaf, ToSet
    <3>5. m \in drilled \cup {Top}
      BY <3>4
    <3>6. RightBelow(m) /\ Told(m)
      BY <1>1, <2>2, <2>3, <2>4, <3>2, <3>5 DEF ShapeInv
    <3> QED BY <3>1, <3>3, <3>6 DEF RightBelow
  <2>6. \A m \in Parents : ToSet(budget.kids[m]) \subseteq S
    <3>1. S \in SUBSET Nodes
      OBVIOUS
    <3>2. \A T \in SUBSET Nodes :
            (\A m \in T \cup {Top} : ToSet(budget.kids[m]) \subseteq T) =>
                \A m \in Parents : ToSet(budget.kids[m]) \subseteq T
      BY <2>2, TreeAssumption
    <3> HIDE DEF S
    <3> QED BY <2>5, <3>1, <3>2
  <2>7. n \in S \cup {Top}
    BY <2>6 DEF InBudget
  <2>8. CASE Settled(n)
    BY <1>1, <2>1, <2>2, <2>4, <2>8 DEF ShapeInv, RightBelow
  <2>9. CASE ~Settled(n)
    <3>1. IsLeaf(n)
      BY <2>3, <2>7, <2>9
    <3>2. ToSet(budget.kids[n]) = {}
      BY <3>1 DEF IsLeaf, ToSet
    <3>3. ExpectedChildren(<<n, 1>>)[c] = {None}
      BY <3>2 DEF ExpectedChildren
    <3>4. children[<<n, 1>>] = [d \in Codes |-> None]
      BY <2>1, <2>2, <2>9 DEF ShapeInv
    <3> QED BY <3>3, <3>4
  <2> QED BY <2>8, <2>9
<1> QED BY <1>1, TreeIsInvariant, PTL

\* The count of leaves is of leaves of the budget, each once however many contents
\* it has, and of all that EKB has told of.
THEOREM LeavesCountOnce == TreeSpec => []CountsEachLeafOnce
<1> DEFINE told == UNION {ToSet(budget.kids[n]) : n \in {m \in drilled \cup {Top} : Told(m)}}
<1>1. ASSUME TreeInv, result = "ok"
      PROVE  /\ Cardinality(told \cap Leaves) <= Cardinality(leavesSeen)
             /\ Cardinality(leavesSeen) <= Cardinality(Leaves)
  <2>1. budget \in Budgets /\ {k \in Leaves : Shown(k)} \subseteq leavesSeen /\ leavesSeen \subseteq Leaves
    BY <1>1 DEF TreeInv, ShapeInv
  <2>2. \A k \in told : Shown(k)
    BY <1>1, AllSettled DEF Shown
  <2>3. IsFiniteSet(Leaves)
    <3>1. Leaves \subseteq Nodes /\ IsFiniteSet(Nodes)
      BY <2>1, BudgetShape, TreeAssumption DEF Leaves
    <3> QED BY <3>1, FS_Subset
  <2>4. IsFiniteSet(leavesSeen) /\ Cardinality(leavesSeen) <= Cardinality(Leaves)
    BY <2>1, <2>3, FS_Subset
  <2>5. told \cap Leaves \subseteq leavesSeen
    BY <2>1, <2>2
  <2> HIDE DEF told
  <2>6. Cardinality(told \cap Leaves) <= Cardinality(leavesSeen)
    BY <2>4, <2>5, FS_Subset
  <2> QED BY <2>4, <2>6
<1>2. TreeInv => CountsEachLeafOnce
  BY <1>1 DEF CountsEachLeafOnce
<1> QED BY <1>2, TreeIsInvariant, PTL

\* The index finds a row for each code that EKB has told of, and one with that code.
THEOREM IndexFindsEveryCode == TreeSpec => []IndexCoversTree
<1>1. TreeInv => IndexCoversTree
  <2>1. SUFFICES ASSUME TreeInv, result = "ok", NEW c \in Codes
                 PROVE  /\ index[c] \in {o \in Objects : Code(o) = c} \cup {None}
                        /\ \A n \in drilled \cup {Top} :
                            Told(n) /\ ExpectedChildren(<<n, 1>>)[c] # {None}
                                => index[c] \in {o \in Objects : Code(o) = c}
    BY DEF IndexCoversTree
  <2>2. budget \in Budgets /\ RightIndex(c)
    BY <2>1 DEF TreeInv, ShapeInv
  <2>3. ASSUME NEW n \in drilled \cup {Top}, Told(n), ExpectedChildren(<<n, 1>>)[c] # {None}
        PROVE  \E o \in Objects : Code(o) = c /\ Shown(o[1])
    <3>1. \E k \in ToSet(budget.kids[n]) : \E r \in Contents(k) : Code(r) = c
      BY <2>3 DEF ExpectedChildren
    <3>2. PICK k \in ToSet(budget.kids[n]) : \E r \in Contents(k) : Code(r) = c
      BY <3>1
    <3>3. PICK o \in Contents(k) : Code(o) = c
      BY <3>2
    <3>4. o[1] = k
      BY DEF Contents
    <3>5. Settled(n) /\ n \in Parents
      BY <2>1, <2>2, <2>3, AllSettled, BudgetShape DEF Parents
    <3>6. Shown(k) /\ o \in Objects
      BY <2>2, <2>3, <3>2, <3>3, <3>5, BudgetShape DEF Shown
    <3> QED BY <3>3, <3>4, <3>6
  <2> QED BY <2>2, <2>3 DEF RightIndex
<1> QED BY <1>1, TreeIsInvariant, PTL
=============================================================================
