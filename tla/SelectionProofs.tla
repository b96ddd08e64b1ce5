------------------------- MODULE SelectionProofs -------------------------
(***************************************************************************)
(* What the loops of the program compute, for sequences of any length.     *)
(* The library's induction theorems need a predicate as a parameter; a set *)
(* does as well: a set of naturals that is not empty has a least element.  *)
(***************************************************************************)
EXTENDS Selection, SequencesExt, WellFoundedInduction, TLAPS

-----------------------------------------------------------------------------
(* Induction                                                                *)

LEMMA LeastElement ==
    ASSUME NEW T, T \subseteq Nat, T # {}
    PROVE  \E m \in T : \A k \in T : m <= k
<1>1. \E R : /\ \E x \in T : \A y \in T : <<y, x>> \notin R
             /\ \A x, y \in Nat : y < x => <<y, x>> \in R
  <2>1. \E x \in T : \A y \in T : <<y, x>> \notin OpToRel(<, Nat)
    BY NatLessThanWellFounded, WFMin
  <2>2. \A x, y \in Nat : y < x => <<y, x>> \in OpToRel(<, Nat)
    BY DEF OpToRel
  <2> QED BY <2>1, <2>2
<1>2. PICK R : /\ \E x \in T : \A y \in T : <<y, x>> \notin R
               /\ \A x, y \in Nat : y < x => <<y, x>> \in R
  BY <1>1
<1>3. PICK x \in T : \A y \in T : <<y, x>> \notin R
  BY <1>2
<1>4. ASSUME NEW y \in T PROVE ~(y < x)
  BY <1>2, <1>3, Zenon
<1> QED BY <1>4

LEMMA SetInduction ==
    ASSUME NEW S, 0 \in S, \A n \in Nat : n \in S => n + 1 \in S
    PROVE  Nat \subseteq S
<1> SUFFICES ASSUME Nat \ S # {} PROVE FALSE
  OBVIOUS
<1>1. PICK m \in Nat \ S : \A k \in Nat \ S : m <= k
  BY LeastElement
<1>2. m # 0 /\ m - 1 \in Nat /\ m - 1 \notin Nat \ S
  BY <1>1
<1> QED BY <1>1, <1>2

\* The values of a loop of N rounds, each of which makes a step.
Values(f, N, V, a, step) ==
    /\ f \in [0 .. N -> V]
    /\ f[0] = a
    /\ \A n \in 1 .. N : f[n] = step[<<n, f[n - 1]>>]

LEMMA LoopHasValues ==
    ASSUME NEW N \in Nat, NEW V, NEW a \in V, NEW step \in [(1 .. N) \X V -> V]
    PROVE  \E f : Values(f, N, V, a, step)
<1> DEFINE Upto(m) == \E f \in [0 .. m -> V] :
                        f[0] = a /\ \A n \in 1 .. m : f[n] = step[<<n, f[n - 1]>>]
           S == {m \in Nat : m <= N => Upto(m)}
<1>1. Upto(0)
  <2>1. /\ [i \in 0 .. 0 |-> a] \in [0 .. 0 -> V] /\ [i \in 0 .. 0 |-> a][0] = a
        /\ 1 .. 0 = {}
    OBVIOUS
  <2> QED BY <2>1
<1>2. ASSUME NEW m \in Nat, m + 1 <= N, Upto(m) PROVE Upto(m + 1)
  <2>1. PICK f \in [0 .. m -> V] : f[0] = a /\ \A n \in 1 .. m : f[n] = step[<<n, f[n - 1]>>]
    BY <1>2
  <2> DEFINE g == [n \in 0 .. m + 1 |-> IF n <= m THEN f[n] ELSE step[<<m + 1, f[m]>>]]
  <2>2. m + 1 \in 1 .. N /\ f[m] \in V
    BY <1>2
  <2>3. step[<<m + 1, f[m]>>] \in V
    BY <2>2
  <2>4. g \in [0 .. m + 1 -> V]
    BY <2>3
  <2>5. g[0] = a
    BY <2>1
  <2>6. ASSUME NEW n \in 1 .. m + 1 PROVE g[n] = step[<<n, g[n - 1]>>]
    <3>1. CASE n <= m
      BY <2>1, <3>1
    <3>2. CASE n = m + 1
      <4>1. g[m + 1] = step[<<m + 1, f[m]>>] /\ g[m] = f[m] /\ m + 1 - 1 = m
        OBVIOUS
      <4> HIDE DEF g
      <4> QED BY <3>2, <4>1
    <3> QED BY <3>1, <3>2
  <2> HIDE DEF g
  <2> QED BY <2>4, <2>5, <2>6
<1> HIDE DEF Upto
<1>3. 0 \in S /\ \A m \in Nat : m \in S => m + 1 \in S
  BY <1>1, <1>2
<1>4. N \in S
  BY <1>3, SetInduction
<1>5. Upto(N)
  BY <1>4
<1> QED BY <1>5 DEF Upto, Values

-----------------------------------------------------------------------------
(* Picked                                                                   *)

\* Where the items of a selection were: in the same order, and no earlier.
Places(s, T, q, n, pos) ==
    /\ pos \in [1 .. Len(q) -> 1 .. n]
    /\ \A j \in 1 .. Len(q) : q[j] = s[pos[j]] /\ q[j] \in T /\ j <= pos[j]
    /\ \A i, j \in 1 .. Len(q) : i < j => pos[i] < pos[j]
    /\ \A i \in 1 .. n : s[i] \in T => \E j \in 1 .. Len(q) : pos[j] = i

LEMMA PickedPlaces ==
    ASSUME NEW A, NEW s \in Seq(A), NEW T
    PROVE  /\ Picked(s, T) \in Seq(A)
           /\ \E pos : Places(s, T, Picked(s, T), Len(s), pos)
<1> DEFINE N == Len(s)
           Round(f) == [n \in 0 .. N |-> IF n = 0 THEN <<>>
                                         ELSE IF s[n] \in T THEN Append(f[n - 1], s[n])
                                         ELSE f[n - 1]]
           step == [p \in (1 .. N) \X Seq(A) |-> IF s[p[1]] \in T THEN Append(p[2], s[p[1]]) ELSE p[2]]
           upTo == CHOOSE f : f = Round(f)
<1>1. N \in Nat /\ \A n \in 1 .. N : s[n] \in A /\ n \in 0 .. N /\ n - 1 \in 0 .. N /\ n # 0
  OBVIOUS
<1>2. Picked(s, T) = upTo[N]
  BY DEF Picked
<1> HIDE DEF N
<1>3. \E f : f = Round(f) /\ f[0] = <<>>
             /\ \A n \in 1 .. N : f[n] = IF s[n] \in T THEN Append(f[n - 1], s[n]) ELSE f[n - 1]
  <2>1. step \in [(1 .. N) \X Seq(A) -> Seq(A)] /\ <<>> \in Seq(A)
    BY <1>1
  <2>2. \A n \in 1 .. N, q \in Seq(A) :
           step[<<n, q>>] = IF s[n] \in T THEN Append(q, s[n]) ELSE q
    OBVIOUS
  <2> HIDE DEF step
  <2>3. PICK f : Values(f, N, Seq(A), <<>>, step)
    BY <1>1, <2>1, LoopHasValues
  <2>4. \A n \in 1 .. N : f[n] = IF s[n] \in T THEN Append(f[n - 1], s[n]) ELSE f[n - 1]
    BY <1>1, <2>2, <2>3 DEF Values
  <2>5. \A n \in 0 .. N : f[n] = Round(f)[n]
    <3>1. Round(f)[0] = <<>> /\ 0 \in 0 .. N
      BY <1>1
    <3>2. ASSUME NEW n \in 1 .. N
          PROVE Round(f)[n] = IF s[n] \in T THEN Append(f[n - 1], s[n]) ELSE f[n - 1]
      BY <1>1
    <3>3. \A n \in 0 .. N : n = 0 \/ n \in 1 .. N
      BY <1>1
    <3> HIDE DEF Round
    <3> QED BY <2>3, <2>4, <3>1, <3>2, <3>3 DEF Values
  <2>6. f = Round(f)
    BY <2>3, <2>5 DEF Values
  <2> HIDE DEF Round
  <2> QED BY <2>3, <2>4, <2>6 DEF Values
<1>4. upTo = Round(upTo)
  BY <1>3
<1> HIDE DEF upTo
<1>5. upTo[0] = <<>>
  BY <1>1, <1>4
<1>6. ASSUME NEW n \in 1 .. N
      PROVE  upTo[n] = IF s[n] \in T THEN Append(upTo[n - 1], s[n]) ELSE upTo[n - 1]
  <2>1. upTo[n] = Round(upTo)[n]
    BY <1>4
  <2> QED BY <1>1, <2>1
<1> HIDE DEF Round
<1> DEFINE Good(n) == upTo[n] \in Seq(A) /\ \E pos : Places(s, T, upTo[n], n, pos)
           S == {n \in Nat : n <= N => Good(n)}
<1>7. Good(0)
  <2>1. Places(s, T, <<>>, 0, <<>>)
    BY DEF Places
  <2> QED BY <1>5, <2>1
<1>8. ASSUME NEW n \in Nat, n + 1 <= N, Good(n) PROVE Good(n + 1)
  <2>1. PICK pos : Places(s, T, upTo[n], n, pos)
    BY <1>8
  <2>2. upTo[n] \in Seq(A) /\ n + 1 \in 1 .. N /\ s[n + 1] \in A /\ n + 1 - 1 = n
    BY <1>1, <1>8
  <2>3. upTo[n + 1] = IF s[n + 1] \in T THEN Append(upTo[n], s[n + 1]) ELSE upTo[n]
    BY <1>6, <2>2
  <2>4. CASE s[n + 1] \notin T
    <3>1. upTo[n + 1] = upTo[n]
      BY <2>3, <2>4
    <3>2. Places(s, T, upTo[n], n + 1, pos)
      <4> DEFINE q == upTo[n]
      <4>1. Places(s, T, q, n, pos)
        BY <2>1
      <4> HIDE DEF q
      <4>2. Places(s, T, q, n + 1, pos)
        BY <2>4, <4>1 DEF Places
      <4> QED BY <4>2 DEF q
    <3> QED BY <2>2, <3>1, <3>2
  <2>5. CASE s[n + 1] \in T
    <3> DEFINE q == upTo[n]
               r == Append(q, s[n + 1])
               new == [j \in 1 .. Len(r) |-> IF j <= Len(q) THEN pos[j] ELSE n + 1]
    <3>1. upTo[n + 1] = r
      BY <2>3, <2>5
    <3>2. /\ r \in Seq(A) /\ Len(r) = Len(q) + 1 /\ Len(q) \in Nat
          /\ r[Len(r)] = s[n + 1] /\ \A j \in 1 .. Len(q) : r[j] = q[j]
      BY <2>2
    <3> HIDE DEF q, r
    <3>3. /\ pos \in [1 .. Len(q) -> 1 .. n]
          /\ \A j \in 1 .. Len(q) : q[j] = s[pos[j]] /\ q[j] \in T /\ j <= pos[j]
          /\ \A i, j \in 1 .. Len(q) : i < j => pos[i] < pos[j]
          /\ \A i \in 1 .. n : s[i] \in T => \E j \in 1 .. Len(q) : pos[j] = i
      BY <2>1 DEF Places, q
    <3>4. /\ \A j \in 1 .. Len(q) : new[j] = pos[j] /\ j \in 1 .. Len(r)
          /\ new[Len(r)] = n + 1 /\ Len(r) \in 1 .. Len(r)
          /\ \A j \in 1 .. Len(r) : j \in 1 .. Len(q) \/ j = Len(r)
      BY <3>2
    <3>5. Len(q) <= n
      <4>1. CASE Len(q) = 0
        BY <4>1
      <4>2. CASE Len(q) # 0
        BY <3>2, <3>3, <4>2
      <4> QED BY <4>1, <4>2
    <3>6. new \in [1 .. Len(r) -> 1 .. n + 1]
      BY <3>2, <3>3
    <3> HIDE DEF new
    <3>7. \A j \in 1 .. Len(r) : r[j] = s[new[j]] /\ r[j] \in T /\ j <= new[j]
      BY <2>5, <3>2, <3>3, <3>4, <3>5
    <3>8. \A i, j \in 1 .. Len(r) : i < j => new[i] < new[j]
      BY <3>2, <3>3, <3>4
    <3>9. ASSUME NEW i \in 1 .. n + 1, s[i] \in T PROVE \E j \in 1 .. Len(r) : new[j] = i
      <4>1. CASE i \in 1 .. n
        <5>1. PICK j \in 1 .. Len(q) : pos[j] = i
          BY <3>3, <3>9, <4>1
        <5> QED BY <3>4, <5>1
      <4>2. CASE i = n + 1
        BY <3>4, <4>2
      <4> QED BY <4>1, <4>2
    <3>10. Places(s, T, r, n + 1, new)
      BY <3>6, <3>7, <3>8, <3>9 DEF Places
    <3> QED BY <3>1, <3>2, <3>10
  <2> QED BY <2>4, <2>5
<1> HIDE DEF Good
<1>9. 0 \in S /\ \A n \in Nat : n \in S => n + 1 \in S
  BY <1>1, <1>7, <1>8
<1>10. N \in S
  BY <1>1, <1>9, SetInduction
<1>11. Good(N)
  BY <1>1, <1>10
<1> QED BY <1>2, <1>11 DEF Good, N

-----------------------------------------------------------------------------
(* Appending one slice to another, and all slices of a slice                *)

LEMMA JoiningPlaces ==
    ASSUME NEW A, NEW q \in Seq(A), NEW r \in Seq(A)
    PROVE  /\ q \o r \in Seq(A) /\ DOMAIN q = 1 .. Len(q) /\ DOMAIN r = 1 .. Len(r)
           /\ Len(q) \in Nat /\ Len(r) \in Nat /\ DOMAIN (q \o r) = 1 .. Len(q) + Len(r)
           /\ \A i \in 1 .. Len(q) : i \in 1 .. Len(q) + Len(r) /\ (q \o r)[i] = q[i]
           /\ \A i \in 1 .. Len(r) : Len(q) + i \in 1 .. Len(q) + Len(r) /\ (q \o r)[Len(q) + i] = r[i]
           /\ \A i \in 1 .. Len(q) + Len(r) : i \in 1 .. Len(q) \/ \E h \in 1 .. Len(r) : i = Len(q) + h
<1>1. /\ q \o r \in Seq(A) /\ DOMAIN q = 1 .. Len(q) /\ DOMAIN r = 1 .. Len(r)
      /\ Len(q) \in Nat /\ Len(r) \in Nat /\ DOMAIN (q \o r) = 1 .. Len(q) + Len(r)
  OBVIOUS
<1>2. \A i \in 1 .. Len(q) : i \in 1 .. Len(q) + Len(r) /\ (q \o r)[i] = q[i]
  OBVIOUS
<1>3. \A i \in 1 .. Len(r) : Len(q) + i \in 1 .. Len(q) + Len(r) /\ (q \o r)[Len(q) + i] = r[i]
  OBVIOUS
<1> DEFINE k == Len(q)
           l == Len(r)
<1>4. k \in Nat /\ l \in Nat
  OBVIOUS
<1> HIDE DEF k, l
<1>5. \A i \in 1 .. k + l : i \in 1 .. k \/ \E h \in 1 .. l : i = k + h
  <2>1. SUFFICES ASSUME NEW i \in 1 .. k + l, i \notin 1 .. k PROVE i - k \in 1 .. l /\ i = k + (i - k)
    OBVIOUS
  <2> QED BY <1>4, <2>1
<1> QED BY <1>1, <1>2, <1>3, <1>5 DEF k, l

LEMMA Joining ==
    ASSUME NEW A, NEW q \in Seq(A), NEW r \in Seq(A)
    PROVE  q \o r \in Seq(A) /\ ToSet(q \o r) = ToSet(q) \cup ToSet(r)
<1> DEFINE c == q \o r
           k == Len(q)
           l == Len(r)
<1>1. /\ c \in Seq(A) /\ DOMAIN q = 1 .. k /\ DOMAIN r = 1 .. l /\ DOMAIN c = 1 .. k + l
      /\ \A i \in 1 .. k : i \in 1 .. k + l /\ c[i] = q[i]
      /\ \A i \in 1 .. l : k + i \in 1 .. k + l /\ c[k + i] = r[i]
      /\ \A i \in 1 .. k + l : i \in 1 .. k \/ \E h \in 1 .. l : i = k + h
  BY JoiningPlaces
<1> HIDE DEF c, k, l
<1>2. ToSet(c) \subseteq ToSet(q) \cup ToSet(r)
  <2>1. SUFFICES ASSUME NEW i \in 1 .. k + l PROVE c[i] \in ToSet(q) \cup ToSet(r)
    BY <1>1 DEF ToSet
  <2>2. CASE i \in 1 .. k
    BY <1>1, <2>2 DEF ToSet
  <2>3. CASE \E h \in 1 .. l : i = k + h
    BY <1>1, <2>3 DEF ToSet
  <2> QED BY <1>1, <2>2, <2>3
<1>3. ToSet(q) \subseteq ToSet(c)
  BY <1>1 DEF ToSet
<1>4. ToSet(r) \subseteq ToSet(c)
  BY <1>1 DEF ToSet
<1> QED BY <1>1, <1>2, <1>3, <1>4 DEF c

\* No item of q and a later or earlier one are a pair of C.
NoPair(q, C) == \A i, j \in DOMAIN q : i # j => <<q[i], q[j]>> \notin C

LEMMA JoiningPairs ==
    ASSUME NEW A, NEW C, NEW q \in Seq(A), NEW r \in Seq(A), NoPair(q, C), NoPair(r, C),
           \A x \in ToSet(q), y \in ToSet(r) : <<x, y>> \notin C /\ <<y, x>> \notin C
    PROVE  NoPair(q \o r, C)
<1> DEFINE c == q \o r
           k == Len(q)
           l == Len(r)
<1>1. /\ DOMAIN q = 1 .. k /\ DOMAIN r = 1 .. l /\ DOMAIN c = 1 .. k + l
      /\ \A i \in 1 .. k : c[i] = q[i]
      /\ \A i \in 1 .. l : c[k + i] = r[i]
      /\ \A i \in 1 .. k + l : i \in 1 .. k \/ \E h \in 1 .. l : i = k + h
  BY JoiningPlaces
<1>2. \A i \in 1 .. k, j \in 1 .. l : <<q[i], r[j]>> \notin C /\ <<r[j], q[i]>> \notin C
  BY <1>1 DEF ToSet
<1> HIDE DEF c, k, l
<1>3. SUFFICES ASSUME NEW i \in 1 .. k + l, NEW j \in 1 .. k + l, i # j PROVE <<c[i], c[j]>> \notin C
  BY <1>1 DEF NoPair, c
<1>4. CASE i \in 1 .. k /\ j \in 1 .. k
  BY <1>1, <1>3, <1>4 DEF NoPair
<1>5. CASE i \in 1 .. k /\ \E h \in 1 .. l : j = k + h
  BY <1>1, <1>2, <1>5
<1>6. CASE j \in 1 .. k /\ \E h \in 1 .. l : i = k + h
  BY <1>1, <1>2, <1>6
<1>7. CASE (\E h \in 1 .. l : i = k + h) /\ \E h \in 1 .. l : j = k + h
  <2>1. PICK g \in 1 .. l : i = k + g
    BY <1>7
  <2>2. PICK h \in 1 .. l : j = k + h
    BY <1>7
  <2>3. g # h
    BY <1>3, <2>1, <2>2
  <2> QED BY <1>1, <2>1, <2>2, <2>3 DEF NoPair
<1> QED BY <1>1, <1>4, <1>5, <1>6, <1>7

\* The loop of FlattenSeq has values.
LEMMA FlatteningLoop ==
    ASSUME NEW A, NEW ss \in Seq(Seq(A))
    PROVE  \E flat :
             /\ FlattenSeq(ss) = IF Len(ss) = 0 THEN ss ELSE flat[Len(ss)]
             /\ \A n \in 1 .. Len(ss) : /\ flat[n] \in Seq(A)
                                        /\ flat[n] = IF n = 1 THEN ss[n] ELSE flat[n - 1] \o ss[n]
<1> DEFINE N == Len(ss)
           Round(f) == [i \in 1 .. N |-> IF i = 1 THEN ss[i] ELSE f[i - 1] \o ss[i]]
           step == [p \in (1 .. N) \X Seq(A) |-> p[2] \o ss[p[1]]]
           flat == CHOOSE f : f = Round(f)
<1>1. N \in Nat /\ DOMAIN ss = 1 .. N /\ \A i \in 1 .. N : ss[i] \in Seq(A)
  OBVIOUS
<1>2. FlattenSeq(ss) = IF N = 0 THEN ss ELSE flat[N]
  BY DEF FlattenSeq
<1> HIDE DEF N
<1>3. \E f : f = Round(f) /\ \A n \in 1 .. N : f[n] \in Seq(A)
  <2>1. step \in [(1 .. N) \X Seq(A) -> Seq(A)]
    BY <1>1
  <2>2. \A n \in 1 .. N, q \in Seq(A) : step[<<n, q>>] = q \o ss[n]
    OBVIOUS
  <2> HIDE DEF step
  <2>3. <<>> \in Seq(A)
    OBVIOUS
  <2>4. PICK g : Values(g, N, Seq(A), <<>>, step)
    BY <1>1, <2>1, <2>3, LoopHasValues
  <2>5. /\ g[0] = <<>> /\ \A n \in 1 .. N : g[n] \in Seq(A) /\ g[n - 1] \in Seq(A) /\ g[n] = g[n - 1] \o ss[n]
    <3>1. \A n \in 1 .. N : n \in 0 .. N /\ n - 1 \in 0 .. N
      BY <1>1
    <3> QED BY <2>2, <2>4, <3>1 DEF Values
  <2> DEFINE f == [n \in 1 .. N |-> g[n]]
  <2>6. ASSUME NEW n \in 1 .. N PROVE f[n] = IF n = 1 THEN ss[n] ELSE f[n - 1] \o ss[n]
    <3>1. CASE n = 1
      <4>1. g[1] = <<>> \o ss[1]
        <5>1. g[n] = g[n - 1] \o ss[n]
          BY <2>5
        <5>2. n - 1 = 0 /\ g[0] = <<>>
          BY <2>5, <3>1
        <5> QED BY <3>1, <5>1, <5>2
      <4>2. <<>> \o ss[1] = ss[1]
        BY <1>1, <3>1
      <4> QED BY <3>1, <4>1, <4>2
    <3>2. CASE n # 1
      <4>1. n - 1 \in 1 .. N
        BY <1>1, <3>2
      <4> QED BY <2>5, <3>2, <4>1
    <3> QED BY <3>1, <3>2
  <2>7. f = Round(f)
    BY <2>6
  <2> QED BY <2>5, <2>7
<1>4. flat = Round(flat)
  <2> HIDE DEF Round
  <2> QED BY <1>3
<1>5. \A f : f = Round(f) => \A n \in 1 .. N : f[n] = IF n = 1 THEN ss[n] ELSE f[n - 1] \o ss[n]
  OBVIOUS
<1> DEFINE S == {n \in Nat : n + 1 <= N => flat[n + 1] \in Seq(A)}
<1> HIDE DEF flat
<1>6. \A n \in 1 .. N : flat[n] = IF n = 1 THEN ss[n] ELSE flat[n - 1] \o ss[n]
  <2> HIDE DEF Round
  <2> QED BY <1>4, <1>5
<1>7. 0 \in S
  BY <1>1, <1>6
<1>8. ASSUME NEW n \in Nat, n \in S PROVE n + 1 \in S
  <2>1. SUFFICES ASSUME n + 1 + 1 <= N PROVE flat[n + 1 + 1] \in Seq(A)
    OBVIOUS
  <2> DEFINE m == n + 1
             k == n + 1 + 1
  <2>2. k \in 1 .. N /\ k # 1 /\ k - 1 = m /\ m <= N
    BY <1>1, <2>1
  <2>3. flat[m] \in Seq(A)
    BY <1>8, <2>2
  <2> HIDE DEF k, m
  <2>4. flat[k] = flat[m] \o ss[k] /\ ss[k] \in Seq(A)
    BY <1>1, <1>6, <2>2
  <2>5. flat[k] \in Seq(A)
    BY <2>3, <2>4
  <2> QED BY <2>5 DEF k
<1>9. \A n \in 1 .. N : flat[n] \in Seq(A)
  <2>1. Nat \subseteq S
    BY <1>7, <1>8, SetInduction
  <2>2. SUFFICES ASSUME NEW n \in 1 .. N PROVE flat[n] \in Seq(A)
    OBVIOUS
  <2>3. n - 1 \in Nat /\ n - 1 + 1 = n /\ n <= N
    BY <1>1
  <2>4. n - 1 \in S
    BY <2>1, <2>3
  <2> QED BY <2>3, <2>4
<1> QED BY <1>2, <1>6, <1>9 DEF N

\* The items of the slices of ss, and how they get along with each other.
LEMMA FlatteningPairs ==
    ASSUME NEW A, NEW C, NEW ss \in Seq(Seq(A)),
           \A h \in DOMAIN ss : NoPair(ss[h], C),
           \A h, g \in DOMAIN ss : h # g =>
                \A x \in ToSet(ss[h]), y \in ToSet(ss[g]) : <<x, y>> \notin C
    PROVE  /\ FlattenSeq(ss) \in Seq(A)
           /\ ToSet(FlattenSeq(ss)) = UNION {ToSet(ss[i]) : i \in DOMAIN ss}
           /\ NoPair(FlattenSeq(ss), C)
<1> DEFINE N == Len(ss)
<1>1. N \in Nat /\ DOMAIN ss = 1 .. N /\ \A i \in 1 .. N : ss[i] \in Seq(A)
  OBVIOUS
<1>2. PICK flat : /\ FlattenSeq(ss) = IF N = 0 THEN ss ELSE flat[N]
                  /\ \A n \in 1 .. N : /\ flat[n] \in Seq(A)
                                       /\ flat[n] = IF n = 1 THEN ss[n] ELSE flat[n - 1] \o ss[n]
  BY FlatteningLoop
<1>3. CASE N = 0
  <2>1. ss = <<>>
    BY <1>3
  <2>2. <<>> \in Seq(A) /\ DOMAIN <<>> = {}
    OBVIOUS
  <2> QED BY <1>1, <1>2, <1>3, <2>1, <2>2 DEF ToSet, NoPair
<1>4. CASE N # 0
  <2> HIDE DEF N
  <2> DEFINE Got(n) == UNION {ToSet(ss[i]) : i \in 1 .. n}
             S == {n \in Nat : n + 1 <= N => ToSet(flat[n + 1]) = Got(n + 1) /\ NoPair(flat[n + 1], C)}
  <2>1. 0 \in S
    <3>1. flat[1] = ss[1] /\ NoPair(ss[1], C)
      <4>1. 1 \in 1 .. N
        BY <1>1, <1>4
      <4> QED BY <1>1, <1>2, <4>1
    <3>2. Got(1) = ToSet(ss[1])
      OBVIOUS
    <3> QED BY <3>1, <3>2
  <2>2. ASSUME NEW n \in Nat, n \in S PROVE n + 1 \in S
    <3> DEFINE m == n + 1
               k == m + 1
    <3>1. m \in Nat \ {0} /\ (m <= N => ToSet(flat[m]) = Got(m) /\ NoPair(flat[m], C))
      BY <2>2
    <3> SUFFICES ASSUME k <= N PROVE ToSet(flat[k]) = Got(k) /\ NoPair(flat[k], C)
      OBVIOUS
    <3>2. Got(k) = Got(m) \cup ToSet(ss[k])
      <4>1. 1 .. k = (1 .. m) \cup {k}
        BY <3>1
      <4> HIDE DEF m, k
      <4> QED BY <4>1
    <3>3. k \in 1 .. N /\ k # 1 /\ k - 1 = m /\ m \in 1 .. N /\ k \notin 1 .. m
      BY <1>1, <3>1
    <3>4. \A x \in Got(m), y \in ToSet(ss[k]) : <<x, y>> \notin C /\ <<y, x>> \notin C
      <4>1. \A i \in 1 .. m : i \in 1 .. N /\ i # k
        BY <1>1, <3>3
      <4> HIDE DEF m, k
      <4> QED BY <1>1, <3>3, <4>1
    <3> HIDE DEF m, k, Got
    <3>5. flat[k] = flat[m] \o ss[k] /\ ss[k] \in Seq(A) /\ flat[m] \in Seq(A) /\ NoPair(ss[k], C)
      BY <1>1, <1>2, <3>3
    <3>6. ToSet(flat[m]) = Got(m) /\ NoPair(flat[m], C)
      BY <3>1, <3>3
    <3>7. ToSet(flat[k]) = ToSet(flat[m]) \cup ToSet(ss[k])
      BY <3>5, Joining
    <3>8. NoPair(flat[m] \o ss[k], C)
      BY <3>4, <3>5, <3>6, JoiningPairs
    <3> QED BY <3>2, <3>5, <3>6, <3>7, <3>8
  <2>3. Nat \subseteq S
    BY <2>1, <2>2, SetInduction
  <2>4. N - 1 \in S /\ N - 1 + 1 = N
    <3>1. N - 1 \in Nat /\ N - 1 + 1 = N
      BY <1>1, <1>4
    <3> HIDE DEF S
    <3> QED BY <2>3, <3>1
  <2>5. ToSet(flat[N]) = Got(N) /\ NoPair(flat[N], C)
    BY <1>1, <2>4
  <2>6. FlattenSeq(ss) = flat[N] /\ flat[N] \in Seq(A)
    BY <1>1, <1>2, <1>4
  <2> QED BY <1>1, <2>5, <2>6
<1> QED BY <1>3, <1>4

LEMMA Flattening ==
    ASSUME NEW A, NEW ss \in Seq(Seq(A))
    PROVE  /\ FlattenSeq(ss) \in Seq(A)
           /\ ToSet(FlattenSeq(ss)) = UNION {ToSet(ss[i]) : i \in DOMAIN ss}
<1> DEFINE C == {}
<1>1. /\ \A h \in DOMAIN ss : NoPair(ss[h], C)
      /\ \A h, g \in DOMAIN ss : h # g =>
            \A x \in ToSet(ss[h]), y \in ToSet(ss[g]) : <<x, y>> \notin C
  BY DEF NoPair
<1> HIDE DEF C
<1> QED BY <1>1, FlatteningPairs

\* The items of a selection are those that are wanted.
LEMMA PickedItems ==
    ASSUME NEW A, NEW s \in Seq(A), NEW T
    PROVE  Picked(s, T) \in Seq(A) /\ ToSet(Picked(s, T)) = ToSet(s) \cap T
<1> DEFINE q == Picked(s, T)
<1>1. q \in Seq(A) /\ \E pos : Places(s, T, q, Len(s), pos)
  BY PickedPlaces
<1> HIDE DEF q
<1>2. PICK pos : Places(s, T, q, Len(s), pos)
  BY <1>1
<1>3. DOMAIN q = 1 .. Len(q) /\ DOMAIN s = 1 .. Len(s)
  BY <1>1
<1>4. /\ \A j \in DOMAIN q : pos[j] \in DOMAIN s /\ q[j] = s[pos[j]] /\ q[j] \in T
      /\ \A i \in DOMAIN s : s[i] \in T => \E j \in DOMAIN q : pos[j] = i
  BY <1>2, <1>3 DEF Places
<1>5. ToSet(q) \subseteq ToSet(s) \cap T
  BY <1>4 DEF ToSet
<1>6. ToSet(s) \cap T \subseteq ToSet(q)
  BY <1>4 DEF ToSet
<1> QED BY <1>1, <1>5, <1>6 DEF q
=============================================================================
