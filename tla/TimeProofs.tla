----------------------------- MODULE TimeProofs -----------------------------
(***************************************************************************)
(* Theorems about what is kept for a time.                                 *)
(*                                                                         *)
(* RetrySchedule, for every set of tasks, every table of delays, every     *)
(* period of the ticker and every duration of a callback: no task is given *)
(* up early, none is retried late, and the bucket with its clock           *)
(* implements RetryBucket. That nothing is late rests on where a task      *)
(* stands: before its own callback come those of the batch, a wait for the *)
(* ticker, and those of the items in front of it in the slice; no task     *)
(* comes twice in that list.                                               *)
(*                                                                         *)
(* Host, for every set of browsers, tokens and passwords and every time to *)
(* live: a token is good exactly as long as it was given for.              *)
(***************************************************************************)
EXTENDS RetrySchedule, Host, SelectionProofs, FiniteSetTheorems

-----------------------------------------------------------------------------
(* The schedule of the retries: the inductive invariant                     *)

\* A held task is one item, in the bucket or in the batch.
Placed ==
    /\ \A i, j \in DOMAIN slice : slice[i].task = slice[j].task => i = j
    /\ \A i, j \in DOMAIN batch : batch[i].task = batch[j].task => i = j
    /\ \A i \in DOMAIN slice, j \in DOMAIN batch : slice[i].task # batch[j].task
    /\ \A t \in Tasks : outcome[t] = "held" <=>
            \/ \E i \in DOMAIN slice : slice[i].task = t
            \/ \E j \in DOMAIN batch : batch[j].task = t
    /\ \A t \in Tasks : outcome[t] = "new" => age[t] = 0 /\ waited[t] = 0

\* The delays that an item's retry comes after.
DelaysOf(it) == DelaysUpTo[it.attempt + 1]

NotEarly ==
    /\ \A i \in DOMAIN slice : age[slice[i].task] + slice[i].remaining >= DelaysOf(slice[i])
    /\ \A j \in DOMAIN batch : age[batch[j].task] >= DelaysOf(batch[j])
    /\ \A t \in Tasks : outcome[t] = "dropped" => age[t] >= TotalDelay

\* When an item's retry is due, and when it has ended at the latest.
DueBy(it) == Delay[it.attempt + 1]
EndsBy(it) == DueBy(it) + Lateness

Calls(n) == n * CallTime
WaitForTick == IF tick THEN 0 ELSE ScanEvery - phase
BatchWait == Calls(Len(batch)) - busy

NotLate ==
    /\ batch = <<>> => busy = 0
    /\ \A i \in DOMAIN slice : slice[i].remaining > 0 =>
            waited[slice[i].task] + slice[i].remaining <= DueBy(slice[i])
    /\ \A i \in DOMAIN slice : slice[i].remaining = 0 =>
            waited[slice[i].task] + BatchWait + WaitForTick + Calls(i) <= EndsBy(slice[i])
    /\ \A j \in DOMAIN batch :
            waited[batch[j].task] + Calls(j) - busy <= EndsBy(batch[j])

ScheduleInv == ScheduleTypeOK /\ Placed /\ NotEarly /\ NotLate

-----------------------------------------------------------------------------
(* Delays, and what they add up to                                          *)

LEMMA Constants ==
    /\ Len(Delay) \in Nat \ {0} /\ \A n \in 1 .. Len(Delay) : Delay[n] \in Nat \ {0}
    /\ ScanEvery \in Nat \ {0} /\ CallTime \in Nat \ {0}
    /\ Cardinality(Tasks) \in Nat /\ Lateness \in Nat /\ MaxTokenWait \in Nat
<1>1. Len(Delay) \in Nat \ {0} /\ \A n \in 1 .. Len(Delay) : Delay[n] \in Nat \ {0}
  BY ScheduleAssumption
<1>2. Cardinality(Tasks) \in Nat
  BY ScheduleAssumption, FS_CardinalityType
<1>3. Cardinality(Tasks) * CallTime \in Nat
  BY <1>2, ScheduleAssumption
<1> QED BY <1>1, <1>2, <1>3, ScheduleAssumption DEF Lateness

LEMMA DelaysAddUp ==
    /\ DelaysUpTo \in [0 .. Len(Delay) -> Nat]
    /\ DelaysUpTo[0] = 0
    /\ \A n \in 1 .. Len(Delay) : DelaysUpTo[n] = DelaysUpTo[n - 1] + Delay[n]
<1> DEFINE N == Len(Delay)
           Sums(f) == [n \in 0 .. N |-> IF n = 0 THEN 0 ELSE f[n - 1] + Delay[n]]
           step == [p \in (1 .. N) \X Nat |-> p[2] + Delay[p[1]]]
<1>1. N \in Nat /\ \A n \in 1 .. N : Delay[n] \in Nat /\ n - 1 \in 0 .. N /\ n # 0 /\ n \in 0 .. N
  BY Constants
<1>2. DelaysUpTo = CHOOSE f : f = Sums(f)
  BY DEF DelaysUpTo
<1> HIDE DEF N
<1>3. step \in [(1 .. N) \X Nat -> Nat] /\ \A n \in 1 .. N, d \in Nat : step[<<n, d>>] = d + Delay[n]
  BY <1>1
<1> HIDE DEF step
<1>4. PICK f : Values(f, N, Nat, 0, step)
  BY <1>1, <1>3, LoopHasValues
<1>5. /\ f \in [0 .. N -> Nat] /\ f[0] = 0 /\ \A n \in 1 .. N : f[n] = f[n - 1] + Delay[n]
  BY <1>1, <1>3, <1>4 DEF Values
<1>6. \A n \in 0 .. N : f[n] = Sums(f)[n]
  BY <1>1, <1>5
<1>7. f = Sums(f)
  BY <1>5, <1>6
<1>8. DelaysUpTo = Sums(DelaysUpTo)
  <2> HIDE DEF Sums
  <2> QED BY <1>2, <1>7
<1>9. DelaysUpTo[0] = 0
  BY <1>1, <1>8
<1>10. \A n \in 1 .. N : DelaysUpTo[n] = DelaysUpTo[n - 1] + Delay[n]
  BY <1>1, <1>8
<1>11. DOMAIN DelaysUpTo = 0 .. N /\ DelaysUpTo = [n \in 0 .. N |-> DelaysUpTo[n]]
  BY <1>8
<1> DEFINE S == {n \in Nat : n <= N => DelaysUpTo[n] \in Nat}
<1>12. 0 \in S /\ \A n \in Nat : n \in S => n + 1 \in S
  BY <1>1, <1>9, <1>10
<1>13. Nat \subseteq S
  BY <1>12, SetInduction
<1>14. \A n \in 0 .. N : DelaysUpTo[n] \in Nat
  BY <1>1, <1>13
<1> QED BY <1>9, <1>10, <1>11, <1>14 DEF N

LEMMA DelaysGrow == \A n \in 0 .. Len(Delay) : DelaysUpTo[n] <= TotalDelay
<1> DEFINE N == Len(Delay)
           S == {k \in Nat : k <= N => DelaysUpTo[N - k] <= TotalDelay}
<1>1. N \in Nat /\ TotalDelay = DelaysUpTo[N]
  BY Constants DEF TotalDelay
<1>2. \A n \in 0 .. N : DelaysUpTo[n] \in Nat
  BY DelaysAddUp
<1>3. \A n \in 1 .. N : DelaysUpTo[n - 1] <= DelaysUpTo[n]
  BY <1>2, DelaysAddUp, Constants
<1> HIDE DEF N
<1>4. 0 \in S
  BY <1>1, <1>2
<1>5. ASSUME NEW k \in Nat, k + 1 <= N, DelaysUpTo[N - k] <= TotalDelay
      PROVE  DelaysUpTo[N - (k + 1)] <= TotalDelay
  <2>1. N - k \in 1 .. N /\ N - k - 1 = N - (k + 1) /\ N - (k + 1) \in 0 .. N /\ N \in 0 .. N
    BY <1>1, <1>5
  <2>2. DelaysUpTo[N - k - 1] <= DelaysUpTo[N - k]
    BY <1>3, <2>1
  <2> QED BY <1>1, <1>2, <1>5, <2>1, <2>2
<1>6. \A k \in Nat : k \in S => k + 1 \in S
  BY <1>1, <1>5
<1>7. Nat \subseteq S
  BY <1>4, <1>6, SetInduction
<1>8. ASSUME NEW n \in 0 .. N PROVE DelaysUpTo[n] <= TotalDelay
  <2>1. N - n \in Nat /\ N - n <= N /\ N - (N - n) = n
    BY <1>1
  <2>2. N - n \in S
    BY <1>7, <2>1
  <2> QED BY <2>1, <2>2
<1> QED BY <1>8 DEF N

LEMMA CallsAddUp ==
    /\ Calls(0) = 0
    /\ \A n \in Nat : Calls(n) \in Nat /\ Calls(n + 1) = Calls(n) + CallTime
    /\ \A m, n \in Nat : m <= n => Calls(m) <= Calls(n)
    /\ \A m, n \in Nat : Calls(m) + Calls(n) = Calls(m + n)
    /\ Lateness = ScanEvery - 1 + Calls(Cardinality(Tasks))
<1>1. CallTime \in Nat
  BY Constants
<1>2. \A n \in Nat : n * CallTime \in Nat /\ (n + 1) * CallTime = n * CallTime + CallTime
  BY <1>1
<1>3. \A m, n \in Nat : m <= n => m * CallTime <= n * CallTime
  BY <1>1
<1>4. \A m, n \in Nat : m * CallTime + n * CallTime = (m + n) * CallTime
  BY <1>1
<1> QED BY <1>1, <1>2, <1>3, <1>4 DEF Calls, Lateness

\* The limits of an item, and those of the same item after one more failure.
LEMMA ItemLimits ==
    ASSUME NEW it \in RetryItem
    PROVE  /\ DelaysOf(it) \in Nat /\ DelaysOf(it) <= TotalDelay /\ TotalDelay \in Nat
           /\ DueBy(it) \in Nat /\ EndsBy(it) \in Nat /\ EndsBy(it) = DueBy(it) + Lateness
<1>1. it.attempt \in Nat /\ it.attempt + 1 \in 1 .. Len(Delay) /\ it.attempt + 1 <= Len(Delay)
  BY Constants DEF RetryItem
<1>2. DelaysOf(it) \in Nat /\ DelaysOf(it) <= TotalDelay /\ TotalDelay \in Nat
  <2>1. it.attempt + 1 \in 0 .. Len(Delay) /\ Len(Delay) \in 0 .. Len(Delay)
    BY <1>1, Constants
  <2> QED BY <2>1, DelaysAddUp, DelaysGrow DEF DelaysOf, TotalDelay
<1>3. DueBy(it) \in Nat
  BY <1>1, Constants DEF DueBy
<1> QED BY <1>2, <1>3, Constants DEF EndsBy

LEMMA NextItem ==
    ASSUME NEW it \in RetryItem, it.attempt + 1 < Len(Delay),
           NEW new, new = [it EXCEPT !.attempt = it.attempt + 1,
                                     !.remaining = DelayBefore(it.attempt + 1)]
    PROVE  /\ new \in RetryItem /\ new.task = it.task /\ new.action = it.action
           /\ new.attempt = it.attempt + 1 /\ new.remaining \in Nat \ {0}
           /\ DelaysOf(new) = DelaysOf(it) + new.remaining
           /\ DueBy(new) = new.remaining
<1>1. it.attempt \in Nat /\ it.attempt + 2 \in 1 .. Len(Delay)
  BY Constants DEF RetryItem
<1>2. DelayBefore(it.attempt + 1) = Delay[it.attempt + 2] /\ Delay[it.attempt + 2] \in Nat \ {0}
  BY <1>1, Constants DEF DelayBefore
<1>3. /\ new \in RetryItem /\ new.task = it.task /\ new.action = it.action
      /\ new.attempt = it.attempt + 1 /\ new.remaining = Delay[it.attempt + 2]
  <2>1. new = [task |-> it.task, action |-> it.action, attempt |-> it.attempt + 1,
               remaining |-> Delay[it.attempt + 2]]
    BY <1>2 DEF RetryItem
  <2>2. it.attempt + 1 \in 0 .. Len(Delay) - 1
    BY <1>1, Constants
  <2> QED BY <1>2, <2>1, <2>2 DEF RetryItem
<1>4. DelaysOf(new) = DelaysOf(it) + new.remaining
  <2>1. new.attempt + 1 = it.attempt + 2 /\ it.attempt + 2 - 1 = it.attempt + 1
    BY <1>1, <1>3
  <2> QED BY <1>1, <1>3, <2>1, DelaysAddUp DEF DelaysOf
<1>5. DueBy(new) = new.remaining
  <2>1. new.attempt + 1 = it.attempt + 2
    BY <1>1, <1>3
  <2> QED BY <1>3, <2>1 DEF DueBy
<1> QED BY <1>2, <1>3, <1>4, <1>5

LEMMA FirstItem ==
    ASSUME NEW t \in Tasks, NEW v \in Verdicts,
           NEW new, new = [task |-> t, action |-> v, attempt |-> 0, remaining |-> FirstDelay]
    PROVE  /\ new \in RetryItem /\ new.task = t /\ new.remaining \in Nat \ {0}
           /\ DelaysOf(new) = new.remaining /\ DueBy(new) = new.remaining
<1>1. Delay[1] \in Nat \ {0} /\ 1 \in 1 .. Len(Delay) /\ Len(Delay) - 1 \in Nat
  BY Constants
<1>2. /\ new \in RetryItem /\ new.task = t /\ new.attempt = 0 /\ new.remaining = Delay[1]
  BY <1>1 DEF RetryItem, FirstDelay
<1>3. DelaysUpTo[1] = Delay[1]
  BY <1>1, DelaysAddUp
<1> QED BY <1>1, <1>2, <1>3, Constants DEF DelaysOf, DueBy

\* The fields of an item, the items of a slice, and an item that has grown older.
LEMMA ItemFields ==
    ASSUME NEW it \in RetryItem
    PROVE  /\ it.task \in Tasks /\ it.action \in Verdicts /\ it.remaining \in Nat
           /\ it.attempt \in Nat /\ it.attempt + 1 \in 1 .. Len(Delay)
  BY Constants DEF RetryItem

LEMMA ItemsOf ==
    ASSUME NEW q \in Seq(RetryItem)
    PROVE  /\ Len(q) \in Nat /\ DOMAIN q = 1 .. Len(q)
           /\ \A i \in DOMAIN q : q[i] \in RetryItem /\ i \in Nat
  OBVIOUS

LEMMA OlderItem ==
    ASSUME NEW it \in RetryItem, NEW n \in Nat, NEW new, new = [it EXCEPT !.remaining = n]
    PROVE  /\ new \in RetryItem /\ new.remaining = n
           /\ new.task = it.task /\ new.action = it.action /\ new.attempt = it.attempt
  BY DEF RetryItem

-----------------------------------------------------------------------------
(* Steps                                                                    *)

LEMMA ScheduleInvInit == ScheduleInit => ScheduleInv
<1> SUFFICES ASSUME ScheduleInit PROVE ScheduleInv
  OBVIOUS
<1>1. ScheduleTypeOK
  <2>1. slice \in Seq(RetryItem) /\ batch \in Seq(RetryItem)
    <3>1. slice = <<>> /\ batch = <<>>
      BY DEF ScheduleInit
    <3> QED BY <3>1
  <2>3. /\ age \in [Tasks -> Nat] /\ waited \in [Tasks -> Nat]
        /\ outcome \in [Tasks -> {"new", "held", "delivered", "dropped"}]
    BY DEF ScheduleInit
  <2>4. tick \in BOOLEAN
    BY DEF ScheduleInit
  <2>2. busy \in 0 .. CallTime /\ tokenWait \in 0 .. MaxTokenWait /\ phase \in 0 .. ScanEvery - 1
    BY Constants DEF ScheduleInit
  <2> QED BY <2>1, <2>2, <2>3, <2>4 DEF ScheduleTypeOK
<1>2. Placed /\ NotEarly /\ NotLate
  BY DEF ScheduleInit, Placed, NotEarly, NotLate
<1> QED BY <1>1, <1>2 DEF ScheduleInv

\* The tasks of the batch and of the items up to i are as many tasks.
LEMMA TasksSuffice ==
    ASSUME ScheduleTypeOK, Placed, NEW i \in DOMAIN slice
    PROVE  Len(batch) + i <= Cardinality(Tasks)
<1>1. /\ Len(batch) \in Nat /\ DOMAIN batch = 1 .. Len(batch)
      /\ Len(slice) \in Nat /\ DOMAIN slice = 1 .. Len(slice) /\ i \in Nat
      /\ \A k \in DOMAIN batch : batch[k] \in RetryItem /\ batch[k].task \in Tasks
      /\ \A k \in DOMAIN slice : slice[k] \in RetryItem /\ slice[k].task \in Tasks
  BY ItemsOf, ItemFields DEF ScheduleTypeOK
<1> DEFINE n == Len(batch) + i
           f == [k \in 1 .. n |-> IF k <= Len(batch) THEN batch[k].task
                                  ELSE slice[k - Len(batch)].task]
<1>2. f \in [1 .. n -> Tasks]
  BY <1>1
<1>3. ASSUME NEW k \in 1 .. n, NEW m \in 1 .. n, f[k] = f[m] PROVE k = m
  <2>1. CASE k <= Len(batch) /\ m <= Len(batch)
    BY <1>1, <1>3, <2>1 DEF Placed
  <2>2. CASE k > Len(batch) /\ m > Len(batch)
    <3>1. /\ k - Len(batch) \in DOMAIN slice /\ m - Len(batch) \in DOMAIN slice
          /\ slice[k - Len(batch)].task = slice[m - Len(batch)].task
      BY <1>1, <1>3, <2>2
    <3>2. k - Len(batch) = m - Len(batch)
      BY <3>1 DEF Placed
    <3> QED BY <1>1, <3>2
  <2>3. CASE k <= Len(batch) /\ m > Len(batch)
    <3>1. /\ k \in DOMAIN batch /\ m - Len(batch) \in DOMAIN slice
          /\ batch[k].task = slice[m - Len(batch)].task
      BY <1>1, <1>3, <2>3
    <3> QED BY <3>1 DEF Placed
  <2>4. CASE k > Len(batch) /\ m <= Len(batch)
    <3>1. /\ m \in DOMAIN batch /\ k - Len(batch) \in DOMAIN slice
          /\ batch[m].task = slice[k - Len(batch)].task
      BY <1>1, <1>3, <2>4
    <3> QED BY <3>1 DEF Placed
  <2> QED BY <1>1, <2>1, <2>2, <2>3, <2>4
<1>4. n \in Nat
  BY <1>1
<1> HIDE DEF n, f
<1>5. IsFiniteSet(1 .. n) /\ Cardinality(1 .. n) = n
  BY <1>4, FS_Interval
<1>6. ~(Cardinality(Tasks) < Cardinality(1 .. n))
  <2>1. IsFiniteSet(Tasks)
    BY ScheduleAssumption
  <2> SUFFICES ASSUME Cardinality(Tasks) < Cardinality(1 .. n) PROVE FALSE
    OBVIOUS
  <2>2. \E k, m \in 1 .. n : k # m /\ f[k] = f[m]
    BY <1>2, <1>5, <2>1, FS_PigeonHole
  <2> QED BY <1>3, <2>2
<1> QED BY <1>4, <1>5, <1>6, Constants DEF n

\* One unit of time: the items grow older, and nearer to their retries.
LEMMA NextPhase ==
    ASSUME NEW p \in 0 .. ScanEvery - 1
    PROVE  /\ p + 1 = ScanEvery \/ p + 1 < ScanEvery
           /\ p + 1 < ScanEvery => (p + 1) % ScanEvery = p + 1
           /\ p + 1 = ScanEvery => (p + 1) % ScanEvery = 0
<1>1. ASSUME NEW S \in Nat \ {0}, NEW q \in 0 .. S - 1
      PROVE  /\ q + 1 = S \/ q + 1 < S
             /\ q + 1 < S => (q + 1) % S = q + 1
             /\ q + 1 = S => (q + 1) % S = 0
  <2>1. q + 1 < S => (q + 1) % S = q + 1
    BY <1>1
  <2>2. S % S = 0
    BY <1>1
  <2> QED BY <1>1, <2>1, <2>2
<1> QED BY <1>1, Constants

\* What counts of the unit: k is 1, or 0 when it goes to a wait for a token.
Counts(k) ==
    /\ waited' = [t \in Tasks |-> IF outcome[t] = "held" THEN waited[t] + k ELSE waited[t]]
    /\ batch # <<>> => busy' = busy + k
    /\ batch = <<>> => busy' = 0 /\ k = 1 /\ ~tick
    /\ busy' \in 0 .. CallTime /\ tokenWait' \in 0 .. MaxTokenWait

LEMMA UnitKeeps ==
    ASSUME ScheduleInv, UnitPasses, NEW k \in Nat, k <= 1, Counts(k)
    PROVE  ScheduleInv'
<1> USE DEF ScheduleInv
<1>1. /\ slice \in Seq(RetryItem) /\ batch \in Seq(RetryItem) /\ UNCHANGED <<batch, outcome>>
      /\ slice' = [i \in DOMAIN slice |-> [slice[i] EXCEPT !.remaining = OneUnitLess(@)]]
      /\ batch = <<>> => ~tick /\ busy' = 0
      /\ busy \in 0 .. CallTime /\ phase \in 0 .. ScanEvery - 1 /\ tick \in BOOLEAN
      /\ tick' = (tick \/ phase' = 0)
  BY DEF UnitPasses, ScheduleTypeOK, Counts
<1>12. phase \in 0 .. ScanEvery - 1 /\ tick \in BOOLEAN /\ batch \in Seq(RetryItem)
  BY DEF ScheduleTypeOK
<1>11. /\ batch # <<>> => busy' = busy + k
       /\ batch = <<>> => k = 1
       /\ k \in Nat /\ k <= 1
  BY DEF Counts
<1>2. ASSUME NEW i \in DOMAIN slice
      PROVE  /\ slice[i] \in RetryItem /\ slice'[i] \in RetryItem
             /\ slice'[i].task = slice[i].task /\ slice'[i].attempt = slice[i].attempt
             /\ slice'[i].remaining = OneUnitLess(slice[i].remaining)
  <2>1. slice[i] \in RetryItem /\ slice[i].remaining \in Nat
    BY <1>1, ItemsOf, ItemFields
  <2>2. OneUnitLess(slice[i].remaining) \in Nat
    BY <2>1 DEF OneUnitLess
  <2>3. slice'[i] = [slice[i] EXCEPT !.remaining = OneUnitLess(slice[i].remaining)]
    BY <1>1
  <2> QED BY <2>1, <2>2, <2>3, OlderItem
<1>3. DOMAIN slice' = DOMAIN slice /\ slice' \in Seq(RetryItem) /\ Len(slice') = Len(slice)
  <2>1. DOMAIN slice' = 1 .. Len(slice) /\ Len(slice) \in Nat /\ DOMAIN slice = 1 .. Len(slice)
    BY <1>1, ItemsOf
  <2>2. slice' \in [1 .. Len(slice) -> RetryItem]
    BY <1>1, <1>2, <2>1
  <2>3. slice' \in Seq(RetryItem)
    BY <2>1, <2>2
  <2> QED BY <2>1, <2>3
<1>4. ASSUME NEW t \in Tasks
      PROVE  /\ age[t] \in Nat /\ age'[t] = IF outcome[t] = "held" THEN age[t] + 1 ELSE age[t]
             /\ waited[t] \in Nat /\ waited'[t] = IF outcome[t] = "held" THEN waited[t] + k ELSE waited[t]
  BY DEF UnitPasses, OneUnitMore, Held, ScheduleTypeOK, Counts
<1>5. /\ phase + 1 < ScanEvery => phase' = phase + 1
      /\ phase + 1 = ScanEvery => phase' = 0 /\ tick'
      /\ phase' \in 0 .. ScanEvery - 1 /\ (phase' = 0 => tick')
  <2>1. phase + 1 = ScanEvery => (phase + 1) % ScanEvery = 0
    BY <1>1, NextPhase
  <2>2. phase + 1 < ScanEvery => (phase + 1) % ScanEvery = phase + 1
    BY <1>1, NextPhase
  <2>3. phase + 1 = ScanEvery \/ phase + 1 < ScanEvery
    BY <1>1, NextPhase
  <2>4. phase' = 0 => tick'
    BY <1>1
  <2>6. phase' = (phase + 1) % ScanEvery
    BY DEF UnitPasses
  <2>5. phase' = IF phase + 1 = ScanEvery THEN 0 ELSE phase + 1
    BY <2>1, <2>2, <2>3, <2>6
  <2> QED BY <1>1, <2>4, <2>5, Constants
<1>6. ScheduleTypeOK'
  <2>3. waited' \in [Tasks -> Nat]
    BY <1>4 DEF Counts
  <2>1. age' \in [Tasks -> Nat] /\ outcome' \in [Tasks -> {"new", "held", "delivered", "dropped"}]
    BY <1>1, <1>4 DEF ScheduleTypeOK, UnitPasses, OneUnitMore
  <2>2. busy' \in 0 .. CallTime /\ tokenWait' \in 0 .. MaxTokenWait /\ tick' \in BOOLEAN
    BY <1>1 DEF Counts
  <2> QED BY <1>1, <1>3, <1>5, <2>1, <2>2, <2>3 DEF ScheduleTypeOK
<1>7. Placed'
  <2>1. \A t \in Tasks : outcome'[t] = "new" => age'[t] = 0 /\ waited'[t] = 0
    BY <1>1, <1>4 DEF Placed
  <2>2. \A i, j \in DOMAIN slice : slice'[i].task = slice'[j].task => i = j
    BY <1>2 DEF Placed
  <2>3. \A i \in DOMAIN slice, j \in DOMAIN batch : slice'[i].task # batch[j].task
    BY <1>2 DEF Placed
  <2>4. \A t \in Tasks : outcome[t] = "held" <=>
            \/ \E i \in DOMAIN slice : slice'[i].task = t
            \/ \E j \in DOMAIN batch : batch[j].task = t
    BY <1>2 DEF Placed
  <2>5. UNCHANGED <<batch, outcome>> /\ DOMAIN slice' = DOMAIN slice
    BY <1>1, <1>3
  <2> QED BY <2>1, <2>2, <2>3, <2>4, <2>5 DEF Placed
<1>8. /\ \A i \in DOMAIN slice : /\ slice[i].task \in Tasks
                                 /\ age'[slice[i].task] = age[slice[i].task] + 1
                                 /\ age[slice[i].task] \in Nat
                                 /\ waited'[slice[i].task] = waited[slice[i].task] + k
                                 /\ waited[slice[i].task] \in Nat
      /\ \A j \in DOMAIN batch : /\ batch[j].task \in Tasks /\ batch[j] \in RetryItem
                                 /\ age'[batch[j].task] = age[batch[j].task] + 1
                                 /\ age[batch[j].task] \in Nat
                                 /\ waited'[batch[j].task] = waited[batch[j].task] + k
                                 /\ waited[batch[j].task] \in Nat
  <2>1. /\ \A i \in DOMAIN slice : slice[i].task \in Tasks
        /\ \A j \in DOMAIN batch : batch[j].task \in Tasks /\ batch[j] \in RetryItem
    BY <1>1, ItemsOf, ItemFields
  <2> QED BY <1>4, <2>1 DEF Placed
<1>9. NotEarly'
  <2>1. ASSUME NEW i \in DOMAIN slice
        PROVE  age'[slice'[i].task] + slice'[i].remaining >= DelaysOf(slice'[i])
    <3>1. age[slice[i].task] + slice[i].remaining >= DelaysOf(slice[i])
      BY DEF NotEarly
    <3>2. DelaysOf(slice'[i]) = DelaysOf(slice[i]) /\ DelaysOf(slice[i]) \in Nat
      BY <1>2, ItemLimits DEF DelaysOf
    <3>3. slice[i].remaining \in Nat
      BY <1>2, ItemFields
    <3> QED BY <1>2, <1>8, <3>1, <3>2, <3>3 DEF OneUnitLess
  <2>2. ASSUME NEW j \in DOMAIN batch PROVE age'[batch[j].task] >= DelaysOf(batch[j])
    BY <1>8, ItemLimits DEF NotEarly
  <2>3. \A t \in Tasks : outcome[t] = "dropped" => age'[t] >= TotalDelay
    BY <1>4 DEF NotEarly
  <2> QED BY <1>1, <1>3, <2>1, <2>2, <2>3 DEF NotEarly
<1>10. NotLate'
  <2>1. ASSUME NEW i \in DOMAIN slice
        PROVE  /\ DueBy(slice'[i]) = DueBy(slice[i]) /\ DueBy(slice[i]) \in Nat
               /\ EndsBy(slice'[i]) = DueBy(slice[i]) + Lateness /\ EndsBy(slice[i]) = DueBy(slice[i]) + Lateness
               /\ slice[i].remaining \in Nat /\ i \in Nat /\ Lateness \in Nat
    <3>1. slice[i] \in RetryItem /\ i \in Nat /\ Lateness \in Nat
      BY <1>1, <1>2, ItemsOf, Constants
    <3>2. slice[i].remaining \in Nat /\ DueBy(slice[i]) \in Nat
          /\ EndsBy(slice[i]) = DueBy(slice[i]) + Lateness
      BY <3>1, ItemFields, ItemLimits
    <3>3. DueBy(slice'[i]) = DueBy(slice[i])
      BY <1>2 DEF DueBy
    <3> QED BY <3>1, <3>2, <3>3 DEF EndsBy
  <2>2. ASSUME NEW i \in DOMAIN slice, slice'[i].remaining > 0
        PROVE  waited'[slice'[i].task] + slice'[i].remaining <= DueBy(slice'[i])
    <3>1. slice[i].remaining > 0 /\ slice'[i].remaining = slice[i].remaining - 1
      BY <1>2, <2>1, <2>2 DEF OneUnitLess
    <3> DEFINE a == waited[slice[i].task]
               d == DueBy(slice[i])
               n == slice[i].remaining
    <3>2. a \in Nat /\ d \in Nat /\ n \in Nat /\ a + n <= d
      BY <1>8, <2>1, <3>1 DEF NotLate
    <3>3. waited'[slice'[i].task] = a + k /\ DueBy(slice'[i]) = d /\ slice'[i].remaining = n - 1
      BY <1>2, <1>8, <2>1, <3>1
    <3> HIDE DEF a, d, n
    <3>4. a + k + (n - 1) <= d
      BY <1>11, <3>2
    <3> QED BY <3>3, <3>4
  <2>3. /\ BatchWait \in Int /\ BatchWait' \in Int
        /\ batch # <<>> => BatchWait' = BatchWait - k
        /\ batch = <<>> => BatchWait' = BatchWait
        /\ BatchWait' <= Calls(Len(batch)) /\ Calls(Len(batch)) \in Nat
    <3>1. Calls(Len(batch)) \in Nat /\ Calls(Len(batch))' = Calls(Len(batch))
      BY <1>1, ItemsOf, CallsAddUp
    <3>2. batch = <<>> => busy = 0
      BY DEF NotLate
    <3>3. BatchWait = Calls(Len(batch)) - busy /\ BatchWait' = Calls(Len(batch)) - busy'
      BY <3>1 DEF BatchWait
    <3>4. busy \in Nat
      BY <1>1
    <3>5. CASE batch # <<>>
      BY <1>1, <1>11, <3>1, <3>3, <3>4, <3>5
    <3>6. CASE batch = <<>>
      BY <1>1, <3>1, <3>2, <3>3, <3>4, <3>6
    <3> QED BY <3>5, <3>6
  <2>4. /\ WaitForTick \in Nat /\ WaitForTick' \in Nat /\ WaitForTick' <= ScanEvery - 1
        /\ WaitForTick' <= WaitForTick
        /\ ~tick => WaitForTick' <= WaitForTick - 1
    <3>1. /\ phase \in Nat /\ phase <= ScanEvery - 1 /\ ScanEvery \in Nat
          /\ phase' \in Nat /\ phase' <= ScanEvery - 1
      BY <1>5, <1>12, Constants
    <3>2. /\ tick => WaitForTick = 0
          /\ ~tick => WaitForTick = ScanEvery - phase
          /\ tick' => WaitForTick' = 0
          /\ ~tick' => WaitForTick' = ScanEvery - phase'
      BY DEF WaitForTick
    <3>3. tick => tick'
      BY <1>1
    <3>4. ~tick' => phase' = phase + 1
      <4>1. phase + 1 = ScanEvery \/ phase + 1 < ScanEvery
        BY <3>1
      <4> QED BY <1>5, <4>1
    <3>5. CASE tick
      BY <3>1, <3>2, <3>3, <3>5
    <3>6. CASE ~tick /\ tick'
      BY <3>1, <3>2, <3>6
    <3>7. CASE ~tick /\ ~tick'
      BY <3>1, <3>2, <3>4, <3>7
    <3> QED BY <3>5, <3>6, <3>7
  <2>5. BatchWait' + WaitForTick' + k <= BatchWait + WaitForTick
    <3> DEFINE b == BatchWait
               w == WaitForTick
               b1 == BatchWait'
               w1 == WaitForTick'
    <3>1. b \in Int /\ b1 \in Int /\ w \in Nat /\ w1 \in Nat /\ w1 <= w
      BY <2>3, <2>4
    <3>2. \/ b1 = b - k
          \/ b1 = b /\ w1 <= w - 1 /\ k = 1
      BY <1>1, <1>11, <2>3, <2>4
    <3> HIDE DEF b, w, b1, w1
    <3>3. b1 + w1 + k <= b + w
      BY <1>11, <3>1, <3>2
    <3> QED BY <3>3 DEF b, w, b1, w1
  <2>6. ASSUME NEW i \in DOMAIN slice, slice'[i].remaining = 0
        PROVE  waited'[slice'[i].task] + BatchWait' + WaitForTick' + Calls(i) <= EndsBy(slice'[i])
    <3> DEFINE a == waited[slice[i].task]
               d == DueBy(slice[i])
               e == EndsBy(slice[i])
               c == Calls(i)
               b == Calls(Len(batch))
    <3>1. i \in Nat /\ c \in Nat /\ b \in Nat
      BY <1>1, ItemsOf, CallsAddUp
    <3>2. a \in Nat /\ waited'[slice'[i].task] = a + k
      BY <1>2, <1>8
    <3>3. d \in Nat /\ e = d + Lateness /\ EndsBy(slice'[i]) = e /\ Lateness \in Nat
      BY <2>1
    <3>4. slice[i].remaining = 0 => a + BatchWait + WaitForTick + c <= e
      BY DEF NotLate
    <3>5. slice[i].remaining # 0 => a + 1 <= d
      <4>1. slice[i].remaining # 0 => slice[i].remaining = 1
        BY <1>2, <2>1, <2>6 DEF OneUnitLess
      <4>2. slice[i].remaining > 0 => a + slice[i].remaining <= d
        BY DEF NotLate
      <4>3. slice[i].remaining # 0 => a + 1 <= d
        BY <3>2, <3>3, <4>1, <4>2
      <4> QED BY <4>3
    <3>6. b + c <= Calls(Cardinality(Tasks)) /\ Calls(Cardinality(Tasks)) \in Nat
      <4>1. Len(batch) \in Nat /\ Cardinality(Tasks) \in Nat /\ Len(batch) + i \in Nat
        BY <1>12, <3>1, ItemsOf, Constants
      <4>2. Len(batch) + i <= Cardinality(Tasks)
        BY TasksSuffice
      <4>3. b + c = Calls(Len(batch) + i)
        BY <3>1, <4>1, CallsAddUp
      <4>4. Calls(Len(batch) + i) <= Calls(Cardinality(Tasks)) /\ Calls(Cardinality(Tasks)) \in Nat
        BY <4>1, <4>2, CallsAddUp
      <4> QED BY <4>3, <4>4
    <3>7. Lateness = ScanEvery - 1 + Calls(Cardinality(Tasks)) /\ ScanEvery \in Nat
      BY CallsAddUp, Constants
    <3>8. BatchWait \in Int /\ BatchWait' \in Int /\ WaitForTick \in Nat /\ WaitForTick' \in Nat
      BY <2>3, <2>4
    <3>9. BatchWait' <= b /\ WaitForTick' <= ScanEvery - 1
      BY <2>3, <2>4
    <3> HIDE DEF a, b, c, d, e
    <3>10. BatchWait' + WaitForTick' + c <= Lateness
      BY <3>1, <3>6, <3>7, <3>8, <3>9
    <3>11. slice[i].remaining = 0 => a + k + BatchWait' + WaitForTick' + c <= e
      <4>1. \A b1, b2, w1, w2 \in Int : b1 + w1 + k <= b2 + w2 /\ a + b2 + w2 + c <= e
                                            => a + k + b1 + w1 + c <= e
        BY <1>11, <3>1, <3>2, <3>3
      <4>2. WaitForTick \in Int /\ WaitForTick' \in Int
        BY <3>8
      <4> QED BY <2>5, <3>4, <3>8, <4>1, <4>2
    <3>12. slice[i].remaining # 0 => a + k + BatchWait' + WaitForTick' + c <= e
      <4>1. SUFFICES ASSUME slice[i].remaining # 0
                     PROVE  a + k + (BatchWait' + WaitForTick' + c) <= e
        BY <1>11, <3>1, <3>2, <3>8
      <4>2. a + 1 <= d
        BY <3>5, <4>1
      <4>3. BatchWait' + WaitForTick' + c \in Int
        BY <3>1, <3>8
      <4>4. \A x \in Int : x <= Lateness => a + k + x <= d + Lateness
        BY <1>11, <3>2, <3>3, <4>2
      <4>5. a + k + (BatchWait' + WaitForTick' + c) <= d + Lateness
        BY <3>10, <4>3, <4>4
      <4> QED BY <3>3, <4>5
    <3>13. a + k + BatchWait' + WaitForTick' + c <= e
      BY <3>11, <3>12
    <3> QED BY <3>2, <3>3, <3>13 DEF c
  <2>7. ASSUME NEW j \in DOMAIN batch
        PROVE  waited'[batch[j].task] + Calls(j) - busy' <= EndsBy(batch[j])
    <3> DEFINE a == waited[batch[j].task]
               e == EndsBy(batch[j])
               c == Calls(j)
    <3>1. c \in Nat /\ e \in Nat /\ busy \in Nat
      <4>1. j \in Nat
        BY <1>1, ItemsOf
      <4>2. c \in Nat
        BY <4>1, CallsAddUp
      <4>3. batch[j] \in RetryItem
        BY <1>8
      <4> QED BY <1>1, <4>2, <4>3, ItemLimits
    <3>2. batch # <<>>
      BY <2>7
    <3>3. busy' = busy + k
      BY <1>11, <3>2
    <3>4. a \in Nat /\ waited'[batch[j].task] = a + k
      BY <1>8
    <3>5. a + c - busy <= e
      BY DEF NotLate
    <3> HIDE DEF a, e, c
    <3>6. a + k + c - busy' <= e
      BY <1>11, <3>1, <3>3, <3>4, <3>5
    <3> QED BY <3>4, <3>6 DEF a, e, c
  <2>8. batch' = <<>> => busy' = 0
    BY <1>1
  <2>9. \A i \in DOMAIN slice' : slice'[i].remaining > 0 =>
            waited'[slice'[i].task] + slice'[i].remaining <= DueBy(slice'[i])
    BY <1>3, <2>2
  <2>10. \A i \in DOMAIN slice' : slice'[i].remaining = 0 =>
            waited'[slice'[i].task] + BatchWait' + WaitForTick' + Calls(i) <= EndsBy(slice'[i])
    BY <1>3, <2>6
  <2>11. \A j \in DOMAIN batch' : waited'[batch'[j].task] + Calls(j) - busy' <= EndsBy(batch'[j])
    BY <1>1, <2>7
  <2> QED BY <2>8, <2>9, <2>10, <2>11 DEF NotLate, Calls, DueBy, EndsBy, DelaysOf
<1> QED BY <1>6, <1>7, <1>9, <1>10

LEMMA ClockTickKeeps == ScheduleInv /\ ClockTick => ScheduleInv'
<1> SUFFICES ASSUME ScheduleInv, ClockTick PROVE ScheduleInv'
  OBVIOUS
<1>1. /\ waited \in [Tasks -> Nat] /\ busy \in 0 .. CallTime /\ tokenWait' \in 0 .. MaxTokenWait
  BY DEF ScheduleInv, ScheduleTypeOK, ClockTick
<1>2. waited' = [t \in Tasks |-> IF outcome[t] = "held" THEN waited[t] + 1 ELSE waited[t]]
  BY DEF ClockTick, OneUnitMore, Held
<1>3. /\ batch # <<>> => busy' = busy + 1 /\ busy < CallTime
      /\ batch = <<>> => busy' = 0 /\ ~tick
  BY DEF ClockTick
<1>4. busy' \in 0 .. CallTime
  BY <1>1, <1>3, Constants
<1>5. UnitPasses
  BY DEF ClockTick
<1>6. Counts(1)
  BY <1>1, <1>2, <1>3, <1>4 DEF Counts
<1> QED BY <1>5, <1>6, UnitKeeps

LEMMA TokenWaitKeeps == ScheduleInv /\ TokenWait => ScheduleInv'
<1> SUFFICES ASSUME ScheduleInv, TokenWait PROVE ScheduleInv'
  OBVIOUS
<1>1. /\ waited \in [Tasks -> Nat] /\ busy \in 0 .. CallTime /\ tokenWait \in 0 .. MaxTokenWait
      /\ waited' = waited /\ busy' = busy /\ batch # <<>> /\ UnitPasses
      /\ tokenWait < MaxTokenWait /\ tokenWait' = tokenWait + 1
  BY DEF ScheduleInv, ScheduleTypeOK, TokenWait
<1>2. tokenWait' \in 0 .. MaxTokenWait
  BY <1>1, Constants
<1>3. \A t \in Tasks : waited[t] + 0 = waited[t]
  BY <1>1
<1>4. busy + 0 = busy
  BY <1>1
<1>5. waited' = [t \in Tasks |-> IF outcome[t] = "held" THEN waited[t] + 0 ELSE waited[t]]
  BY <1>1, <1>3
<1>6. Counts(0)
  BY <1>1, <1>2, <1>4, <1>5 DEF Counts
<1> QED BY <1>1, <1>6, UnitKeeps

\* One item more at the end of a slice.
LEMMA OneMore ==
    ASSUME NEW q \in Seq(RetryItem), NEW new \in RetryItem
    PROVE  /\ Append(q, new) \in Seq(RetryItem) /\ Len(q) + 1 \in DOMAIN Append(q, new)
           /\ Append(q, new)[Len(q) + 1] = new
           /\ \A i \in DOMAIN q : i \in DOMAIN Append(q, new) /\ Append(q, new)[i] = q[i]
           /\ \A i \in DOMAIN Append(q, new) : i \in DOMAIN q \/ (i = Len(q) + 1 /\ i \notin DOMAIN q)
  OBVIOUS

\* An item is added that no other item shares its task with.
LEMMA PlacedWithNew ==
    ASSUME ScheduleTypeOK, NEW new \in RetryItem, slice' = Append(slice, new),
           \A i, j \in DOMAIN slice : slice[i].task = slice[j].task => i = j,
           \A i \in DOMAIN slice : slice[i].task # new.task
    PROVE  /\ \A i, j \in DOMAIN slice' : slice'[i].task = slice'[j].task => i = j
           /\ \A t \in Tasks : (\E i \in DOMAIN slice' : slice'[i].task = t) <=>
                                   (t = new.task \/ \E i \in DOMAIN slice : slice[i].task = t)
<1> DEFINE n == Len(slice) + 1
<1>1. /\ n \in DOMAIN slice' /\ slice'[n] = new
      /\ \A i \in DOMAIN slice : i \in DOMAIN slice' /\ slice'[i] = slice[i]
      /\ \A i \in DOMAIN slice' : i \in DOMAIN slice \/ i = n
  BY OneMore DEF ScheduleTypeOK
<1> HIDE DEF n
<1>2. \A i, j \in DOMAIN slice' : slice'[i].task = slice'[j].task => i = j
  BY <1>1
<1>3. ASSUME NEW t \in Tasks
      PROVE  (\E i \in DOMAIN slice' : slice'[i].task = t) <=>
                 (t = new.task \/ \E i \in DOMAIN slice : slice[i].task = t)
  BY <1>1
<1> QED BY <1>2, <1>3

LEMMA AddLaterKeeps ==
    ASSUME ScheduleInv, NEW t \in Tasks, NEW v \in Verdicts, AddLater(t, v)
    PROVE  ScheduleInv'
<1> DEFINE new == [task |-> t, action |-> v, attempt |-> 0, remaining |-> FirstDelay]
<1> USE DEF ScheduleInv
<1>1. /\ new \in RetryItem /\ new.task = t /\ new.remaining \in Nat \ {0}
      /\ DelaysOf(new) = new.remaining /\ DueBy(new) = new.remaining
  BY FirstItem
<1>2. /\ slice' = Append(slice, new) /\ outcome[t] = "new"
      /\ outcome' = [outcome EXCEPT ![t] = "held"]
      /\ batch' = batch /\ busy' = busy /\ phase' = phase /\ tick' = tick /\ age' = age
      /\ waited' = waited /\ tokenWait' = tokenWait
  BY DEF AddLater
<1> HIDE DEF new
<1>3. /\ slice \in Seq(RetryItem) /\ batch \in Seq(RetryItem)
      /\ outcome \in [Tasks -> {"new", "held", "delivered", "dropped"}]
  BY DEF ScheduleTypeOK
<1>4. /\ slice' \in Seq(RetryItem) /\ Len(slice) + 1 \in DOMAIN slice' /\ slice'[Len(slice) + 1] = new
      /\ \A i \in DOMAIN slice : i \in DOMAIN slice' /\ slice'[i] = slice[i]
      /\ \A i \in DOMAIN slice' : i \in DOMAIN slice \/ i = Len(slice) + 1
  BY <1>1, <1>2, <1>3, OneMore
<1>5. \A u \in Tasks : outcome'[u] = IF u = t THEN "held" ELSE outcome[u]
  BY <1>2, <1>3
<1>6. age[t] = 0 /\ waited[t] = 0
  BY <1>2 DEF Placed
<1>7. ScheduleTypeOK'
  <2>1. outcome' \in [Tasks -> {"new", "held", "delivered", "dropped"}]
    BY <1>2, <1>3
  <2> QED BY <1>2, <1>4, <2>1 DEF ScheduleTypeOK
<1>8. Placed'
  <2>1. /\ \A i \in DOMAIN slice : slice[i].task \in Tasks /\ slice[i].task # t
        /\ \A j \in DOMAIN batch : batch[j].task \in Tasks /\ batch[j].task # t
    <3>1. /\ \A i \in DOMAIN slice : slice[i].task \in Tasks
          /\ \A j \in DOMAIN batch : batch[j].task \in Tasks
      BY <1>3, ItemsOf, ItemFields
    <3> QED BY <1>2, <3>1 DEF Placed
  <2>2. /\ \A i, j \in DOMAIN slice' : slice'[i].task = slice'[j].task => i = j
        /\ \A u \in Tasks : (\E i \in DOMAIN slice' : slice'[i].task = u) <=>
                                (u = t \/ \E i \in DOMAIN slice : slice[i].task = u)
    BY <1>1, <1>2, <2>1, PlacedWithNew DEF Placed
  <2>3. \A i \in DOMAIN slice', j \in DOMAIN batch : slice'[i].task # batch[j].task
    BY <1>1, <1>4, <2>1 DEF Placed
  <2>4. \A u \in Tasks : outcome'[u] = "held" <=>
            \/ \E i \in DOMAIN slice' : slice'[i].task = u
            \/ \E j \in DOMAIN batch : batch[j].task = u
    BY <1>5, <2>2 DEF Placed
  <2>5. \A u \in Tasks : outcome'[u] = "new" => age[u] = 0 /\ waited[u] = 0
    BY <1>5 DEF Placed
  <2>6. \A i, j \in DOMAIN batch : batch[i].task = batch[j].task => i = j
    BY DEF Placed
  <2> QED BY <1>2, <2>2, <2>3, <2>4, <2>5, <2>6 DEF Placed
<1>9. NotEarly'
  <2>1. \A i \in DOMAIN slice' : age[slice'[i].task] + slice'[i].remaining >= DelaysOf(slice'[i])
    <3>1. age[new.task] + new.remaining >= DelaysOf(new)
      BY <1>1, <1>6
    <3> QED BY <1>4, <3>1 DEF NotEarly
  <2>2. \A u \in Tasks : outcome'[u] = "dropped" => age[u] >= TotalDelay
    BY <1>5 DEF NotEarly
  <2>3. \A j \in DOMAIN batch : age[batch[j].task] >= DelaysOf(batch[j])
    BY DEF NotEarly
  <2> QED BY <1>2, <2>1, <2>2, <2>3 DEF NotEarly
<1>10. NotLate'
  <2>1. /\ waited[new.task] + new.remaining <= DueBy(new)
        /\ new.remaining # 0
    BY <1>1, <1>6
  <2>2. \A i \in DOMAIN slice' : slice'[i].remaining > 0 =>
            waited[slice'[i].task] + slice'[i].remaining <= DueBy(slice'[i])
    BY <1>4, <2>1 DEF NotLate
  <2>3. \A i \in DOMAIN slice' : slice'[i].remaining = 0 => i \in DOMAIN slice
    BY <1>4, <2>1
  <2>4. \A i \in DOMAIN slice' : slice'[i].remaining = 0 =>
            waited[slice'[i].task] + BatchWait + WaitForTick + Calls(i) <= EndsBy(slice'[i])
    BY <1>4, <2>3 DEF NotLate
  <2>5. /\ batch = <<>> => busy = 0
        /\ \A j \in DOMAIN batch : waited[batch[j].task] + Calls(j) - busy <= EndsBy(batch[j])
    BY DEF NotLate
  <2>6. BatchWait' = BatchWait /\ WaitForTick' = WaitForTick
    BY <1>2 DEF BatchWait, WaitForTick, Calls
  <2> QED BY <1>2, <2>2, <2>4, <2>5, <2>6 DEF NotLate, Calls, EndsBy, DueBy
<1> QED BY <1>7, <1>8, <1>9, <1>10

\* A scan takes every item that is due out of the bucket, and no other.
LEMMA ScanSplits ==
    ASSUME NEW q \in Seq(RetryItem), NEW T
    PROVE  /\ Picked(q, T) \in Seq(RetryItem)
           /\ \A j \in DOMAIN Picked(q, T) : \E i \in DOMAIN q :
                  Picked(q, T)[j] = q[i] /\ q[i] \in T /\ j <= i
           /\ \A i \in DOMAIN q : q[i] \in T => \E j \in DOMAIN Picked(q, T) : Picked(q, T)[j] = q[i]
           /\ (\A i, j \in DOMAIN q : q[i].task = q[j].task => i = j) =>
                  \A i, j \in DOMAIN Picked(q, T) : Picked(q, T)[i].task = Picked(q, T)[j].task => i = j
<1> DEFINE r == Picked(q, T)
<1>1. r \in Seq(RetryItem) /\ \E pos : Places(q, T, r, Len(q), pos)
  BY PickedPlaces
<1> HIDE DEF r
<1>2. PICK pos : Places(q, T, r, Len(q), pos)
  BY <1>1
<1>3. Len(r) \in Nat /\ DOMAIN r = 1 .. Len(r) /\ Len(q) \in Nat /\ DOMAIN q = 1 .. Len(q)
  BY <1>1
<1>4. /\ \A j \in DOMAIN r : pos[j] \in DOMAIN q /\ r[j] = q[pos[j]] /\ r[j] \in T /\ j <= pos[j]
      /\ \A i, j \in DOMAIN r : i < j => pos[i] < pos[j]
      /\ \A i \in DOMAIN q : q[i] \in T => \E j \in DOMAIN r : pos[j] = i
  BY <1>2, <1>3 DEF Places
<1>5. \A j \in DOMAIN r : \E i \in DOMAIN q : r[j] = q[i] /\ q[i] \in T /\ j <= i
  BY <1>4
<1>6. \A i \in DOMAIN q : q[i] \in T => \E j \in DOMAIN r : r[j] = q[i]
  BY <1>4
<1>7. ASSUME \A i, j \in DOMAIN q : q[i].task = q[j].task => i = j,
             NEW i \in DOMAIN r, NEW j \in DOMAIN r, r[i].task = r[j].task
      PROVE  i = j
  <2>1. pos[i] = pos[j]
    BY <1>4, <1>7
  <2>2. ~(i < j) /\ ~(j < i)
    BY <1>3, <1>4, <2>1
  <2> QED BY <1>3, <2>2
<1> QED BY <1>1, <1>5, <1>6, <1>7 DEF r

LEMMA ScanKeeps == ScheduleInv /\ ScanOnTick => ScheduleInv'
<1> SUFFICES ASSUME ScheduleInv, ScanOnTick PROVE ScheduleInv'
  OBVIOUS
<1> USE DEF ScheduleInv
<1> DEFINE ripe == {it \in RetryItem : IsDue(it)}
           rest == {it \in RetryItem : ~IsDue(it)}
<1>1. /\ slice \in Seq(RetryItem) /\ batch = <<>> /\ tick
      /\ batch' = Picked(slice, ripe) /\ slice' = Picked(slice, rest)
      /\ tick' = FALSE /\ busy' = 0 /\ phase' = phase /\ age' = age /\ outcome' = outcome
      /\ waited' = waited /\ tokenWait' = 0
  BY DEF ScanOnTick, ScheduleTypeOK, Keep
<1>2. /\ \A it \in RetryItem : (it \in ripe <=> it.remaining = 0) /\ (it \in rest <=> it.remaining # 0)
      /\ \A it : (it \in ripe => it.remaining = 0) /\ (it \in rest => it.remaining # 0)
  BY DEF IsDue
<1> HIDE DEF ripe, rest
<1>3. \A i, j \in DOMAIN slice : slice[i].task = slice[j].task => i = j
  BY DEF Placed
<1>4. /\ batch' \in Seq(RetryItem)
      /\ \A j \in DOMAIN batch' : \E i \in DOMAIN slice : batch'[j] = slice[i] /\ slice[i] \in ripe /\ j <= i
      /\ \A i \in DOMAIN slice : slice[i] \in ripe => \E j \in DOMAIN batch' : batch'[j] = slice[i]
      /\ \A i, j \in DOMAIN batch' : batch'[i].task = batch'[j].task => i = j
  <2>1. batch' = Picked(slice, ripe)
    BY <1>1
  <2>2. Picked(slice, ripe) \in Seq(RetryItem)
    BY <1>1, ScanSplits
  <2>3. \A j \in DOMAIN batch' : \E i \in DOMAIN slice : batch'[j] = slice[i] /\ slice[i] \in ripe /\ j <= i
    BY <1>1, ScanSplits
  <2>4. \A i \in DOMAIN slice : slice[i] \in ripe => \E j \in DOMAIN batch' : batch'[j] = slice[i]
    BY <1>1, ScanSplits
  <2>5. \A i, j \in DOMAIN batch' : batch'[i].task = batch'[j].task => i = j
    BY <1>1, <1>3, ScanSplits
  <2> QED BY <2>1, <2>2, <2>3, <2>4, <2>5
<1>5. /\ slice' \in Seq(RetryItem)
      /\ \A j \in DOMAIN slice' : \E i \in DOMAIN slice : slice'[j] = slice[i] /\ slice[i] \in rest /\ j <= i
      /\ \A i \in DOMAIN slice : slice[i] \in rest => \E j \in DOMAIN slice' : slice'[j] = slice[i]
      /\ \A i, j \in DOMAIN slice' : slice'[i].task = slice'[j].task => i = j
  <2>1. slice' = Picked(slice, rest)
    BY <1>1
  <2>2. Picked(slice, rest) \in Seq(RetryItem)
    BY <1>1, ScanSplits
  <2>3. \A j \in DOMAIN slice' : \E i \in DOMAIN slice : slice'[j] = slice[i] /\ slice[i] \in rest /\ j <= i
    BY <1>1, ScanSplits
  <2>4. \A i \in DOMAIN slice : slice[i] \in rest => \E j \in DOMAIN slice' : slice'[j] = slice[i]
    BY <1>1, ScanSplits
  <2>5. \A i, j \in DOMAIN slice' : slice'[i].task = slice'[j].task => i = j
    BY <1>1, <1>3, ScanSplits
  <2> QED BY <2>1, <2>2, <2>3, <2>4, <2>5
<1>6. \A i \in DOMAIN slice : slice[i] \in RetryItem /\ slice[i].remaining \in Nat /\ slice[i].task \in Tasks
  BY <1>1, ItemsOf, ItemFields
<1>7. ScheduleTypeOK'
  <2>1. busy' \in 0 .. CallTime /\ phase' \in 0 .. ScanEvery - 1 /\ tick' \in BOOLEAN
    <3>1. busy' = 0 /\ phase' = phase /\ tick' = FALSE
      BY <1>1
    <3>2. phase \in 0 .. ScanEvery - 1
      BY DEF ScheduleTypeOK
    <3>3. 0 \in 0 .. CallTime
      BY Constants
    <3>4. tick' \in BOOLEAN
      BY <3>1
    <3> QED BY <3>1, <3>2, <3>3, <3>4
  <2>3. tokenWait' \in 0 .. MaxTokenWait
    BY <1>1, Constants
  <2>2. age' \in [Tasks -> Nat] /\ waited' \in [Tasks -> Nat] /\ outcome' \in [Tasks -> {"new", "held", "delivered", "dropped"}]
    BY <1>1 DEF ScheduleTypeOK
  <2> QED BY <1>4, <1>5, <2>1, <2>2, <2>3 DEF ScheduleTypeOK
<1>8. Placed'
  <2>1. \A i \in DOMAIN slice', j \in DOMAIN batch' : slice'[i].task # batch'[j].task
    <3>1. SUFFICES ASSUME NEW i \in DOMAIN slice', NEW j \in DOMAIN batch' PROVE slice'[i].task # batch'[j].task
      OBVIOUS
    <3>2. PICK k \in DOMAIN slice : slice'[i] = slice[k] /\ slice[k] \in rest
      BY <1>5
    <3>3. PICK m \in DOMAIN slice : batch'[j] = slice[m] /\ slice[m] \in ripe
      BY <1>4
    <3>4. k # m
      BY <1>2, <3>2, <3>3
    <3> QED BY <1>3, <3>2, <3>3, <3>4
  <2>2. ASSUME NEW t \in Tasks
        PROVE  outcome[t] = "held" <=> \/ \E i \in DOMAIN slice' : slice'[i].task = t
                                       \/ \E j \in DOMAIN batch' : batch'[j].task = t
    <3>1. outcome[t] = "held" <=> \E i \in DOMAIN slice : slice[i].task = t
      BY <1>1 DEF Placed
    <3>2. \A i \in DOMAIN slice : slice[i] \in ripe \/ slice[i] \in rest
      BY <1>2, <1>6
    <3> QED BY <1>4, <1>5, <3>1, <3>2
  <2>3. \A t \in Tasks : outcome[t] = "new" => age[t] = 0 /\ waited[t] = 0
    BY DEF Placed
  <2> QED BY <1>1, <1>4, <1>5, <2>1, <2>2, <2>3 DEF Placed
<1>9. NotEarly'
  <2>1. \A j \in DOMAIN slice' : age[slice'[j].task] + slice'[j].remaining >= DelaysOf(slice'[j])
    BY <1>5 DEF NotEarly
  <2>2. ASSUME NEW j \in DOMAIN batch' PROVE age[batch'[j].task] >= DelaysOf(batch'[j])
    <3>1. PICK i \in DOMAIN slice : batch'[j] = slice[i] /\ slice[i] \in ripe
      BY <1>4
    <3>2. age[slice[i].task] + slice[i].remaining >= DelaysOf(slice[i])
      BY DEF NotEarly
    <3>3. slice[i].remaining = 0 /\ age[slice[i].task] \in Nat /\ DelaysOf(slice[i]) \in Nat
      BY <1>2, <1>6, <3>1, ItemLimits DEF ScheduleTypeOK
    <3> QED BY <3>1, <3>2, <3>3
  <2>3. \A t \in Tasks : outcome[t] = "dropped" => age[t] >= TotalDelay
    BY DEF NotEarly
  <2> QED BY <1>1, <2>1, <2>2, <2>3 DEF NotEarly
<1>10. NotLate'
  <2>1. ASSUME NEW j \in DOMAIN slice'
        PROVE  slice'[j].remaining > 0 /\ waited[slice'[j].task] + slice'[j].remaining <= DueBy(slice'[j])
    <3>1. PICK i \in DOMAIN slice : slice'[j] = slice[i] /\ slice[i] \in rest
      BY <1>5
    <3>2. slice[i].remaining > 0
      BY <1>2, <1>6, <3>1
    <3> QED BY <3>1, <3>2 DEF NotLate
  <2>2. ASSUME NEW j \in DOMAIN batch' PROVE waited[batch'[j].task] + Calls(j) - 0 <= EndsBy(batch'[j])
    <3>1. PICK i \in DOMAIN slice : batch'[j] = slice[i] /\ slice[i] \in ripe /\ j <= i
      BY <1>4
    <3> DEFINE a == waited[slice[i].task]
               e == EndsBy(slice[i])
    <3>2. /\ i \in Nat /\ j \in Nat /\ Calls(i) \in Nat /\ Calls(j) \in Nat /\ Calls(j) <= Calls(i)
      <4>1. i \in Nat /\ j \in Nat /\ j <= i
        BY <1>1, <1>4, <3>1, ItemsOf
      <4> QED BY <4>1, CallsAddUp
    <3>3. a \in Nat /\ e \in Nat
      BY <1>6, ItemLimits DEF ScheduleTypeOK
    <3>4. BatchWait = 0 /\ WaitForTick = 0
      <4>1. busy = 0 /\ Len(batch) = 0
        BY <1>1 DEF NotLate
      <4>2. Calls(Len(batch)) = 0
        BY <4>1, CallsAddUp
      <4> QED BY <1>1, <4>1, <4>2 DEF BatchWait, WaitForTick
    <3>5. slice[i].remaining = 0
      BY <1>2, <3>1
    <3>6. a + BatchWait + WaitForTick + Calls(i) <= e
      BY <3>5 DEF NotLate
    <3> HIDE DEF a, e
    <3>7. a + Calls(j) - 0 <= e
      BY <3>2, <3>3, <3>4, <3>6
    <3> QED BY <3>1, <3>7 DEF a, e
  <2>3. \A j \in DOMAIN slice' : slice'[j].remaining # 0
    BY <2>1
  <2> QED BY <1>1, <2>1, <2>2, <2>3 DEF NotLate, Calls, EndsBy, DueBy
<1> QED BY <1>7, <1>8, <1>9, <1>10

\* A callback has ended: the others of the batch move up, and wait no longer.
LEMMA CallbackEnds ==
    ASSUME ScheduleInv, batch # <<>>, batch' = Tail(batch), busy' = 0, UNCHANGED <<phase, tick>>
    PROVE  /\ batch' \in Seq(RetryItem) /\ 1 \in DOMAIN batch /\ Head(batch) = batch[1]
           /\ Head(batch) \in RetryItem /\ Head(batch).task \in Tasks
           /\ \A j \in DOMAIN batch' : j + 1 \in DOMAIN batch /\ batch'[j] = batch[j + 1] /\ j + 1 # 1
           /\ \A j \in DOMAIN batch : j = 1 \/ \E k \in DOMAIN batch' : batch'[k] = batch[j]
           /\ \A i, j \in DOMAIN batch' : batch'[i].task = batch'[j].task => i = j
           /\ \A j \in DOMAIN batch' : batch'[j].task # Head(batch).task
           /\ \A i \in DOMAIN slice : slice[i].task # Head(batch).task
           /\ waited[Head(batch).task] <= EndsBy(Head(batch))
           /\ \A i \in DOMAIN slice : slice[i].remaining = 0 =>
                waited[slice[i].task] + BatchWait' + WaitForTick' + Calls(i) <= EndsBy(slice[i])
           /\ \A j \in DOMAIN batch' : waited[batch'[j].task] + Calls(j) - 0 <= EndsBy(batch'[j])
<1> USE DEF ScheduleInv
<1>1. /\ batch' = Tail(batch) /\ batch \in Seq(RetryItem) /\ slice \in Seq(RetryItem) /\ busy' = 0
      /\ batch # <<>> /\ busy \in 0 .. CallTime /\ CallTime \in Nat
  BY Constants DEF ScheduleTypeOK
<1>2. /\ batch' \in Seq(RetryItem) /\ 1 \in DOMAIN batch /\ Head(batch) = batch[1]
      /\ Len(batch) \in Nat /\ Len(batch) # 0 /\ DOMAIN batch = 1 .. Len(batch)
      /\ Len(batch') = Len(batch) - 1 /\ DOMAIN batch' = 1 .. Len(batch) - 1
      /\ \A j \in 1 .. Len(batch) - 1 : batch'[j] = batch[j + 1]
  BY <1>1
<1>3. Head(batch) \in RetryItem /\ Head(batch).task \in Tasks
  BY <1>1, <1>2, ItemsOf, ItemFields
<1>4. \A j \in DOMAIN batch' : j + 1 \in DOMAIN batch /\ batch'[j] = batch[j + 1] /\ j + 1 # 1 /\ j \in Nat
  BY <1>2
<1>5. \A j \in DOMAIN batch : j = 1 \/ \E k \in DOMAIN batch' : batch'[k] = batch[j]
  <2>1. ASSUME NEW j \in DOMAIN batch, j # 1 PROVE j - 1 \in DOMAIN batch' /\ batch'[j - 1] = batch[j]
    <3>1. j - 1 \in 1 .. Len(batch) - 1 /\ j - 1 + 1 = j
      BY <1>2, <2>1
    <3> QED BY <1>2, <3>1
  <2> QED BY <2>1
<1>6. ASSUME NEW i \in DOMAIN batch', NEW j \in DOMAIN batch', batch'[i].task = batch'[j].task PROVE i = j
  <2>1. i + 1 = j + 1
    BY <1>4, <1>6 DEF Placed
  <2> QED BY <1>4, <2>1
<1>7. \A j \in DOMAIN batch' : batch'[j].task # Head(batch).task
  BY <1>2, <1>4 DEF Placed
<1>8. \A i \in DOMAIN slice : slice[i].task # Head(batch).task
  BY <1>2 DEF Placed
<1>9. waited[Head(batch).task] <= EndsBy(Head(batch))
  <2> DEFINE a == waited[batch[1].task]
             e == EndsBy(batch[1])
  <2>1. a \in Nat /\ e \in Nat
    BY <1>2, <1>3, ItemLimits DEF ScheduleTypeOK
  <2>2. a + Calls(1) - busy <= e
    BY <1>2 DEF NotLate
  <2>3. Calls(1) = CallTime
    BY <1>1, CallsAddUp
  <2> HIDE DEF a, e
  <2>4. a <= e
    BY <1>1, <2>1, <2>2, <2>3
  <2> QED BY <1>2, <2>4 DEF a, e
<1>10. /\ BatchWait \in Int /\ BatchWait' \in Int /\ WaitForTick' \in Int
       /\ BatchWait' <= BatchWait /\ WaitForTick' = WaitForTick
  <2>1. BatchWait = Calls(Len(batch)) - busy /\ BatchWait' = Calls(Len(batch) - 1) - 0
    BY <1>1, <1>2 DEF BatchWait, Calls
  <2>2. Len(batch) - 1 \in Nat /\ Len(batch) = Len(batch) - 1 + 1
    BY <1>2
  <2>3. /\ Calls(Len(batch)) = Calls(Len(batch) - 1) + CallTime
        /\ Calls(Len(batch)) \in Nat /\ Calls(Len(batch) - 1) \in Nat
    BY <1>2, <2>2, CallsAddUp
  <2>4. WaitForTick' = WaitForTick /\ WaitForTick \in Int
    BY Constants DEF WaitForTick, ScheduleTypeOK
  <2> QED BY <1>1, <2>1, <2>3, <2>4
<1>11. ASSUME NEW i \in DOMAIN slice, slice[i].remaining = 0
       PROVE  waited[slice[i].task] + BatchWait' + WaitForTick' + Calls(i) <= EndsBy(slice[i])
  <2> DEFINE a == waited[slice[i].task]
             e == EndsBy(slice[i])
             c == Calls(i)
  <2>1. slice[i] \in RetryItem /\ slice[i].task \in Tasks /\ i \in Nat
    BY <1>1, ItemsOf, ItemFields
  <2>2. a \in Nat /\ e \in Nat
    BY <2>1, ItemLimits DEF ScheduleTypeOK
  <2>3. c \in Nat
    BY <2>1, CallsAddUp
  <2>4. a + BatchWait + WaitForTick + c <= e
    BY <1>11 DEF NotLate
  <2> HIDE DEF a, c, e
  <2>5. a + BatchWait' + WaitForTick' + c <= e
    <3>1. \A b, w, b1 \in Int : b1 <= b /\ a + b + w + c <= e => a + b1 + w + c <= e
      BY <2>2, <2>3
    <3>2. WaitForTick \in Int
      BY <1>10
    <3>3. a + BatchWait' + WaitForTick + c <= e
      BY <1>10, <2>4, <3>1, <3>2
    <3> QED BY <1>10, <3>3
  <2> QED BY <2>5 DEF a, c, e
<1>12. ASSUME NEW j \in DOMAIN batch'
       PROVE  waited[batch'[j].task] + Calls(j) - 0 <= EndsBy(batch'[j])
  <2> DEFINE a == waited[batch[j + 1].task]
             e == EndsBy(batch[j + 1])
  <2>1. batch[j + 1] \in RetryItem /\ batch[j + 1].task \in Tasks /\ j \in Nat /\ j + 1 \in DOMAIN batch
    BY <1>1, <1>4, ItemsOf, ItemFields
  <2>2. a \in Nat /\ e \in Nat
    BY <2>1, ItemLimits DEF ScheduleTypeOK
  <2>3. Calls(j) \in Nat /\ Calls(j + 1) = Calls(j) + CallTime
    BY <2>1, CallsAddUp
  <2>4. a + Calls(j + 1) - busy <= e
    BY <2>1 DEF NotLate
  <2> HIDE DEF a, e
  <2>5. a + Calls(j) - 0 <= e
    BY <1>1, <2>2, <2>3, <2>4
  <2>6. batch'[j] = batch[j + 1]
    BY <1>4
  <2> QED BY <2>5, <2>6 DEF a, e
<1> QED BY <1>2, <1>3, <1>4, <1>5, <1>6, <1>7, <1>8, <1>9, <1>11, <1>12

\* A callback was the last one of its task, delivered or not.
LEMMA TaskLeaves ==
    ASSUME ScheduleInv, batch # <<>>, batch' = Tail(batch), busy' = 0, tokenWait' = 0,
           UNCHANGED <<slice, phase, tick, age, waited>>, NEW end \in {"delivered", "dropped"},
           outcome' = [outcome EXCEPT ![Head(batch).task] = end],
           end = "dropped" => Head(batch).attempt + 1 >= Len(Delay)
    PROVE  ScheduleInv'
<1> USE DEF ScheduleInv
<1> DEFINE t == Head(batch).task
<1>1. /\ batch # <<>> /\ batch' = Tail(batch) /\ busy' = 0
      /\ slice' = slice /\ phase' = phase /\ tick' = tick /\ age' = age
      /\ waited' = waited /\ tokenWait' = 0
      /\ outcome' = [outcome EXCEPT ![t] = end]
      /\ outcome \in [Tasks -> {"new", "held", "delivered", "dropped"}]
  BY DEF ScheduleTypeOK
<1>2. /\ batch' \in Seq(RetryItem) /\ 1 \in DOMAIN batch /\ batch[1].task = t /\ t \in Tasks
      /\ \A j \in DOMAIN batch' : j + 1 \in DOMAIN batch /\ batch'[j] = batch[j + 1]
      /\ \A j \in DOMAIN batch : j = 1 \/ \E k \in DOMAIN batch' : batch'[k] = batch[j]
      /\ \A i, j \in DOMAIN batch' : batch'[i].task = batch'[j].task => i = j
      /\ \A j \in DOMAIN batch' : batch'[j].task # t
      /\ \A i \in DOMAIN slice : slice[i].task # t
  BY <1>1, CallbackEnds
<1>3. /\ \A i \in DOMAIN slice : slice[i].remaining = 0 =>
           waited[slice[i].task] + BatchWait' + WaitForTick' + Calls(i) <= EndsBy(slice[i])
      /\ \A j \in DOMAIN batch' : waited[batch'[j].task] + Calls(j) - 0 <= EndsBy(batch'[j])
  BY <1>1, CallbackEnds
<1>9. end = "dropped" => age[t] >= TotalDelay
  <2>1. SUFFICES ASSUME Head(batch).attempt + 1 >= Len(Delay) PROVE age[t] >= TotalDelay
    OBVIOUS
  <2>2. Head(batch) \in RetryItem /\ Head(batch) = batch[1]
    BY <1>1, CallbackEnds
  <2>3. Head(batch).attempt + 1 = Len(Delay)
    BY <2>1, <2>2, ItemFields, Constants
  <2>4. DelaysOf(batch[1]) = TotalDelay
    BY <2>2, <2>3 DEF DelaysOf, TotalDelay
  <2>5. age[batch[1].task] >= DelaysOf(batch[1])
    BY <1>2 DEF NotEarly
  <2> QED BY <1>2, <2>4, <2>5
<1> HIDE DEF t
<1>4. \A u \in Tasks : outcome'[u] = IF u = t THEN end ELSE outcome[u]
  BY <1>1, <1>2
<1>5. ScheduleTypeOK'
  <2>1. 0 \in 0 .. CallTime /\ 0 \in 0 .. MaxTokenWait
    BY Constants
  <2>2. outcome' \in [Tasks -> {"new", "held", "delivered", "dropped"}]
    BY <1>1
  <2> QED BY <1>1, <1>2, <2>1, <2>2 DEF ScheduleTypeOK
<1>6. Placed'
  <2>1. \A i \in DOMAIN slice, j \in DOMAIN batch' : slice[i].task # batch'[j].task
    BY <1>2 DEF Placed
  <2>2. ASSUME NEW u \in Tasks
        PROVE  outcome'[u] = "held" <=> \/ \E i \in DOMAIN slice : slice[i].task = u
                                        \/ \E j \in DOMAIN batch' : batch'[j].task = u
    <3>1. CASE u = t
      BY <1>2, <1>4, <3>1
    <3>2. CASE u # t
      <4>1. outcome'[u] = outcome[u]
        BY <1>4, <3>2
      <4>2. (\E j \in DOMAIN batch : batch[j].task = u) <=> \E j \in DOMAIN batch' : batch'[j].task = u
        BY <1>2, <3>2
      <4> QED BY <4>1, <4>2 DEF Placed
    <3> QED BY <3>1, <3>2
  <2>3. \A u \in Tasks : outcome'[u] = "new" => age[u] = 0 /\ waited[u] = 0
    BY <1>4 DEF Placed
  <2>4. \A i, j \in DOMAIN slice : slice[i].task = slice[j].task => i = j
    BY DEF Placed
  <2>5. \A i, j \in DOMAIN batch' : batch'[i].task = batch'[j].task => i = j
    BY <1>2
  <2>6. slice' = slice /\ age' = age /\ waited' = waited
    BY <1>1
  <2> QED BY <2>1, <2>2, <2>3, <2>4, <2>5, <2>6 DEF Placed
<1>7. NotEarly'
  <2>1. \A j \in DOMAIN batch' : age[batch'[j].task] >= DelaysOf(batch'[j])
    BY <1>2 DEF NotEarly
  <2>2. \A u \in Tasks : outcome'[u] = "dropped" => age[u] >= TotalDelay
    BY <1>4, <1>9 DEF NotEarly
  <2>3. \A i \in DOMAIN slice : age[slice[i].task] + slice[i].remaining >= DelaysOf(slice[i])
    BY DEF NotEarly
  <2> QED BY <1>1, <2>1, <2>2, <2>3 DEF NotEarly
<1>8. NotLate'
  <2>1. \A i \in DOMAIN slice : slice[i].remaining > 0 =>
            waited[slice[i].task] + slice[i].remaining <= DueBy(slice[i])
    BY DEF NotLate
  <2> QED BY <1>1, <1>3, <2>1 DEF NotLate, Calls, EndsBy, DueBy
<1> QED BY <1>5, <1>6, <1>7, <1>8

\* A callback failed once more: the item goes back with the next delay.
LEMMA PutBackKeeps ==
    ASSUME ScheduleInv, CallbackError, Head(batch).attempt + 1 < Len(Delay)
    PROVE  ScheduleInv'
<1> USE DEF ScheduleInv
<1> DEFINE it == Head(batch)
           t == it.task
           new == [it EXCEPT !.attempt = it.attempt + 1, !.remaining = DelayBefore(it.attempt + 1)]
<1>1. /\ batch # <<>> /\ batch' = Tail(batch) /\ busy' = 0
      /\ phase' = phase /\ tick' = tick /\ age' = age /\ tokenWait' = 0
      /\ batch \in Seq(RetryItem) /\ slice \in Seq(RetryItem)
  BY DEF CallbackError, ScheduleTypeOK
<1>2. it \in RetryItem /\ t \in Tasks
  BY <1>1, CallbackEnds
<1>3. slice' = Append(slice, new) /\ outcome' = outcome /\ waited' = [waited EXCEPT ![t] = 0]
  <2>1. it.attempt + 1 < Len(Delay) /\ it.attempt + 1 \in Nat /\ Len(Delay) \in Nat
    BY <1>2, ItemFields, Constants
  <2>2. ~(it.attempt + 1 >= Len(Delay))
    BY <2>1
  <2> QED BY <2>2 DEF CallbackError
<1>4. /\ new \in RetryItem /\ new.task = t /\ new.remaining \in Nat \ {0}
      /\ DelaysOf(new) = DelaysOf(it) + new.remaining
      /\ DueBy(new) = new.remaining
  BY <1>2, NextItem
<1>5. /\ batch' \in Seq(RetryItem) /\ 1 \in DOMAIN batch /\ batch[1] = it
      /\ \A j \in DOMAIN batch' : j + 1 \in DOMAIN batch /\ batch'[j] = batch[j + 1]
      /\ \A j \in DOMAIN batch : j = 1 \/ \E k \in DOMAIN batch' : batch'[k] = batch[j]
      /\ \A i, j \in DOMAIN batch' : batch'[i].task = batch'[j].task => i = j
      /\ \A j \in DOMAIN batch' : batch'[j].task # t
      /\ \A i \in DOMAIN slice : slice[i].task # t
  BY <1>1, CallbackEnds
<1>6. /\ \A i \in DOMAIN slice : slice[i].remaining = 0 =>
           waited[slice[i].task] + BatchWait' + WaitForTick' + Calls(i) <= EndsBy(slice[i])
      /\ \A j \in DOMAIN batch' : waited[batch'[j].task] + Calls(j) - 0 <= EndsBy(batch'[j])
  BY <1>1, CallbackEnds
<1>7. age[t] \in Nat /\ DelaysOf(it) \in Nat
  BY <1>2, ItemLimits DEF ScheduleTypeOK
<1>8. age[t] >= DelaysOf(it)
  BY <1>5 DEF NotEarly
<1> HIDE DEF new
<1>9. /\ slice' \in Seq(RetryItem) /\ Len(slice) + 1 \in DOMAIN slice' /\ slice'[Len(slice) + 1] = new
      /\ \A i \in DOMAIN slice : i \in DOMAIN slice' /\ slice'[i] = slice[i]
      /\ \A i \in DOMAIN slice' : i \in DOMAIN slice \/ i = Len(slice) + 1
  BY <1>1, <1>3, <1>4, OneMore
<1> HIDE DEF it, t
<1>14. /\ waited \in [Tasks -> Nat] /\ waited' \in [Tasks -> Nat] /\ waited'[t] = 0
       /\ \A u \in Tasks : u # t => waited'[u] = waited[u]
  BY <1>2, <1>3 DEF ScheduleTypeOK
<1>15. /\ \A i \in DOMAIN slice : waited'[slice[i].task] = waited[slice[i].task]
       /\ \A j \in DOMAIN batch' : waited'[batch'[j].task] = waited[batch'[j].task]
  <2>1. /\ \A i \in DOMAIN slice : slice[i].task \in Tasks
        /\ \A j \in DOMAIN batch' : batch'[j].task \in Tasks
    BY <1>1, <1>5, ItemsOf, ItemFields
  <2> QED BY <1>5, <1>14, <2>1
<1>10. ScheduleTypeOK'
  <2>1. 0 \in 0 .. CallTime /\ 0 \in 0 .. MaxTokenWait
    BY Constants
  <2> QED BY <1>1, <1>3, <1>5, <1>9, <1>14, <2>1 DEF ScheduleTypeOK
<1>11. Placed'
  <2>1. /\ \A i, j \in DOMAIN slice' : slice'[i].task = slice'[j].task => i = j
        /\ \A u \in Tasks : (\E i \in DOMAIN slice' : slice'[i].task = u) <=>
                                (u = t \/ \E i \in DOMAIN slice : slice[i].task = u)
    BY <1>3, <1>4, <1>5, PlacedWithNew DEF Placed
  <2>2. \A i \in DOMAIN slice', j \in DOMAIN batch' : slice'[i].task # batch'[j].task
    <3>1. \A i \in DOMAIN slice, j \in DOMAIN batch' : slice[i].task # batch'[j].task
      BY <1>5 DEF Placed
    <3>2. \A j \in DOMAIN batch' : new.task # batch'[j].task
      BY <1>4, <1>5
    <3>3. \A i \in DOMAIN slice' : slice'[i] = new \/ (i \in DOMAIN slice /\ slice'[i] = slice[i])
      BY <1>9
    <3> QED BY <3>1, <3>2, <3>3
  <2>3. ASSUME NEW u \in Tasks
        PROVE  outcome[u] = "held" <=> \/ \E i \in DOMAIN slice' : slice'[i].task = u
                                       \/ \E j \in DOMAIN batch' : batch'[j].task = u
    <3>1. batch[1].task = t
      BY <1>5 DEF t
    <3>2. (\E j \in DOMAIN batch : batch[j].task = u) <=>
              (u = t \/ \E j \in DOMAIN batch' : batch'[j].task = u)
      BY <1>5, <3>1
    <3> QED BY <2>1, <3>2 DEF Placed
  <2>4. \A u \in Tasks : outcome[u] = "new" => age[u] = 0 /\ waited'[u] = 0
    <3>1. \A u \in Tasks : outcome[u] = "new" => age[u] = 0 /\ waited[u] = 0
      BY DEF Placed
    <3> QED BY <1>14, <3>1
  <2> QED BY <1>1, <1>3, <1>5, <2>1, <2>2, <2>3, <2>4 DEF Placed
<1>12. NotEarly'
  <2>1. age[new.task] + new.remaining >= DelaysOf(new)
    <3>1. \A a, b, r \in Nat : a >= b => a + r >= b + r
      OBVIOUS
    <3> QED BY <1>4, <1>7, <1>8, <3>1
  <2>2. \A i \in DOMAIN slice' : age[slice'[i].task] + slice'[i].remaining >= DelaysOf(slice'[i])
    BY <1>9, <2>1 DEF NotEarly
  <2>3. \A j \in DOMAIN batch' : age[batch'[j].task] >= DelaysOf(batch'[j])
    BY <1>5 DEF NotEarly
  <2>4. \A u \in Tasks : outcome[u] = "dropped" => age[u] >= TotalDelay
    BY DEF NotEarly
  <2> QED BY <1>1, <1>3, <2>2, <2>3, <2>4 DEF NotEarly
<1>13. NotLate'
  <2>1. waited'[new.task] + new.remaining <= DueBy(new) /\ new.remaining # 0
    BY <1>4, <1>14
  <2>2. \A i \in DOMAIN slice' : slice'[i].remaining > 0 =>
            waited'[slice'[i].task] + slice'[i].remaining <= DueBy(slice'[i])
    <3>1. \A i \in DOMAIN slice : slice[i].remaining > 0 =>
              waited'[slice[i].task] + slice[i].remaining <= DueBy(slice[i])
      BY <1>15 DEF NotLate
    <3> QED BY <1>9, <2>1, <3>1
  <2>3. \A i \in DOMAIN slice' : slice'[i].remaining = 0 => i \in DOMAIN slice
    BY <1>9, <2>1
  <2>4. \A i \in DOMAIN slice' : slice'[i].remaining = 0 =>
            waited'[slice'[i].task] + BatchWait' + WaitForTick' + Calls(i) <= EndsBy(slice'[i])
    BY <1>6, <1>9, <1>15, <2>3
  <2>5. \A j \in DOMAIN batch' : waited'[batch'[j].task] + Calls(j) - 0 <= EndsBy(batch'[j])
    BY <1>6, <1>15
  <2> QED BY <1>1, <2>2, <2>4, <2>5 DEF NotLate, Calls, EndsBy, DueBy
<1> QED BY <1>10, <1>11, <1>12, <1>13

LEMMA CallbackErrorKeeps == ScheduleInv /\ CallbackError => ScheduleInv'
<1> SUFFICES ASSUME ScheduleInv, CallbackError PROVE ScheduleInv'
  OBVIOUS
<1>1. CASE Head(batch).attempt + 1 >= Len(Delay)
  BY <1>1, TaskLeaves DEF CallbackError
<1>2. CASE ~(Head(batch).attempt + 1 >= Len(Delay))
  <2>1. batch # <<>> /\ batch \in Seq(RetryItem)
    BY DEF ScheduleInv, ScheduleTypeOK, CallbackError
  <2>2. Head(batch) \in RetryItem
    BY <2>1
  <2>3. Head(batch).attempt + 1 < Len(Delay)
    BY <1>2, <2>2, ItemFields, Constants
  <2> QED BY <2>3, PutBackKeeps
<1> QED BY <1>1, <1>2

LEMMA CallbackOkKeeps == ScheduleInv /\ CallbackOk => ScheduleInv'
  BY TaskLeaves DEF CallbackOk

LEMMA NothingKeeps == ScheduleInv /\ UNCHANGED svars => ScheduleInv'
<1> SUFFICES ASSUME ScheduleInv, UNCHANGED svars PROVE ScheduleInv'
  OBVIOUS
<1> USE DEF ScheduleInv, svars
<1>1. ScheduleTypeOK'
  BY DEF ScheduleTypeOK
<1>2. Placed'
  BY DEF Placed
<1>3. NotEarly'
  BY DEF NotEarly
<1>4. NotLate'
  BY DEF NotLate, BatchWait, WaitForTick
<1> QED BY <1>1, <1>2, <1>3, <1>4

LEMMA ScheduleInvStep == ScheduleInv /\ [ScheduleNext]_svars => ScheduleInv'
<1> SUFFICES ASSUME ScheduleInv, [ScheduleNext]_svars PROVE ScheduleInv'
  OBVIOUS
<1>1. ASSUME NEW t \in Tasks, NEW v \in Verdicts, AddLater(t, v) PROVE ScheduleInv'
  BY <1>1, AddLaterKeeps
<1> QED BY <1>1, ClockTickKeeps, TokenWaitKeeps, ScanKeeps, CallbackOkKeeps, CallbackErrorKeeps, NothingKeeps
        DEF ScheduleNext

THEOREM ScheduleIsInvariant == ScheduleSpec => []ScheduleInv
  BY ScheduleInvInit, ScheduleInvStep, PTL DEF ScheduleSpec

-----------------------------------------------------------------------------
(* Theorems                                                                 *)

\* Whatever the delays and the ticker, the bucket holds items and the variables
\* keep their types.
THEOREM ScheduleTypesCorrect == ScheduleSpec => []ScheduleTypeOK
  BY ScheduleIsInvariant, PTL DEF ScheduleInv

\* No callback is given up before all the delays have passed since it was added,
\* whatever the table of delays, the ticker's period and the callbacks' durations.
THEOREM OutageIsRiddenOut == ScheduleSpec => []OutageRiddenOut
<1>1. ScheduleInv => OutageRiddenOut
  BY DEF ScheduleInv, NotEarly, OutageRiddenOut
<1> QED BY <1>1, ScheduleIsInvariant, PTL

\* Each attempt at a callback is over at most a wait for the tick and one callback of
\* every task after its own delay, for every table of delays, period of the ticker and
\* number of tasks, the time that callbacks wait for a token not counted.
THEOREM NoRetryIsLate == ScheduleSpec => []NoRetryStarves
<1>1. ScheduleInv => NoRetryStarves
  <2> SUFFICES ASSUME ScheduleInv PROVE NoRetryStarves
    OBVIOUS
  <2> USE DEF ScheduleInv
  <2>1. /\ slice \in Seq(RetryItem) /\ batch \in Seq(RetryItem) /\ waited \in [Tasks -> Nat]
        /\ busy \in 0 .. CallTime /\ phase \in 0 .. ScanEvery - 1 /\ tick \in BOOLEAN
    BY DEF ScheduleTypeOK
  <2>2. ASSUME NEW i \in DOMAIN slice PROVE waited[slice[i].task] <= EndsBy(slice[i])
    <3> DEFINE a == waited[slice[i].task]
               r == slice[i].remaining
               d == DueBy(slice[i])
               e == EndsBy(slice[i])
               c == Calls(i)
    <3>2. /\ slice[i] \in RetryItem /\ slice[i].task \in Tasks /\ i \in Nat
          /\ Len(batch) \in Nat /\ DOMAIN batch = 1 .. Len(batch)
      BY <2>1, ItemsOf, ItemFields
    <3>3. a \in Nat /\ r \in Nat /\ d \in Nat /\ e \in Nat /\ e = d + Lateness /\ Lateness \in Nat
      BY <2>1, <3>2, ItemFields, ItemLimits, Constants
    <3>4. c \in Nat
      BY <3>2, CallsAddUp
    <3>5. BatchWait \in Int /\ BatchWait >= 0
      <4>1. CASE batch = <<>>
        <5>1. busy = 0 /\ Calls(Len(batch)) = 0
          BY <4>1, CallsAddUp DEF NotLate
        <5> QED BY <5>1 DEF BatchWait
      <4>2. CASE batch # <<>>
        <5>1. 1 <= Len(batch)
          BY <3>2, <4>2
        <5>2. Calls(1) = CallTime /\ Calls(1) <= Calls(Len(batch)) /\ Calls(Len(batch)) \in Nat
          BY <3>2, <5>1, CallsAddUp, Constants
        <5> QED BY <2>1, <5>2, Constants DEF BatchWait
      <4> QED BY <4>1, <4>2
    <3>6. WaitForTick \in Nat
      BY <2>1, Constants DEF WaitForTick
    <3>7. /\ r > 0 => a + r <= d
          /\ r = 0 => a + BatchWait + WaitForTick + c <= e
      BY DEF NotLate
    <3> HIDE DEF a, r, d, e, c
    <3>8. a <= e
      BY <3>3, <3>4, <3>5, <3>6, <3>7
    <3> QED BY <3>8 DEF a, e
  <2>3. ASSUME NEW j \in DOMAIN batch PROVE waited[batch[j].task] <= EndsBy(batch[j])
    <3> DEFINE a == waited[batch[j].task]
               e == EndsBy(batch[j])
               c == Calls(j)
    <3>1. batch[j] \in RetryItem /\ batch[j].task \in Tasks /\ j \in Nat /\ 1 <= j
      BY <2>1, ItemsOf, ItemFields
    <3>2. a \in Nat /\ e \in Nat
      BY <2>1, <3>1, ItemLimits
    <3>3. c \in Nat /\ CallTime <= c /\ CallTime \in Nat
      <4>1. Calls(1) = CallTime
        BY Constants DEF Calls
      <4>2. Calls(1) <= Calls(j) /\ Calls(j) \in Nat
        BY <3>1, CallsAddUp
      <4> QED BY <4>1, <4>2, Constants
    <3>4. a + c - busy <= e
      BY DEF NotLate
    <3> HIDE DEF a, e, c
    <3>5. a <= e
      BY <2>1, <3>2, <3>3, <3>4
    <3> QED BY <3>5 DEF a, e
  <2> QED BY <2>2, <2>3 DEF NoRetryStarves, Items, EndsBy, DueBy
<1> QED BY <1>1, ScheduleIsInvariant, PTL


-----------------------------------------------------------------------------
(* The bucket with its clock implements the bucket                          *)

\* What RetryBucket sees of the state.
OfItems == {WithoutClock(it) : it \in Items}
OfRipe == {WithoutClock(it) : it \in {j \in Items : IsDue(j)}}
OfDue == {WithoutClock(batch[i]) : i \in DOMAIN batch}

LEMMA WhatBucketSees ==
    /\ \A x : x \in OfItems <=> \E i \in DOMAIN slice : x = WithoutClock(slice[i])
    /\ \A x : x \in OfRipe <=> \E i \in DOMAIN slice : slice[i].remaining = 0 /\ x = WithoutClock(slice[i])
    /\ \A x : x \in OfDue <=> \E i \in DOMAIN batch : x = WithoutClock(batch[i])
  BY DEF OfItems, OfRipe, OfDue, Items, IsDue

LEMMA WhatBucketSeesNext ==
    /\ \A x : x \in OfItems' <=> \E i \in DOMAIN slice' : x = WithoutClock(slice'[i])
    /\ \A x : x \in OfRipe' <=> \E i \in DOMAIN slice' : slice'[i].remaining = 0 /\ x = WithoutClock(slice'[i])
    /\ \A x : x \in OfDue' <=> \E i \in DOMAIN batch' : x = WithoutClock(batch'[i])
  BY DEF OfItems, OfRipe, OfDue, Items, IsDue, WithoutClock

LEMMA BucketVariables ==
    /\ Bucket!bucketVars = <<OfItems, OfRipe, OfDue>>
    /\ Bucket!bucketVars' = <<OfItems', OfRipe', OfDue'>>
  BY DEF Bucket!bucketVars, OfItems, OfRipe, OfDue

LEMMA ItemWithoutClock ==
    \A it, other :
        /\ WithoutClock(it).task = it.task /\ WithoutClock(it).attempt = it.attempt
        /\ WithoutClock(it) = WithoutClock(other) => it.task = other.task
        /\ it.task = other.task /\ it.action = other.action /\ it.attempt = other.attempt
               => WithoutClock(it) = WithoutClock(other)
  BY DEF WithoutClock

LEMMA AddLaterIsAdd ==
    ASSUME ScheduleInv, NEW t \in Tasks, NEW v \in Verdicts, AddLater(t, v)
    PROVE  Bucket!BucketNext
<1> DEFINE new == [task |-> t, action |-> v, attempt |-> 0, remaining |-> FirstDelay]
           seen == [task |-> t, action |-> v, attempt |-> 0]
<1>1. new \in RetryItem /\ new.remaining # 0
  BY FirstItem
<1>2. WithoutClock(new) = seen
  BY DEF WithoutClock
<1>3. /\ slice' = Append(slice, new) /\ outcome[t] = "new" /\ batch' = batch
      /\ slice \in Seq(RetryItem)
  BY DEF AddLater, ScheduleInv, ScheduleTypeOK
<1> HIDE DEF new
<1>4. /\ Len(slice) + 1 \in DOMAIN slice' /\ slice'[Len(slice) + 1] = new
      /\ \A i \in DOMAIN slice : i \in DOMAIN slice' /\ slice'[i] = slice[i]
      /\ \A i \in DOMAIN slice' : i \in DOMAIN slice \/ i = Len(slice) + 1
  BY <1>1, <1>3, OneMore
<1>5. OfItems' = OfItems \cup {seen}
  BY <1>2, <1>4, WhatBucketSees, WhatBucketSeesNext
<1>6. OfRipe' = OfRipe
  <2>1. \A i \in DOMAIN slice' : slice'[i].remaining = 0 => i \in DOMAIN slice
    BY <1>1, <1>4
  <2>2. OfRipe' \subseteq OfRipe
    BY <1>4, <2>1, WhatBucketSees, WhatBucketSeesNext
  <2>3. OfRipe \subseteq OfRipe'
    BY <1>4, WhatBucketSees, WhatBucketSeesNext
  <2> QED BY <2>2, <2>3
<1>7. OfDue' = OfDue
  BY <1>3 DEF OfDue
<1>8. t \notin {it.task : it \in OfItems \cup OfDue}
  <2>1. /\ \A i \in DOMAIN slice : slice[i].task # t
        /\ \A j \in DOMAIN batch : batch[j].task # t
    BY <1>3 DEF ScheduleInv, Placed
  <2> QED BY <2>1, WhatBucketSees, ItemWithoutClock
<1>9. t \in Tasks \ Bucket!HeldTasks
  BY <1>8 DEF Bucket!HeldTasks, OfItems, OfDue
<1>10. Bucket!Add(t, v)
  BY <1>5, <1>6, <1>7 DEF Bucket!Add, OfItems, OfRipe, OfDue
<1> QED BY <1>9, <1>10 DEF Bucket!BucketNext

LEMMA UnitIsDelayElapses ==
    ASSUME ScheduleInv, UnitPasses
    PROVE  Bucket!BucketNext \/ UNCHANGED Bucket!bucketVars
<1>1. /\ batch' = batch /\ slice \in Seq(RetryItem)
      /\ slice' = [i \in DOMAIN slice |-> [slice[i] EXCEPT !.remaining = OneUnitLess(@)]]
  BY DEF UnitPasses, ScheduleInv, ScheduleTypeOK
<1>2. ASSUME NEW i \in DOMAIN slice
      PROVE  /\ WithoutClock(slice'[i]) = WithoutClock(slice[i])
             /\ slice[i].remaining = 0 => slice'[i].remaining = 0
  <2>1. slice[i] \in RetryItem /\ slice[i].remaining \in Nat
    BY <1>1, ItemsOf, ItemFields
  <2>2. OneUnitLess(slice[i].remaining) \in Nat /\ (slice[i].remaining = 0 => OneUnitLess(slice[i].remaining) = 0)
    BY <2>1 DEF OneUnitLess
  <2>3. slice'[i] = [slice[i] EXCEPT !.remaining = OneUnitLess(slice[i].remaining)]
    BY <1>1
  <2>4. /\ slice'[i].remaining = OneUnitLess(slice[i].remaining) /\ slice'[i].task = slice[i].task
        /\ slice'[i].action = slice[i].action /\ slice'[i].attempt = slice[i].attempt
    BY <2>1, <2>2, <2>3, OlderItem
  <2> QED BY <2>2, <2>4, ItemWithoutClock
<1>3. DOMAIN slice' = DOMAIN slice
  BY <1>1
<1>4. OfItems' = OfItems
  <2>1. OfItems' \subseteq OfItems
    BY <1>2, <1>3, WhatBucketSees, WhatBucketSeesNext
  <2>2. OfItems \subseteq OfItems'
    BY <1>2, <1>3, WhatBucketSees, WhatBucketSeesNext
  <2> QED BY <2>1, <2>2
<1>5. OfDue' = OfDue
  BY <1>1 DEF OfDue
<1>6. OfRipe \subseteq OfRipe' /\ OfRipe' \subseteq OfItems'
  BY <1>2, <1>3, WhatBucketSees, WhatBucketSeesNext
<1> DEFINE S == OfRipe' \ OfRipe
<1>7. S \subseteq OfItems \ OfRipe /\ OfRipe' = OfRipe \cup S
  BY <1>4, <1>6
<1>8. CASE S = {}
  <2>1. OfRipe' = OfRipe
    BY <1>6, <1>8
  <2> QED BY <1>4, <1>5, <2>1, BucketVariables
<1>9. CASE S # {}
  <2> HIDE DEF S
  <2>1. Bucket!DelayElapses(S)
    BY <1>4, <1>5, <1>7, <1>9 DEF Bucket!DelayElapses, OfItems, OfRipe, OfDue
  <2>2. S \in SUBSET (OfItems \ OfRipe)
    BY <1>7
  <2> QED BY <2>1, <2>2 DEF Bucket!BucketNext, OfItems, OfRipe
<1> QED BY <1>8, <1>9

LEMMA ScanOnTickIsScan ==
    ASSUME ScheduleInv, ScanOnTick
    PROVE  Bucket!BucketNext \/ UNCHANGED Bucket!bucketVars
<1> DEFINE ripe == {it \in RetryItem : IsDue(it)}
           rest == {it \in RetryItem : ~IsDue(it)}
<1>1. /\ slice \in Seq(RetryItem) /\ batch = <<>>
      /\ batch' = Picked(slice, ripe) /\ slice' = Picked(slice, rest)
  BY DEF ScanOnTick, ScheduleInv, ScheduleTypeOK, Keep
<1>2. \A it \in RetryItem : (it \in ripe <=> it.remaining = 0) /\ (it \in rest <=> it.remaining # 0)
  BY DEF IsDue
<1> HIDE DEF ripe, rest
<1>3. /\ \A i, j \in DOMAIN slice : slice[i].task = slice[j].task => i = j
      /\ \A i \in DOMAIN slice : slice[i] \in RetryItem
  BY <1>1, ItemsOf DEF ScheduleInv, Placed
<1>4. \A j \in DOMAIN batch' : \E i \in DOMAIN slice : batch'[j] = slice[i] /\ slice[i] \in ripe
  BY <1>1, ScanSplits
<1>5. \A i \in DOMAIN slice : slice[i] \in ripe => \E j \in DOMAIN batch' : batch'[j] = slice[i]
  BY <1>1, ScanSplits
<1>6. \A j \in DOMAIN slice' : \E i \in DOMAIN slice : slice'[j] = slice[i] /\ slice[i] \in rest
  BY <1>1, ScanSplits
<1>7. \A i \in DOMAIN slice : slice[i] \in rest => \E j \in DOMAIN slice' : slice'[j] = slice[i]
  BY <1>1, ScanSplits
<1>8. OfDue = {}
  BY <1>1, WhatBucketSees
<1>9. OfDue' = OfRipe
  <2>1. ASSUME NEW x \in OfDue' PROVE x \in OfRipe
    <3>1. PICK j \in DOMAIN batch' : x = WithoutClock(batch'[j])
      BY <2>1, WhatBucketSeesNext
    <3>2. PICK i \in DOMAIN slice : batch'[j] = slice[i] /\ slice[i] \in ripe
      BY <1>4
    <3> QED BY <1>2, <1>3, <3>1, <3>2, WhatBucketSees
  <2>2. ASSUME NEW x \in OfRipe PROVE x \in OfDue'
    <3>1. PICK i \in DOMAIN slice : slice[i].remaining = 0 /\ x = WithoutClock(slice[i])
      BY <2>2, WhatBucketSees
    <3>2. PICK j \in DOMAIN batch' : batch'[j] = slice[i]
      BY <1>2, <1>3, <1>5, <3>1
    <3> QED BY <3>1, <3>2, WhatBucketSeesNext
  <2> QED BY <2>1, <2>2
<1>10. OfRipe' = {}
  BY <1>2, <1>3, <1>6, WhatBucketSeesNext
<1>11. OfItems' = OfItems \ OfRipe
  <2>1. ASSUME NEW x \in OfItems' PROVE x \in OfItems /\ x \notin OfRipe
    <3>1. PICK i \in DOMAIN slice : x = WithoutClock(slice[i]) /\ slice[i] \in rest
      BY <1>6, <2>1, WhatBucketSeesNext
    <3>2. ASSUME NEW k \in DOMAIN slice, slice[k].remaining = 0, x = WithoutClock(slice[k]) PROVE FALSE
      <4>1. k = i
        <5>1. WithoutClock(slice[k]) = WithoutClock(slice[i])
          BY <3>1, <3>2
        <5>2. slice[k].task = slice[i].task
          BY <5>1, ItemWithoutClock
        <5> QED BY <1>3, <5>2
      <4> QED BY <1>2, <1>3, <3>1, <3>2, <4>1
    <3> QED BY <3>1, <3>2, WhatBucketSees
  <2>2. ASSUME NEW x \in OfItems, x \notin OfRipe PROVE x \in OfItems'
    <3>1. PICK i \in DOMAIN slice : x = WithoutClock(slice[i])
      BY <2>2, WhatBucketSees
    <3>2. slice[i] \in rest
      BY <1>2, <1>3, <2>2, <3>1, WhatBucketSees
    <3> QED BY <1>7, <3>1, <3>2, WhatBucketSeesNext
  <2> QED BY <2>1, <2>2
<1>12. CASE OfRipe = {}
  BY <1>8, <1>9, <1>10, <1>11, <1>12, BucketVariables
<1>13. CASE OfRipe # {}
  <2>1. Bucket!Scan
    BY <1>8, <1>9, <1>10, <1>11, <1>13 DEF Bucket!Scan, OfItems, OfRipe, OfDue
  <2> QED BY <2>1 DEF Bucket!BucketNext
<1> QED BY <1>12, <1>13

\* The item that was called back leaves the batch.
LEMMA OneLeavesDue ==
    ASSUME ScheduleInv, batch # <<>>, batch' = Tail(batch), busy' = 0, UNCHANGED <<phase, tick>>
    PROVE  WithoutClock(Head(batch)) \in OfDue /\ OfDue' = OfDue \ {WithoutClock(Head(batch))}
<1> DEFINE it == Head(batch)
<1>1. /\ 1 \in DOMAIN batch /\ it = batch[1]
      /\ \A j \in DOMAIN batch' : j + 1 \in DOMAIN batch /\ batch'[j] = batch[j + 1]
      /\ \A j \in DOMAIN batch : j = 1 \/ \E k \in DOMAIN batch' : batch'[k] = batch[j]
      /\ \A j \in DOMAIN batch' : batch'[j].task # it.task
  BY CallbackEnds
<1> HIDE DEF it
<1>2. WithoutClock(it) \in OfDue
  BY <1>1, WhatBucketSees
<1>3. WithoutClock(it) \notin OfDue'
  BY <1>1, WhatBucketSeesNext, ItemWithoutClock
<1>4. OfDue' \subseteq OfDue /\ OfDue \subseteq OfDue' \cup {WithoutClock(it)}
  BY <1>1, WhatBucketSees, WhatBucketSeesNext
<1> QED BY <1>2, <1>3, <1>4 DEF it

LEMMA CallbackIsRetry ==
    ASSUME ScheduleInv, CallbackOk \/ CallbackError
    PROVE  Bucket!BucketNext
<1> DEFINE it == Head(batch)
           seen == WithoutClock(it)
<1>1. /\ batch # <<>> /\ batch' = Tail(batch) /\ busy' = 0 /\ UNCHANGED <<phase, tick>>
      /\ slice \in Seq(RetryItem)
  BY DEF CallbackOk, CallbackError, ScheduleInv, ScheduleTypeOK
<1>2. it \in RetryItem
  BY <1>1, CallbackEnds
<1>3. seen \in OfDue /\ OfDue' = OfDue \ {seen} /\ seen.attempt = it.attempt
  BY <1>1, OneLeavesDue, ItemWithoutClock
<1>4. CASE slice' = slice /\ (CallbackOk \/ it.attempt + 1 >= Len(Delay))
  <2>1. OfItems' = OfItems /\ OfRipe' = OfRipe
    BY <1>4 DEF OfItems, OfRipe, Items, IsDue
  <2> HIDE DEF seen, it
  <2>2. CASE CallbackOk
    <3>1. Bucket!RetrySucceeds(seen)
      BY <1>3, <2>1 DEF Bucket!RetrySucceeds, OfItems, OfRipe, OfDue
    <3> QED BY <1>3, <3>1 DEF Bucket!BucketNext, OfDue
  <2>3. CASE it.attempt + 1 >= Len(Delay)
    <3>1. Bucket!Drop(seen)
      BY <1>3, <2>1, <2>3 DEF Bucket!Drop, OfItems, OfRipe, OfDue
    <3> QED BY <1>3, <3>1 DEF Bucket!BucketNext, OfDue
  <2> QED BY <1>4, <2>2, <2>3
<1>5. CASE CallbackError /\ ~(it.attempt + 1 >= Len(Delay))
  <2> DEFINE new == [it EXCEPT !.attempt = it.attempt + 1, !.remaining = DelayBefore(it.attempt + 1)]
  <2>1. slice' = Append(slice, new)
    BY <1>5 DEF CallbackError
  <2>2. it.attempt + 1 < Len(Delay)
    BY <1>2, <1>5, ItemFields, Constants
  <2>3. /\ new \in RetryItem /\ new.task = it.task /\ new.action = it.action
        /\ new.attempt = it.attempt + 1 /\ new.remaining # 0
    BY <1>2, <2>2, NextItem
  <2> HIDE DEF new
  <2>4. /\ Len(slice) + 1 \in DOMAIN slice' /\ slice'[Len(slice) + 1] = new
        /\ \A i \in DOMAIN slice : i \in DOMAIN slice' /\ slice'[i] = slice[i]
        /\ \A i \in DOMAIN slice' : i \in DOMAIN slice \/ i = Len(slice) + 1
    BY <1>1, <2>1, <2>3, OneMore
  <2>5. WithoutClock(new) = [seen EXCEPT !.attempt = @ + 1]
    BY <2>3 DEF WithoutClock
  <2>6. OfItems' = OfItems \cup {WithoutClock(new)}
    BY <2>4, WhatBucketSees, WhatBucketSeesNext
  <2>7. OfRipe' = OfRipe
    <3>1. \A i \in DOMAIN slice' : slice'[i].remaining = 0 => i \in DOMAIN slice
      BY <2>3, <2>4
    <3>2. OfRipe' \subseteq OfRipe
      BY <2>4, <3>1, WhatBucketSees, WhatBucketSeesNext
    <3>3. OfRipe \subseteq OfRipe'
      BY <2>4, WhatBucketSees, WhatBucketSeesNext
    <3> QED BY <3>2, <3>3
  <2>8. seen.attempt + 1 < Len(Delay)
    BY <1>3, <2>2
  <2> HIDE DEF seen, it
  <2>9. Bucket!PutBack(seen)
    BY <1>3, <2>5, <2>6, <2>7, <2>8 DEF Bucket!PutBack, OfItems, OfRipe, OfDue
  <2> QED BY <1>3, <2>9 DEF Bucket!BucketNext, OfDue
<1>6. \/ slice' = slice /\ (CallbackOk \/ it.attempt + 1 >= Len(Delay))
      \/ CallbackError /\ ~(it.attempt + 1 >= Len(Delay))
  BY DEF CallbackOk, CallbackError
<1> QED BY <1>4, <1>5, <1>6

LEMMA BucketStep ==
    ScheduleInv /\ [ScheduleNext]_svars => [Bucket!BucketNext]_(Bucket!bucketVars)
<1> SUFFICES ASSUME ScheduleInv, [ScheduleNext]_svars
             PROVE  Bucket!BucketNext \/ UNCHANGED Bucket!bucketVars
  OBVIOUS
<1>1. ASSUME UNCHANGED svars PROVE UNCHANGED Bucket!bucketVars
  BY <1>1 DEF svars, Bucket!bucketVars, Items
<1>2. ASSUME NEW t \in Tasks, NEW v \in Verdicts, AddLater(t, v) PROVE Bucket!BucketNext
  BY <1>2, AddLaterIsAdd
<1>3. ClockTick \/ TokenWait => UnitPasses
  BY DEF ClockTick, TokenWait
<1> QED BY <1>1, <1>2, <1>3, UnitIsDelayElapses, ScanOnTickIsScan, CallbackIsRetry DEF ScheduleNext

LEMMA BucketStart == ScheduleInit => Bucket!BucketInit
  BY DEF ScheduleInit, Bucket!BucketInit, Items

\* The clock, the ticker, the order of the slice and the length of a callback change
\* nothing that the bucket of the pipeline allows: each step is one of its steps.
THEOREM ScheduleImplementsBucket == ScheduleSpec => ImplementsBucket
<1>1. ScheduleInit => Bucket!BucketInit
  BY BucketStart
<1>2. ScheduleInv /\ [ScheduleNext]_svars => [Bucket!BucketNext]_(Bucket!bucketVars)
  BY BucketStep
<1> QED BY <1>1, <1>2, ScheduleIsInvariant, PTL DEF ScheduleSpec, ImplementsBucket, Bucket!BucketSpec

-----------------------------------------------------------------------------
(* The life of a session                                                    *)

\* An age, or that there is none.
Ages == Nat \cup {None}

\* What the store says of a token is what happened to it: it has the age of the
\* token, unless the token is expired and has been deleted.
Remembers(t) ==
    \/ tokens[t] = issued[t]
    \/ tokens[t] = None /\ issued[t] # None /\ issued[t] > Life

SessionInv ==
    /\ tokens \in [Tokens -> Ages]
    /\ issued \in [Tokens -> Ages]
    /\ \A t \in Tokens : Remembers(t)

-----------------------------------------------------------------------------
LEMMA NewProcessRemembers == NoSessions => SessionInv'
  BY SessionsAssumption DEF NoSessions, SessionInv, Ages, Remembers

LEMMA SessionInvInit == HostInit => SessionInv
  BY SessionsAssumption DEF HostInit, SessionsInit, SessionInv, Ages, Remembers

LEMMA SessionStepRemembers == SessionInv /\ SessionStep => SessionInv'
<1> SUFFICES ASSUME SessionInv, SessionStep PROVE SessionInv'
  OBVIOUS
<1> USE SessionsAssumption DEF SessionInv, Ages, Remembers
<1>1. ASSUME NEW b \in Browsers, Login(b) PROVE SessionInv'
  BY <1>1 DEF Login
<1>2. ASSUME NEW b \in Browsers, Logout(b) PROVE SessionInv'
  BY <1>2 DEF Logout
<1>3. ASSUME UNCHANGED <<tokens, issued>> PROVE SessionInv'
  BY <1>3
<1>4. ASSUME NEW b \in Browsers, DropCookie(b) PROVE SessionInv'
  BY <1>3, <1>4 DEF DropCookie
<1>5. ASSUME NEW p \in Passwords, ReloadPassword(p) PROVE SessionInv'
  BY <1>3, <1>5 DEF ReloadPassword
<1>6. CASE SessionTick
  BY <1>6 DEF SessionTick, Aged
<1>7. CASE Cleanup
  BY <1>7 DEF Cleanup
<1> QED BY <1>1, <1>2, <1>4, <1>5, <1>6, <1>7 DEF SessionStep

LEMMA HostStepRemembers == SessionInv /\ [HostNext]_hostVars => SessionInv'
<1> SUFFICES ASSUME SessionInv, [HostNext]_hostVars PROVE SessionInv'
  OBVIOUS
<1>1. CASE Serve
  BY <1>1, NewProcessRemembers DEF Serve
<1>2. CASE StopServing
  BY <1>2, NewProcessRemembers DEF StopServing
<1>3. CASE UNCHANGED sessionVars
  BY <1>3 DEF sessionVars, SessionInv, Remembers
<1>4. CASE SessionStep
  BY <1>4, SessionStepRemembers
<1> QED BY <1>1, <1>2, <1>3, <1>4 DEF HostNext, hostVars

-----------------------------------------------------------------------------
\* In every process, whatever the operator, the SCM and reloads do, a token passes a
\* route that asks for a password if and only if this process issued it less than
\* two hours ago and nobody has logged out with it (auth.go; auth_handler.go).
THEOREM SessionsLastAsGiven == HostSpec => []SessionIffLogin
<1>1. SessionInv => SessionIffLogin
  BY SessionsAssumption DEF SessionInv, Ages, Remembers, SessionIffLogin, Passes, Valid
<1> QED BY SessionInvInit, HostStepRemembers, <1>1, PTL DEF HostSpec
=============================================================================
