------------------------ MODULE TransitionLogProofs ------------------------
(***************************************************************************)
(* What TLAPS proves of the transition log for every timeline: what        *)
(* db.not_ok_seconds adds up, by induction over the rows it walks, and     *)
(* which state db.last_non_ok_state names.                                 *)
(***************************************************************************)
EXTENDS TransitionLog, OrderFacts, SequenceTheorems

-----------------------------------------------------------------------------
(* The walk over the log                                                   *)

\* The sum before a row is read, and what reading the n-th newest row makes of it.
Start(end) == [upper |-> end, total |-> 0, stop |-> FALSE]

Read(c, start, bad, w, n) ==
    LET r == c[Len(c) - n + 1]
        lower == Max({r.at, start})
    IN  IF w.stop \/ r.at >= w.upper THEN w
        ELSE [upper |-> lower,
              total |-> w.total + (IF r.to \in bad THEN w.upper - lower ELSE 0),
              stop  |-> r.at <= start]

\* f[n] is the sum after the n newest rows.
IsWalk(f, m, c, start, end, bad) ==
    f = [n \in 0..m |-> IF n = 0 THEN Start(end) ELSE Read(c, start, bad, f[n - 1], n)]

\* There is a walk over any number of rows: its values are built up one by one.
LEMMA WalkExists ==
    ASSUME NEW c, NEW start, NEW end, NEW bad, NEW m \in Nat
    PROVE  \E f : IsWalk(f, m, c, start, end, bad)
<1> DEFINE T == {k \in Nat : ~\E f : IsWalk(f, k, c, start, end, bad)}
<1>1. SUFFICES ASSUME T # {} PROVE FALSE
  OBVIOUS
<1>2. PICK k \in T : \A y \in T : k <= y
  <2>1. T \subseteq Nat
    OBVIOUS
  <2> HIDE DEF T
  <2> QED BY <1>1, <2>1, Least
<1>3. CASE k = 0
  <2> DEFINE f == [n \in 0..0 |-> Start(end)]
  <2>1. IsWalk(f, 0, c, start, end, bad)
    BY DEF IsWalk
  <2> QED BY <2>1, <1>2, <1>3
<1>4. CASE k # 0
  <2>1. k - 1 \in Nat /\ k - 1 \notin T
    BY <1>2, <1>4
  <2>2. PICK f : IsWalk(f, k - 1, c, start, end, bad)
    BY <2>1
  <2> DEFINE g == [n \in 0..k |-> IF n = k THEN Read(c, start, bad, f[k - 1], k) ELSE f[n]]
  <2>3. ASSUME NEW n \in 0..(k - 1)
        PROVE  /\ f[n] = IF n = 0 THEN Start(end) ELSE Read(c, start, bad, f[n - 1], n)
               /\ g[n] = f[n]
    BY <2>1, <2>2, <1>2 DEF IsWalk
  <2>4. ASSUME NEW n \in 0..k
        PROVE  g[n] = IF n = 0 THEN Start(end) ELSE Read(c, start, bad, g[n - 1], n)
    <3>1. CASE n = k
      <4>1. n - 1 \in 0..(k - 1) /\ g[n - 1] = f[n - 1]
        BY <3>1, <1>4, <2>1, <2>3
      <4> QED BY <3>1, <4>1, <1>4
    <3>2. CASE n # k /\ n # 0
      <4>1. n \in 0..(k - 1) /\ n - 1 \in 0..(k - 1)
        BY <3>2, <2>1
      <4>2. g[n] = f[n] /\ g[n - 1] = f[n - 1]
        BY <4>1, <2>3
      <4> QED BY <4>1, <4>2, <2>3, <3>2
    <3>3. CASE n # k /\ n = 0
      <4>1. n \in 0..(k - 1)
        BY <3>3, <2>1
      <4> QED BY <4>1, <2>3, <3>3
    <3> QED BY <3>1, <3>2, <3>3
  <2>5. g = [n \in 0..k |-> g[n]]
    OBVIOUS
  <2> HIDE DEF g
  <2>6. IsWalk(g, k, c, start, end, bad)
    BY <2>4, <2>5 DEF IsWalk
  <2> QED BY <2>6, <1>2
<1> QED BY <1>3, <1>4

\* db.not_ok_seconds is the total after the rows it scans.
LEMMA NotOkIsWalk ==
    ASSUME NEW c, NEW start \in Int, NEW end \in Int, start < end, NEW bad,
           Min({Len(c), BAD_SCAN_LIMIT}) \in Nat
    PROVE  \E f : /\ IsWalk(f, Min({Len(c), BAD_SCAN_LIMIT}), c, start, end, bad)
                  /\ not_ok_seconds(c, start, end, bad) =
                        f[Min({Len(c), BAD_SCAN_LIMIT})].total
<1> DEFINE rows == Min({Len(c), BAD_SCAN_LIMIT})
           walk == CHOOSE f : IsWalk(f, rows, c, start, end, bad)
<1>1. IsWalk(walk, rows, c, start, end, bad)
  BY WalkExists
<1>2. not_ok_seconds(c, start, end, bad) = walk[rows].total
  BY DEF not_ok_seconds, IsWalk, Start, Read
<1> QED BY <1>1, <1>2

\* A walk begins at the end of the window and reads one row after another.
LEMMA WalkUnfolds ==
    ASSUME NEW f, NEW m \in Nat, NEW c, NEW start, NEW end, NEW bad,
           IsWalk(f, m, c, start, end, bad)
    PROVE  /\ f[0] = Start(end)
           /\ \A n \in 1..m : f[n] = Read(c, start, bad, f[n - 1], n)
  BY DEF IsWalk

\* max() of two numbers, as clamping a span to the window uses it.
LEMMA MaxOfTwo ==
    ASSUME NEW a \in Int, NEW b \in Int
    PROVE  Max({a, b}) = IF a >= b THEN a ELSE b
<1> DEFINE x == IF a >= b THEN a ELSE b
<1>1. x \in {a, b} /\ \A y \in {a, b} : x >= y
  OBVIOUS
<1>2. \A z \in {a, b} : (\A y \in {a, b} : z >= y) => z = x
  OBVIOUS
<1> HIDE DEF x
<1>3. Max({a, b}) = x
  BY <1>1, <1>2 DEF Max
<1> QED BY <1>3 DEF x

\* min() of two numbers, as the scan limit uses it.
LEMMA MinOfTwo ==
    ASSUME NEW a \in Int, NEW b \in Int
    PROVE  Min({a, b}) = IF a <= b THEN a ELSE b
<1> DEFINE x == IF a <= b THEN a ELSE b
<1>1. x \in {a, b} /\ \A y \in {a, b} : x <= y
  OBVIOUS
<1>2. \A z \in {a, b} : (\A y \in {a, b} : z <= y) => z = x
  OBVIOUS
<1> HIDE DEF x
<1>3. Min({a, b}) = x
  BY <1>1, <1>2 DEF Min
<1> QED BY <1>3 DEF x

Sum == [upper : Int, total : Int, stop : BOOLEAN]

\* What a sum may be: its open end lies in the window, and what was added
\* up lies between that end and the window's.
Within(w, start, end) ==
    /\ w \in Sum
    /\ start <= w.upper /\ w.upper <= end
    /\ 0 <= w.total /\ w.total <= end - w.upper

\* Reading a row keeps the sum within its window, whatever the row's stamp.
LEMMA ReadWithin ==
    ASSUME NEW c \in Seq(Change), NEW start \in Int, NEW end \in Int, NEW bad,
           NEW n \in 1..Len(c), NEW w, Within(w, start, end)
    PROVE  Within(Read(c, start, bad, w, n), start, end)
<1> DEFINE r == c[Len(c) - n + 1]
           lower == Max({r.at, start})
<1>1. r \in Change
  <2>1. Len(c) \in Nat /\ Len(c) - n + 1 \in 1..Len(c)
    BY LenProperties
  <2> QED BY <2>1, ElementOfSeq
<1>2. r.at \in Int
  BY <1>1 DEF Change, Time
<1>3. lower = IF r.at >= start THEN r.at ELSE start
  BY <1>2, MaxOfTwo
<1>4. CASE w.stop \/ r.at >= w.upper
  BY <1>4 DEF Read
<1>5. CASE ~(w.stop \/ r.at >= w.upper)
  <2> DEFINE u == [upper |-> lower,
                   total |-> w.total + (IF r.to \in bad THEN w.upper - lower ELSE 0),
                   stop |-> r.at <= start]
  <2>1. Read(c, start, bad, w, n) = u
    BY <1>5 DEF Read
  <2>2. w.upper \in Int /\ w.total \in Int /\ lower \in Int /\ start <= lower /\ lower <= w.upper
    BY <1>2, <1>3, <1>5 DEF Within, Sum
  <2> HIDE DEF lower, r
  <2> QED BY <2>1, <2>2 DEF Within, Sum
<1> QED BY <1>4, <1>5

\* The sum stays within its window to the last row.
LEMMA WalkWithin ==
    ASSUME NEW c \in Seq(Change), NEW start \in Int, NEW end \in Int, start < end,
           NEW bad, NEW f, NEW m \in 0..Len(c), IsWalk(f, m, c, start, end, bad)
    PROVE  \A n \in 0..m : Within(f[n], start, end)
<1> DEFINE T == {n \in 0..m : ~Within(f[n], start, end)}
<1>1. SUFFICES ASSUME T # {} PROVE FALSE
  OBVIOUS
<1>2. PICK n \in T : \A y \in T : n <= y
  <2>1. T \subseteq Nat
    OBVIOUS
  <2> HIDE DEF T
  <2> QED BY <1>1, <2>1, Least
<1>3. /\ f[0] = Start(end)
      /\ \A k \in 1..m : f[k] = Read(c, start, bad, f[k - 1], k)
  BY WalkUnfolds, LenProperties
<1>4. Within(f[0], start, end)
  BY <1>3 DEF Within, Sum, Start
<1>5. n \in 1..m /\ n - 1 \in 0..m /\ n - 1 \notin T /\ n \in 1..Len(c)
  BY <1>2, <1>4, LenProperties
<1>6. Within(Read(c, start, bad, f[n - 1], n), start, end)
  BY <1>5, ReadWithin
<1> QED BY <1>2, <1>3, <1>5, <1>6

\* How many rows db.not_ok_seconds reads.
LEMMA RowsRead ==
    ASSUME NEW c \in Seq(Change)
    PROVE  LET rows == Min({Len(c), BAD_SCAN_LIMIT})
           IN  /\ rows \in 0..Len(c)
               /\ Len(c) <= BAD_SCAN_LIMIT => rows = Len(c)
<1>1. Len(c) \in Nat /\ BAD_SCAN_LIMIT \in Nat
  BY LenProperties, DurationAssumption
<1>2. Min({Len(c), BAD_SCAN_LIMIT}) = IF Len(c) <= BAD_SCAN_LIMIT THEN Len(c) ELSE BAD_SCAN_LIMIT
  BY <1>1, MinOfTwo
<1> QED BY <1>1, <1>2

\* "The hard ceiling in every case": whatever the log holds, in whatever
\* order its stamps are, the sum over a window is within the window.
LEMMA NotOkWithin ==
    ASSUME NEW c \in Seq(Change), NEW start \in Int, NEW end \in Int, start <= end,
           NEW bad
    PROVE  not_ok_seconds(c, start, end, bad) \in 0..(end - start)
<1> DEFINE rows == Min({Len(c), BAD_SCAN_LIMIT})
<1>1. CASE end = start
  BY <1>1 DEF not_ok_seconds
<1>2. CASE end # start
  <2>1. start < end
    BY <1>2
  <2>2. rows \in 0..Len(c) /\ rows \in Nat
    BY RowsRead, LenProperties
  <2>3. PICK f : /\ IsWalk(f, rows, c, start, end, bad)
                 /\ not_ok_seconds(c, start, end, bad) = f[rows].total
    BY <2>1, <2>2, NotOkIsWalk
  <2> HIDE DEF rows
  <2>4. Within(f[rows], start, end)
    BY <2>1, <2>2, <2>3, WalkWithin
  <2> QED BY <2>3, <2>4 DEF Within, Sum
<1> QED BY <1>1, <1>2

-----------------------------------------------------------------------------
(* What the log is while the clock is not stepped                          *)

\* The log's variables have their types.
LogType ==
    /\ wall \in Nat /\ steps \in Nat
    /\ changes \in Seq(Change)
    /\ truth \in Seq(Observed)

\* Stamps ascend, from the first second on, and lie in the past.
Ascending ==
    /\ wall = MaxSeconds + Len(truth)
    /\ \A i \in DOMAIN changes : changes[i].at \in MaxSeconds..(wall - 1)
    /\ \A i, k \in DOMAIN changes : i < k => changes[i].at < changes[k].at
    /\ truth # <<>> => changes # <<>> /\ changes[1].at = MaxSeconds

\* Row i is the one in force at the time x.
InForce(i, x) ==
    changes[i].at <= x /\ (i = Len(changes) \/ x < changes[i + 1].at)

\* A second was spent in the state of the row in force.
Follows ==
    \A i \in DOMAIN changes, k \in DOMAIN truth :
        InForce(i, MaxSeconds + k - 1) => truth[k] = changes[i].to

\* What the proofs about an unstepped clock rest on.
LInv ==
    /\ LogType
    /\ steps = 0 => Ascending /\ Follows

\* A row that is not the last has a next one.
LEMMA NextIndex == \A m \in Nat : \A i \in 1..m : i # m => i + 1 \in 1..m
  OBVIOUS

\* An empty log follows an empty history.
LEMMA InitLInv == LogInit => LInv
<1> SUFFICES ASSUME LogInit PROVE LInv
  OBVIOUS
<1>1. LogType
  BY ObservedAssumption DEF LogInit, LogType
<1>2. changes = <<>> /\ truth = <<>> /\ Len(truth) = 0 /\ DOMAIN changes = {}
  BY DEF LogInit
<1> QED BY <1>1, <1>2, ObservedAssumption DEF LInv, Ascending, Follows, LogInit

\* One more second: the newest row, old or new, is in force in it.
LEMMA SecondLInv == ASSUME LInv, NEW s \in Observed, Second(s) PROVE LInv'
<1> DEFINE new == [at |-> wall, to |-> s]
           stored == IF changes = <<>> THEN "UNKNOWN" ELSE changes[Len(changes)].to
           L == Len(changes)
           N == Len(truth)
<1>1. /\ wall \in Nat /\ changes \in Seq(Change) /\ truth \in Seq(Observed)
      /\ L \in Nat /\ N \in Nat /\ DOMAIN changes = 1..L /\ DOMAIN truth = 1..N
      /\ MaxSeconds \in Nat
  BY LenProperties, ObservedAssumption DEF LInv, LogType
<1>2. new \in Change /\ s # "UNKNOWN" /\ new.at = wall /\ new.to = s
  BY <1>1, ObservedAssumption DEF Change, Time
<1> HIDE DEF new
<1>3. /\ truth' = Append(truth, s) /\ truth' \in Seq(Observed)
      /\ Len(truth') = N + 1 /\ DOMAIN truth' = 1..(N + 1)
      /\ truth'[N + 1] = s /\ \A k \in 1..N : truth'[k] = truth[k]
  <2>1. truth' = Append(truth, s)
    BY DEF Second
  <2>2. /\ Append(truth, s) \in Seq(Observed) /\ Len(Append(truth, s)) = N + 1
        /\ Append(truth, s)[N + 1] = s
        /\ \A k \in 1..N : Append(truth, s)[k] = truth[k]
    BY <1>1, AppendProperties
  <2>3. DOMAIN Append(truth, s) = 1..(N + 1)
    BY <2>2, LenProperties
  <2> QED BY <2>1, <2>2, <2>3
<1>4. /\ Append(changes, new) \in Seq(Change) /\ Len(Append(changes, new)) = L + 1
      /\ Append(changes, new)[L + 1] = new
      /\ \A k \in 1..L : Append(changes, new)[k] = changes[k]
      /\ DOMAIN Append(changes, new) = 1..(L + 1)
  <2>1. /\ Append(changes, new) \in Seq(Change) /\ Len(Append(changes, new)) = L + 1
        /\ Append(changes, new)[L + 1] = new
        /\ \A k \in 1..L : Append(changes, new)[k] = changes[k]
    BY <1>1, <1>2, AppendProperties
  <2> QED BY <2>1, LenProperties
<1>5. changes' = IF s = stored THEN changes ELSE Append(changes, new)
  BY DEF Second, record_change, new
<1>6. wall' = wall + 1 /\ steps' = steps /\ ahead' = ahead
  BY DEF Second
<1>7. LogType'
  BY <1>1, <1>3, <1>4, <1>5, <1>6 DEF LogType, LInv
<1>8. ASSUME steps = 0, Ascending, Follows PROVE Ascending' /\ Follows'
  <2>1. wall = MaxSeconds + N
    BY <1>8 DEF Ascending
  <2>2. wall' = MaxSeconds + Len(truth')
    BY <1>1, <1>3, <1>6, <2>1
  <2>3. CASE s = stored
    <3>1. changes' = changes /\ changes # <<>> /\ L \in 1..L /\ changes[L].to = s
      BY <1>1, <1>2, <1>5, <2>3, EmptySeq
    <3>2. \A i \in 1..L : changes[i].at \in MaxSeconds..(wall' - 1)
      BY <1>1, <1>6, <1>8, SMTT(40) DEF Ascending
    <3>3. changes[1].at = MaxSeconds
      BY <1>1, <1>8, <3>1, EmptySeq DEF Ascending
    <3>4. Ascending'
      BY <1>1, <1>3, <1>6, <1>8, <2>2, <3>1, <3>2, <3>3 DEF Ascending
    <3>5. ASSUME NEW i \in 1..L, NEW k \in 1..(N + 1), InForce(i, MaxSeconds + k - 1)
          PROVE  truth'[k] = changes[i].to
      <4>1. CASE k \in 1..N
        BY <1>1, <1>3, <1>8, <3>5, <4>1 DEF Follows
      <4>2. CASE k = N + 1
        <5>1. i = L
          <6>1. CASE i # L
            <7>1. i + 1 \in 1..L
              BY <1>1, <6>1, NextIndex
            <7>2. changes[i + 1].at \in MaxSeconds..(wall - 1)
              BY <7>1, <1>1, <1>8 DEF Ascending
            <7>3. MaxSeconds + k - 1 < changes[i + 1].at
              BY <3>5, <6>1, Zenon DEF InForce
            <7>4. MaxSeconds + k - 1 = wall /\ wall \in Nat
              BY <4>2, <2>1, <1>1
            <7>5. wall < changes[i + 1].at
              BY <7>3, <7>4, Zenon
            <7> HIDE DEF L, N
            <7> QED BY <7>2, <7>4, <7>5
          <6> QED BY <6>1
        <5> QED BY <5>1, <4>2, <1>3, <3>1
      <4> QED BY <4>1, <4>2, <1>1
    <3>6. Follows'
      BY <3>1, <3>5, <1>1, <1>3, ZenonT(40) DEF Follows, InForce
    <3> QED BY <3>4, <3>6
  <2>4. CASE s # stored
    <3>1. changes' = Append(changes, new)
      BY <1>5, <2>4
    <3>2. \A i \in 1..(L + 1) : i # L + 1 => i \in 1..L
      BY <1>1
    <3>3. \A i \in 1..(L + 1) : changes'[i].at \in MaxSeconds..(wall' - 1)
      BY <1>1, <1>2, <1>4, <1>6, <1>8, <2>1, <3>1, <3>2, SMTT(40) DEF Ascending
    <3>4. \A i, k \in 1..(L + 1) : i < k => changes'[i].at < changes'[k].at
      <4> SUFFICES ASSUME NEW i \in 1..(L + 1), NEW k \in 1..(L + 1), i < k
                   PROVE  changes'[i].at < changes'[k].at
        OBVIOUS
      <4>1. i \in 1..L /\ changes'[i] = changes[i]
        BY <1>1, <1>4, <3>1
      <4>2. CASE k \in 1..L
        BY <4>1, <4>2, <1>1, <1>4, <1>8, <3>1 DEF Ascending
      <4>3. CASE k = L + 1
        <5>1. changes[i].at \in MaxSeconds..(wall - 1)
          BY <4>1, <1>1, <1>8 DEF Ascending
        <5> QED BY <5>1, <4>1, <4>3, <1>1, <1>2, <1>4, <3>1
      <4> QED BY <4>2, <4>3, <1>1
    <3>5. changes' # <<>> /\ changes'[1].at = MaxSeconds
      <4>1. CASE L = 0
        <5>1. truth = <<>> /\ N = 0
          <6>1. changes = <<>>
            BY <4>1, <1>1, EmptySeq
          <6> QED BY <6>1, <1>1, <1>8, EmptySeq DEF Ascending
        <5> QED BY <5>1, <4>1, <1>1, <1>2, <1>4, <2>1, <3>1, EmptySeq
      <4>2. CASE L # 0
        <5>1. changes # <<>> /\ 1 \in 1..L
          BY <4>2, <1>1, EmptySeq
        <5>2. truth # <<>>
          <6>1. changes[1].at \in MaxSeconds..(wall - 1)
            BY <5>1, <1>1, <1>8 DEF Ascending
          <6>2. N # 0
            BY <6>1, <2>1, <1>1
          <6> QED BY <6>2, <1>1, EmptySeq
        <5>3. changes[1].at = MaxSeconds
          BY <5>2, <1>8 DEF Ascending
        <5> QED BY <5>1, <5>3, <1>1, <1>4, <3>1, EmptySeq
      <4> QED BY <4>1, <4>2
    <3>6. Ascending'
      BY <1>3, <1>4, <2>2, <3>1, <3>3, <3>4, <3>5 DEF Ascending
    <3>7. ASSUME NEW i \in 1..(L + 1), NEW k \in 1..(N + 1),
                 InForce(i, MaxSeconds + k - 1)'
          PROVE  truth'[k] = changes'[i].to
      <4>1. /\ changes'[i].at <= MaxSeconds + k - 1
            /\ i = L + 1 \/ MaxSeconds + k - 1 < changes'[i + 1].at
        BY <3>7, <1>4, <3>1 DEF InForce
      <4>2. CASE i = L + 1
        <5>1. k = N + 1
          BY <4>1, <4>2, <1>1, <1>2, <1>4, <2>1, <3>1
        <5> QED BY <5>1, <4>2, <1>2, <1>3, <1>4, <3>1
      <4>3. CASE i # L + 1
        <5>1. i \in 1..L /\ i + 1 \in 1..(L + 1) /\ changes'[i] = changes[i]
          BY <4>3, <1>1, <1>4, <3>1
        <5>2. changes'[i + 1].at <= wall
          <6>1. changes'[i + 1].at \in MaxSeconds..(wall' - 1)
            BY <5>1, <3>3
          <6> QED BY <6>1, <1>1, <1>6
        <5>3. changes'[i + 1].at \in Nat
          BY <5>1, <3>3, <1>1
        <5>4. k \in 1..N
          BY <4>1, <4>3, <5>2, <5>3, <2>1, <1>1
        <5>5. InForce(i, MaxSeconds + k - 1)
          <6>1. i # L => i + 1 \in 1..L /\ changes'[i + 1] = changes[i + 1]
            BY <5>1, <1>1, <1>4, <3>1, NextIndex
          <6> QED BY <6>1, <4>1, <4>3, <5>1 DEF InForce
        <5>6. truth[k] = changes[i].to
          BY <5>1, <5>4, <5>5, <1>1, <1>8 DEF Follows
        <5> QED BY <5>1, <5>4, <5>6, <1>3
      <4> QED BY <4>2, <4>3
    <3>8. Follows'
      BY <3>1, <3>7, <1>3, <1>4 DEF Follows, InForce
    <3> QED BY <3>6, <3>8
  <2> QED BY <2>3, <2>4
<1> QED BY <1>6, <1>7, <1>8 DEF LInv

\* Stepping the clock gives the claims about an unstepped one up for good.
LEMMA NextLInv == LInv /\ [LogNext]_logvars => LInv'
<1> SUFFICES ASSUME LInv, [LogNext]_logvars PROVE LInv'
  OBVIOUS
<1>1. CASE \E s \in Observed : Second(s)
  BY <1>1, SecondLInv
<1>2. CASE StepBack
  <2>1. wall' \in Nat /\ steps' \in Nat /\ steps' # 0
    BY <1>2 DEF StepBack, LInv, LogType
  <2> QED BY <1>2, <2>1 DEF StepBack, LInv, LogType
<1>3. CASE StepAhead
  <2>1. wall' \in Nat /\ steps' \in Nat /\ steps' # 0
    BY <1>3, ObservedAssumption DEF StepAhead, LInv, LogType
  <2> QED BY <1>3, <2>1 DEF StepAhead, LInv, LogType
<1>4. CASE Watched \/ UNCHANGED logvars
  BY <1>4 DEF Watched, logvars, LInv, LogType, Ascending, Follows, InForce
<1> QED BY <1>1, <1>2, <1>3, <1>4 DEF LogNext

\* For every timeline and every sawtooth of the clock: the states of a
\* window never add up to more than the window.
THEOREM CeilingHolds == LogSpec => []NotOkCeiling
<1>1. LInv => NotOkCeiling
  <2> SUFFICES ASSUME LInv, NEW w \in 0..(MaxSeconds + 1), NEW S \in SUBSET Observed
               PROVE  not_ok_seconds(changes, wall - w, wall, S) \in 0..w
    BY DEF NotOkCeiling
  <2>1. /\ changes \in Seq(Change) /\ wall \in Int /\ wall - w \in Int
        /\ wall - w <= wall /\ wall - (wall - w) = w
    BY ObservedAssumption DEF LInv, LogType
  <2>2. not_ok_seconds(changes, wall - w, wall, S) \in 0..(wall - (wall - w))
    BY <2>1, NotOkWithin
  <2> QED BY <2>1, <2>2
<1> QED BY <1>1, InitLInv, NextLInv, PTL DEF LogSpec

-----------------------------------------------------------------------------
(* The sum against the time really spent, on a clock that is not stepped   *)

\* The seconds from the time x on that were spent in state s.
Spent(x, s) == {k \in DOMAIN truth : MaxSeconds + k - 1 >= x /\ truth[k] = s}

\* Seconds are finitely many.
LEMMA SpentFinite ==
    ASSUME truth \in Seq(Observed), NEW x, NEW s
    PROVE  IsFiniteSet(Spent(x, s)) /\ Cardinality(Spent(x, s)) \in Nat
<1>1. DOMAIN truth = 1..Len(truth) /\ Len(truth) \in Nat
  BY LenProperties
<1>2. IsFiniteSet(1..Len(truth))
  BY <1>1, FS_Interval
<1>3. Spent(x, s) \subseteq 1..Len(truth)
  BY <1>1 DEF Spent
<1> QED BY <1>2, <1>3, FS_Subset, FS_CardinalityType

\* A span in which one row is in force: all of it was spent in its state.
LEMMA SpanCounts ==
    ASSUME LogType, Ascending, Follows, NEW s, NEW i \in DOMAIN changes,
           NEW lower \in Int, NEW upper \in Int,
           changes[i].at <= lower, lower <= upper, upper <= wall,
           i = Len(changes) \/ upper <= changes[i + 1].at
    PROVE  Cardinality(Spent(lower, s)) = Cardinality(Spent(upper, s))
              + (IF changes[i].to = s THEN upper - lower ELSE 0)
<1> DEFINE a == lower - MaxSeconds + 1
           b == upper - MaxSeconds
           N == Len(truth)
<1>1. /\ MaxSeconds \in Nat /\ wall = MaxSeconds + N /\ N \in Nat
      /\ DOMAIN truth = 1..N /\ MaxSeconds <= lower /\ truth \in Seq(Observed)
  <2>1. /\ MaxSeconds \in Nat /\ wall = MaxSeconds + N /\ N \in Nat
        /\ DOMAIN truth = 1..N /\ truth \in Seq(Observed)
    BY ObservedAssumption, LenProperties DEF LogType, Ascending
  <2>2. changes[i].at \in MaxSeconds..(wall - 1) /\ wall \in Nat
    BY DEF Ascending, LogType
  <2> QED BY <2>1, <2>2
<1>2. a \in Int /\ b \in Int /\ 1 <= a /\ b <= N /\ b - a + 1 = upper - lower /\ a <= b + 1
  BY <1>1
<1>3. ASSUME NEW k \in a..b PROVE k \in 1..N /\ truth[k] = changes[i].to
  <2>1. k \in 1..N /\ lower <= MaxSeconds + k - 1 /\ MaxSeconds + k - 1 < upper
    BY <1>1, <1>2
  <2>2. changes[i].at \in Nat
    <3>1. changes[i] \in Change
      BY LenProperties, ElementOfSeq DEF LogType
    <3> QED BY <3>1 DEF Change, Time
  <2>3. changes[i].at <= MaxSeconds + k - 1
    BY <2>1, <2>2, <1>1
  <2>4. i # Len(changes) => MaxSeconds + k - 1 < changes[i + 1].at
    <3>1. CASE i # Len(changes)
      <4>1. Len(changes) \in Nat /\ DOMAIN changes = 1..Len(changes)
        BY LenProperties DEF LogType
      <4>2. i + 1 \in 1..Len(changes)
        BY <3>1, <4>1, NextIndex
      <4>3. changes[i + 1].at \in Nat
        <5>1. changes[i + 1] \in Change
          BY <4>2, ElementOfSeq DEF LogType
        <5> QED BY <5>1 DEF Change, Time
      <4> QED BY <3>1, <4>3, <2>1, <1>1
    <3> QED BY <3>1
  <2> QED BY <2>1, <2>3, <2>4, <1>1 DEF Follows, InForce
<1>4. IsFiniteSet(a..b) /\ Cardinality(a..b) = upper - lower
  <2>1. IsFiniteSet(a..b) /\ Cardinality(a..b) = IF a > b THEN 0 ELSE b - a + 1
    BY <1>2, FS_Interval
  <2> HIDE DEF a, b
  <2> QED BY <2>1, <1>2
<1>5. IsFiniteSet(Spent(upper, s)) /\ Cardinality(Spent(upper, s)) \in Nat
  BY <1>1, SpentFinite
<1>6. CASE changes[i].to = s
  <2>1. Spent(lower, s) = Spent(upper, s) \cup (a..b)
    <3>1. ASSUME NEW k \in Spent(lower, s) PROVE k \in Spent(upper, s) \cup (a..b)
      BY <1>1, <1>2 DEF Spent
    <3>2. ASSUME NEW k \in Spent(upper, s) PROVE k \in Spent(lower, s)
      BY <1>1 DEF Spent
    <3>3. ASSUME NEW k \in a..b PROVE k \in Spent(lower, s)
      BY <1>1, <1>2, <1>3, <1>6 DEF Spent
    <3> HIDE DEF a, b
    <3> QED BY <3>1, <3>2, <3>3
  <2>2. Spent(upper, s) \cap (a..b) = {}
    BY <1>1, <1>2 DEF Spent
  <2> HIDE DEF a, b
  <2>3. Cardinality(Spent(lower, s))
          = Cardinality(Spent(upper, s)) + Cardinality(a..b) - Cardinality({})
    BY <1>4, <1>5, <2>1, <2>2, FS_Union, ZenonT(40)
  <2>4. Cardinality({}) = 0
    BY FS_EmptySet
  <2> QED BY <1>4, <1>5, <1>6, <2>3, <2>4
<1>7. CASE changes[i].to # s
  <2>1. Spent(lower, s) = Spent(upper, s)
    <3>1. ASSUME NEW k \in Spent(lower, s) PROVE k \in Spent(upper, s)
      BY <1>1, <1>2, <1>3, <1>7 DEF Spent
    <3>2. ASSUME NEW k \in Spent(upper, s) PROVE k \in Spent(lower, s)
      BY <1>1 DEF Spent
    <3> QED BY <3>1, <3>2
  <2> QED BY <2>1, <1>5, <1>7
<1> QED BY <1>6, <1>7

\* A sum after n rows counts what was spent from its open end on: the stamp
\* of the last row read, or the window's edge once a row lies before it.
Counts(w, n, start, s) ==
    /\ w.total = Cardinality(Spent(w.upper, s))
    /\ w.stop => w.upper = start
    /\ ~w.stop => w.upper = IF n = 0 THEN wall ELSE changes[Len(changes) - n + 1].at

\* Reading the next row of an ascending log adds exactly its span.
LEMMA ReadCounts ==
    ASSUME LogType, Ascending, Follows, NEW s, NEW start \in Int, NEW n \in 1..Len(changes),
           NEW w, Within(w, start, wall), Counts(w, n - 1, start, s)
    PROVE  Counts(Read(changes, start, {s}, w, n), n, start, s)
<1> DEFINE L == Len(changes)
           i == L - n + 1
           r == changes[i]
           lower == Max({r.at, start})
<1>1. /\ L \in Nat /\ DOMAIN changes = 1..L /\ i \in 1..L /\ wall \in Nat
      /\ truth \in Seq(Observed)
  BY LenProperties DEF LogType
<1>2. r.at \in Nat /\ r.at < wall
  <2>1. r.at \in MaxSeconds..(wall - 1)
    BY <1>1 DEF Ascending
  <2> QED BY <2>1, <1>1, ObservedAssumption
<1>3. lower = IF r.at >= start THEN r.at ELSE start
  BY <1>2, MaxOfTwo
<1>4. CASE w.stop
  BY <1>4 DEF Read, Counts
<1>5. CASE ~w.stop
  <2>1. i = L \/ w.upper = changes[i + 1].at
    <3>1. n - 1 # 0 => Len(changes) - (n - 1) + 1 = i + 1
      BY <1>1
    <3>2. n - 1 = 0 => i = L
      BY <1>1
    <3> QED BY <3>1, <3>2, <1>5 DEF Counts
  <2>2. r.at < w.upper
    <3>1. CASE n - 1 = 0
      BY <3>1, <1>2, <1>5 DEF Counts
    <3>2. CASE n - 1 # 0
      <4>1. i + 1 \in 1..L /\ i < i + 1 /\ w.upper = changes[i + 1].at
        <5>1. i + 1 = L - (n - 1) + 1 /\ i + 1 \in 1..L
          BY <1>1, <3>2
        <5> QED BY <5>1, <1>1, <1>5, <3>2 DEF Counts
      <4> QED BY <4>1, <1>1 DEF Ascending
    <3> QED BY <3>1, <3>2
  <2>3. w.upper \in Int /\ w.total \in Int /\ start <= w.upper /\ w.upper <= wall
    BY DEF Within, Sum
  <2>4. lower \in Int /\ r.at <= lower /\ lower <= w.upper
    BY <1>2, <1>3, <2>2, <2>3
  <2> DEFINE u == [upper |-> lower,
                   total |-> w.total + (IF r.to \in {s} THEN w.upper - lower ELSE 0),
                   stop |-> r.at <= start]
  <2>5. Read(changes, start, {s}, w, n) = u
    <3>1. ~(r.at >= w.upper)
      BY <1>2, <2>2, <2>3
    <3> QED BY <3>1, <1>5 DEF Read
  <2>6. Cardinality(Spent(lower, s)) = Cardinality(Spent(w.upper, s))
           + (IF r.to = s THEN w.upper - lower ELSE 0)
    <3>1. i = Len(changes) \/ w.upper <= changes[i + 1].at
      BY <2>1, <2>3
    <3> HIDE DEF i, lower
    <3> QED BY <3>1, <1>1, <2>3, <2>4, SpanCounts
  <2>7. u.total = Cardinality(Spent(u.upper, s))
    <3>1. w.total = Cardinality(Spent(w.upper, s))
      BY DEF Counts
    <3> HIDE DEF lower, i
    <3> QED BY <3>1, <2>6
  <2>8. (u.stop => u.upper = start) /\ (~u.stop => u.upper = r.at)
    <3>1. u.upper = lower /\ u.stop = (r.at <= start)
      OBVIOUS
    <3>2. (r.at <= start => lower = start) /\ (~(r.at <= start) => lower = r.at)
      BY <1>2, <1>3
    <3> QED BY <3>1, <3>2, Zenon
  <2>9. n # 0
    OBVIOUS
  <2> HIDE DEF u
  <2> QED BY <2>5, <2>7, <2>8, <2>9 DEF Counts
<1> QED BY <1>4, <1>5

\* So does the whole walk.
LEMMA WalkCounts ==
    ASSUME LogType, Ascending, Follows, NEW s, NEW start \in Int, start < wall,
           NEW f, IsWalk(f, Len(changes), changes, start, wall, {s})
    PROVE  Counts(f[Len(changes)], Len(changes), start, s)
<1> DEFINE m == Len(changes)
           T == {n \in 0..m : ~Counts(f[n], n, start, s)}
<1>1. /\ m \in Nat /\ changes \in Seq(Change) /\ wall \in Nat /\ truth \in Seq(Observed)
      /\ DOMAIN truth = 1..Len(truth) /\ Len(truth) \in Nat
  BY LenProperties DEF LogType
<1>2. SUFFICES ASSUME T # {} PROVE FALSE
  BY <1>1
<1>3. PICK n \in T : \A y \in T : n <= y
  <2>1. T \subseteq Nat
    BY <1>1
  <2> HIDE DEF T
  <2> QED BY <1>2, <2>1, Least
<1>4. /\ f[0] = Start(wall)
      /\ \A k \in 1..m : f[k] = Read(changes, start, {s}, f[k - 1], k)
  BY <1>1, WalkUnfolds
<1>5. Counts(f[0], 0, start, s)
  <2>1. Spent(wall, s) = {}
    <3>1. wall = MaxSeconds + Len(truth) /\ MaxSeconds \in Nat
      BY ObservedAssumption DEF Ascending
    <3> QED BY <3>1, <1>1 DEF Spent
  <2>2. Cardinality({}) = 0
    BY FS_EmptySet
  <2>3. f[0].upper = wall /\ f[0].total = 0 /\ ~f[0].stop
    BY <1>4 DEF Start
  <2> QED BY <2>1, <2>2, <2>3 DEF Counts
<1>6. n \in 1..m /\ n - 1 \in 0..m /\ n - 1 \notin T
  BY <1>1, <1>3, <1>5
<1>7. Within(f[n - 1], start, wall)
  <2>1. \A k \in 0..m : Within(f[k], start, wall)
    BY <1>1, WalkWithin
  <2> QED BY <1>6, <2>1
<1>8. Counts(Read(changes, start, {s}, f[n - 1], n), n, start, s)
  BY <1>6, <1>7, ReadCounts
<1> QED BY <1>3, <1>4, <1>6, <1>8

\* The window's seconds, whatever its length.
LEMMA MeasuresTruth ==
    ASSUME LogType, Ascending, Follows, Len(changes) <= BAD_SCAN_LIMIT,
           NEW w \in Nat, NEW s
    PROVE  Measured(w, s) = TrueSeconds(w, s)
<1> DEFINE start == wall - w
           L == Len(changes)
<1>1. /\ L \in Nat /\ changes \in Seq(Change) /\ wall \in Nat /\ start \in Int
      /\ truth \in Seq(Observed) /\ DOMAIN truth = 1..Len(truth) /\ Len(truth) \in Nat
      /\ wall = MaxSeconds + Len(truth) /\ MaxSeconds \in Nat
  BY LenProperties, ObservedAssumption DEF LogType, Ascending
<1>2. TrueSeconds(w, s) = Cardinality(Spent(start, s))
  <2>1. \A k \in DOMAIN truth : k > Len(truth) - w <=> MaxSeconds + k - 1 >= start
    BY <1>1
  <2> QED BY <2>1 DEF TrueSeconds, Spent
<1>3. CASE w = 0
  <2>1. Measured(w, s) = 0
    BY <1>1, <1>3 DEF Measured, not_ok_seconds
  <2>2. Spent(start, s) = {}
    BY <1>1, <1>3 DEF Spent
  <2> QED BY <1>2, <2>1, <2>2, FS_EmptySet
<1>4. CASE w # 0
  <2>1. start < wall
    BY <1>1, <1>4
  <2>2. Min({Len(changes), BAD_SCAN_LIMIT}) = L
    BY <1>1, RowsRead
  <2>3. PICK f : /\ IsWalk(f, L, changes, start, wall, {s})
                 /\ not_ok_seconds(changes, start, wall, {s}) = f[L].total
    <3>1. Min({Len(changes), BAD_SCAN_LIMIT}) \in Nat
      BY <1>1, <2>2
    <3> HIDE DEF start
    <3>2. \E f : /\ IsWalk(f, Min({Len(changes), BAD_SCAN_LIMIT}), changes, start, wall, {s})
                 /\ not_ok_seconds(changes, start, wall, {s}) =
                       f[Min({Len(changes), BAD_SCAN_LIMIT})].total
      BY <1>1, <2>1, <3>1, NotOkIsWalk
    <3> QED BY <2>2, <3>2
  <2> HIDE DEF start
  <2>4. Counts(f[L], L, start, s)
    BY <1>1, <2>1, <2>3, WalkCounts
  <2>5. Spent(f[L].upper, s) = Spent(start, s)
    <3>1. CASE f[L].stop
      BY <2>4, <3>1 DEF Counts
    <3>2. CASE ~f[L].stop /\ L = 0
      <4>1. truth = <<>>
        BY <1>1, <3>2, EmptySeq DEF Ascending
      <4> QED BY <4>1 DEF Spent
    <3>3. CASE ~f[L].stop /\ L # 0
      <4>1. L - L + 1 = 1 /\ 1 \in 1..L
        BY <1>1, <3>3
      <4>2. f[L].upper = changes[1].at
        BY <2>4, <3>3, <4>1 DEF Counts
      <4>3. changes[1].at \in MaxSeconds..(wall - 1)
        BY <4>1, <1>1, LenProperties DEF Ascending
      <4>4. truth # <<>>
        BY <1>1, <4>3, EmptySeq
      <4>5. f[L].upper = MaxSeconds
        BY <4>2, <4>4 DEF Ascending
      <4>6. start <= MaxSeconds
        <5>1. Within(f[L], start, wall)
          <6>1. \A k \in 0..L : Within(f[k], start, wall)
            BY <1>1, <2>1, <2>3, WalkWithin
          <6> QED BY <6>1, <1>1
        <5> QED BY <5>1, <4>5 DEF Within
      <4>7. \A k \in DOMAIN truth : MaxSeconds + k - 1 >= MaxSeconds /\ MaxSeconds + k - 1 >= start
        BY <4>6, <1>1
      <4> QED BY <4>5, <4>7 DEF Spent
    <3> QED BY <3>1, <3>2, <3>3
  <2>6. f[L].total = Cardinality(Spent(f[L].upper, s))
    BY <2>4 DEF Counts
  <2> QED BY <1>2, <2>3, <2>5, <2>6 DEF Measured, start
<1> QED BY <1>3, <1>4

\* For every timeline, every window and every state, on a clock that was
\* never stepped: what db.not_ok_seconds adds up is the time really spent,
\* as long as the log has no more rows than it scans.
THEOREM ExactWhenMonotone ==
    LogSpec => [](Len(changes) <= BAD_SCAN_LIMIT => NotOkExact)
<1>1. LInv => (Len(changes) <= BAD_SCAN_LIMIT => NotOkExact)
  <2> SUFFICES ASSUME LInv, steps = 0, Len(changes) <= BAD_SCAN_LIMIT,
                      NEW w \in 0..(MaxSeconds + 1), NEW s \in Observed
               PROVE  Measured(w, s) = TrueSeconds(w, s)
    BY DEF NotOkExact
  <2>1. w \in Nat
    BY ObservedAssumption
  <2> QED BY <2>1, MeasuresTruth DEF LInv
<1> QED BY <1>1, InitLInv, NextLInv, PTL DEF LogSpec

-----------------------------------------------------------------------------
(* The name of an episode, on a clock that is not stepped                  *)

\* Every second has a row in force.
LEMMA RowOf ==
    ASSUME LogType, Ascending, NEW k \in DOMAIN truth
    PROVE  \E i \in DOMAIN changes : InForce(i, MaxSeconds + k - 1)
<1> DEFINE x == MaxSeconds + k - 1
           L == Len(changes)
           T == {i \in 1..L : changes[i].at <= x}
<1>1. /\ L \in Nat /\ DOMAIN changes = 1..L /\ k \in 1..Len(truth) /\ Len(truth) \in Nat
      /\ MaxSeconds \in Nat /\ wall \in Nat /\ truth \in Seq(Observed) /\ changes \in Seq(Change)
  BY LenProperties, ObservedAssumption DEF LogType
<1>2. 1 \in 1..L /\ changes[1].at = MaxSeconds
  <2>1. truth # <<>>
    BY <1>1, EmptySeq
  <2> QED BY <2>1, <1>1, EmptySeq DEF Ascending
<1>3. T \subseteq Nat /\ 1 \in T /\ \A i \in T : i <= L
  BY <1>1, <1>2
<1>4. PICK i \in T : \A y \in T : y <= i
  <2> HIDE DEF T
  <2> QED BY <1>1, <1>3, Greatest
<1>5. i # L => x < changes[i + 1].at
  <2>1. CASE i # L
    <3>1. i \in 1..L
      BY <1>4
    <3>2. i + 1 \in 1..L
      BY <3>1, <1>1, <2>1, NextIndex
    <3>3. i + 1 \notin T
      <4>1. ~(i + 1 <= i)
        BY <3>1
      <4> HIDE DEF T
      <4> QED BY <1>4, <4>1
    <3>4. changes[i + 1].at \in MaxSeconds..(wall - 1)
      BY <3>2, <1>1 DEF Ascending
    <3>5. ~(changes[i + 1].at <= x)
      BY <3>2, <3>3
    <3>6. x \in Int /\ changes[i + 1].at \in Int
      BY <3>4, <1>1
    <3> HIDE DEF x
    <3> QED BY <3>5, <3>6
  <2> QED BY <2>1
<1> QED BY <1>1, <1>4, <1>5 DEF InForce

\* Every row is in force in the second it was written in.
LEMMA SecondOf ==
    ASSUME LogType, Ascending, Follows, NEW i \in DOMAIN changes
    PROVE  /\ changes[i].at - MaxSeconds + 1 \in DOMAIN truth
           /\ truth[changes[i].at - MaxSeconds + 1] = changes[i].to
<1> DEFINE k == changes[i].at - MaxSeconds + 1
<1>1. /\ Len(changes) \in Nat /\ DOMAIN changes = 1..Len(changes)
      /\ DOMAIN truth = 1..Len(truth) /\ Len(truth) \in Nat
      /\ MaxSeconds \in Nat /\ wall = MaxSeconds + Len(truth)
  BY LenProperties, ObservedAssumption DEF LogType, Ascending
<1>2. changes[i].at \in MaxSeconds..(wall - 1)
  BY DEF Ascending
<1>3. k \in DOMAIN truth /\ MaxSeconds + k - 1 = changes[i].at
  BY <1>1, <1>2
<1>4. i # Len(changes) => changes[i].at < changes[i + 1].at
  <2>1. CASE i # Len(changes)
    <3>1. i + 1 \in DOMAIN changes /\ i < i + 1
      BY <2>1, <1>1, NextIndex
    <3> QED BY <3>1 DEF Ascending
  <2> QED BY <2>1
<1>5. changes[i].at <= changes[i].at
  BY <1>1, <1>2
<1> HIDE DEF k
<1>6. InForce(i, MaxSeconds + k - 1)
  BY <1>3, <1>4, <1>5 DEF InForce
<1>7. truth[k] = changes[i].to
  BY <1>3, <1>6 DEF Follows
<1> QED BY <1>3, <1>7 DEF k

\* Hence the last row that is not OK and the last second that was not agree.
LEMMA NamesTheLast ==
    ASSUME LogType, Ascending, Follows
    PROVE  last_non_ok_state(changes) = TrueLastNonOk
<1> DEFINE bad == {i \in DOMAIN changes : changes[i].to # "OK"}
           newest == {i \in bad : \A k \in bad :
                         \/ changes[k].at < changes[i].at
                         \/ changes[k].at = changes[i].at /\ k <= i}
           worst == {n \in DOMAIN truth : truth[n] # "OK"}
<1>1. /\ Len(changes) \in Nat /\ DOMAIN changes = 1..Len(changes)
      /\ DOMAIN truth = 1..Len(truth) /\ Len(truth) \in Nat
      /\ MaxSeconds \in Nat /\ wall \in Nat
  BY LenProperties, ObservedAssumption DEF LogType
<1>2. ASSUME NEW i \in DOMAIN changes PROVE changes[i].at \in Nat
  <2>1. changes[i].at \in MaxSeconds..(wall - 1)
    BY DEF Ascending
  <2> QED BY <2>1, <1>1
<1>3. last_non_ok_state(changes) =
        IF newest = {} THEN None ELSE changes[CHOOSE i \in newest : TRUE].to
  BY DEF last_non_ok_state
<1>4. TrueLastNonOk = IF worst = {} THEN None ELSE truth[Max(worst)]
  BY DEF TrueLastNonOk
<1>5. CASE worst = {}
  <2>1. bad = {}
    <3>1. ASSUME NEW i \in bad PROVE FALSE
      BY <3>1, <1>5, SecondOf
    <3> QED BY <3>1
  <2> QED BY <1>3, <1>4, <1>5, <2>1
<1>6. CASE worst # {}
  <2>1. PICK n \in worst : \A y \in worst : y <= n
    <3>1. worst \subseteq Nat /\ \A y \in worst : y <= Len(truth)
      BY <1>1
    <3> HIDE DEF worst
    <3> QED BY <1>1, <1>6, <3>1, Greatest
  <2>2. Max(worst) = n
    <3>1. worst \subseteq Nat
      BY <1>1
    <3> HIDE DEF worst
    <3>2. n \in worst /\ \A y \in worst : n >= y
      BY <2>1, <3>1
    <3>3. \A z \in worst : (\A y \in worst : z >= y) => z = n
      BY <2>1, <3>1
    <3> QED BY <3>2, <3>3 DEF Max
  <2>3. PICK i \in DOMAIN changes : InForce(i, MaxSeconds + n - 1)
    BY RowOf
  <2>4. changes[i].to = truth[n] /\ i \in bad
    BY <2>3 DEF Follows
  <2>5. ASSUME NEW k \in bad PROVE k <= i
    <3>1. SUFFICES ASSUME ~(k <= i) PROVE FALSE
      OBVIOUS
    <3>2. i < k /\ i + 1 \in DOMAIN changes /\ i # Len(changes) /\ i + 1 <= k
      BY <1>1, <3>1
    <3>3. MaxSeconds + n - 1 < changes[i + 1].at
      BY <2>3, <3>2 DEF InForce
    <3>4. changes[i + 1].at <= changes[k].at
      <4>1. CASE i + 1 = k
        BY <4>1, <1>2
      <4>2. CASE i + 1 # k
        <5>1. i + 1 < k
          BY <3>2, <4>2, <1>1
        <5>2. changes[i + 1].at < changes[k].at
          BY <5>1, <3>2 DEF Ascending
        <5> QED BY <5>2, <3>2, <1>2
      <4> QED BY <4>1, <4>2
    <3>5. changes[k].at - MaxSeconds + 1 \in worst
      BY SecondOf
    <3>6. changes[k].at - MaxSeconds + 1 <= n
      BY <3>5, <2>1
    <3>7. changes[k].at \in Nat /\ changes[i + 1].at \in Nat /\ n \in Nat
      BY <1>1, <1>2, <3>2
    <3> HIDE DEF bad, worst
    <3> QED BY <3>3, <3>4, <3>6, <3>7, <1>1, SMTT(40)
  <2>6. newest = {i}
    <3>1. i \in newest
      <4> SUFFICES ASSUME NEW k \in bad
                   PROVE  \/ changes[k].at < changes[i].at
                          \/ changes[k].at = changes[i].at /\ k <= i
        BY <2>4
      <4>1. k <= i
        BY <2>5
      <4>2. CASE k = i
        BY <4>2, <4>1
      <4>3. CASE k # i
        <5>1. k < i
          BY <4>1, <4>3, <1>1
        <5> QED BY <5>1 DEF Ascending
      <4> QED BY <4>2, <4>3
    <3>2. ASSUME NEW k \in newest PROVE k = i
      <4>1. k \in bad /\ k <= i
        BY <2>5
      <4>2. \/ changes[i].at < changes[k].at
            \/ changes[i].at = changes[k].at /\ i <= k
        BY <2>4
      <4>3. k < i => changes[k].at < changes[i].at
        BY <4>1 DEF Ascending
      <4>4. changes[i].at \in Nat /\ changes[k].at \in Nat
        BY <4>1, <1>2
      <4> HIDE DEF bad, newest
      <4>5. k \in Nat /\ i \in Nat
        BY <4>1, <1>1 DEF bad
      <4> QED BY <4>1, <4>2, <4>3, <4>4, <4>5
    <3> QED BY <3>1, <3>2
  <2> HIDE DEF newest, worst, bad
  <2>7. (CHOOSE k \in {i} : TRUE) = i
    OBVIOUS
  <2> QED BY <1>3, <1>4, <1>6, <2>2, <2>4, <2>6, <2>7
<1> QED BY <1>5, <1>6

\* For every timeline on a clock that was never stepped: an episode that
\* outlives the return to OK is named after the last state really seen.
THEOREM EpisodesAreNamedRight == LogSpec => []LastNonOkMonotone
<1>1. LInv => LastNonOkMonotone
  BY NamesTheLast DEF LInv, LastNonOkMonotone
<1> QED BY <1>1, InitLInv, NextLInv, PTL DEF LogSpec

-----------------------------------------------------------------------------
(* A clock that is only ever stepped back                                  *)

\* The stamp of row i, the wall clock standing for the row after the last.
Stamp(i) == IF i = Len(changes) + 1 THEN wall ELSE changes[i].at

\* b[i] is the real second row i was written in: its state lasted until the
\* next row's, and the stamps of the two are no further apart than that.
Span(b, i) ==
    /\ b[i] <= b[i + 1]
    /\ \A k \in b[i]..(b[i + 1] - 1) : truth[k] = changes[i].to
    /\ Stamp(i + 1) - Stamp(i) <= b[i + 1] - b[i]

Paced(b) ==
    LET L == Len(changes)
        N == Len(truth)
    IN  /\ b \in [1..(L + 1) -> 1..(N + 1)]
        /\ b[L + 1] = N + 1
        /\ \A i \in 1..L : Span(b, i)

\* What the proof about steps back rests on.
PInv == LogType /\ (~ahead => \E b : Paced(b))

\* The first row will be written in the first second.
LEMMA InitPInv == LogInit => PInv
<1> SUFFICES ASSUME LogInit PROVE PInv
  OBVIOUS
<1>1. LogType
  BY InitLInv DEF LInv
<1>2. Len(changes) = 0 /\ Len(truth) = 0
  BY DEF LogInit
<1> DEFINE b == [i \in 1..1 |-> 1]
<1>3. Paced(b)
  BY <1>2 DEF Paced
<1> QED BY <1>1, <1>3 DEF PInv

\* One more second lengthens the newest row's span, or begins a new one.
LEMMA SecondPaced ==
    ASSUME LogType, LogType', NEW s \in Observed, Second(s), NEW b, Paced(b)
    PROVE  \E c : Paced(c)'
<1> DEFINE L == Len(changes)
           N == Len(truth)
           stored == IF changes = <<>> THEN "UNKNOWN" ELSE changes[L].to
           new == [at |-> wall, to |-> s]
<1>1. /\ L \in Nat /\ N \in Nat /\ wall \in Nat /\ changes \in Seq(Change)
      /\ truth \in Seq(Observed) /\ wall' = wall + 1
      /\ changes' = IF s = stored THEN changes ELSE Append(changes, new)
      /\ truth' = Append(truth, s)
  BY LenProperties DEF LogType, Second, record_change
<1>2. new \in Change /\ new.at = wall /\ new.to = s /\ s # "UNKNOWN"
  BY <1>1, ObservedAssumption DEF Change, Time
<1> HIDE DEF new
<1>3. /\ Len(truth') = N + 1 /\ truth'[N + 1] = s
      /\ \A k \in 1..N : truth'[k] = truth[k]
  BY <1>1, AppendProperties
<1>4. /\ b \in [1..(L + 1) -> 1..(N + 1)] /\ b[L + 1] = N + 1
      /\ \A i \in 1..L : b[i] \in 1..(N + 1) /\ b[i + 1] \in 1..(N + 1)
      /\ \A i \in 1..L : Span(b, i)
  <2>1. /\ b \in [1..(L + 1) -> 1..(N + 1)] /\ b[L + 1] = N + 1
        /\ \A i \in 1..L : Span(b, i)
    BY DEF Paced
  <2>2. \A i \in 1..L : i \in 1..(L + 1) /\ i + 1 \in 1..(L + 1)
    BY <1>1
  <2> QED BY <2>1, <2>2
<1>5. ASSUME NEW i \in 1..L, NEW k \in b[i]..(b[i + 1] - 1)
      PROVE  k \in 1..N /\ truth'[k] = truth[k]
  <2>1. b[i] \in 1..(N + 1) /\ b[i + 1] \in 1..(N + 1)
    BY <1>4
  <2>2. k \in 1..N
    BY <2>1, <1>1
  <2> QED BY <2>2, <1>3
<1>6. ASSUME NEW i \in 1..L PROVE changes[i].at \in Nat /\ Stamp(i) = changes[i].at
  <2>1. changes[i] \in Change
    BY <1>1, ElementOfSeq
  <2>2. i # L + 1
    BY <1>1
  <2> QED BY <2>1, <2>2 DEF Change, Time, Stamp
<1>7. CASE s = stored
  <2> PICK c : c = [i \in 1..(L + 1) |-> IF i = L + 1 THEN N + 2 ELSE b[i]]
    OBVIOUS
  <2>1. changes' = changes /\ Len(changes') = L /\ L \in 1..L /\ changes[L].to = s
    BY <1>1, <1>2, <1>7, EmptySeq
  <2>2. c \in [1..(L + 1) -> 1..(N + 2)] /\ c[L + 1] = N + 2
    BY <1>1, <1>4
  <2>3. ASSUME NEW i \in 1..L
        PROVE  Span(c, i)'
    <3>1. CASE i # L
      <4>1. i + 1 \in 1..L /\ c[i] = b[i] /\ c[i + 1] = b[i + 1]
        BY <1>1, <3>1, NextIndex
      <4>2. Stamp(i)' = Stamp(i) /\ Stamp(i + 1)' = Stamp(i + 1)
        BY <4>1, <2>1, <1>1 DEF Stamp
      <4>3. Span(b, i)
        BY <1>4
      <4> QED BY <4>1, <4>2, <4>3, <1>5, <2>1 DEF Span
    <3>2. CASE i = L
      <4>1. c[i] = b[i] /\ b[i] \in 1..(N + 1) /\ c[i + 1] = N + 2 /\ b[i + 1] = N + 1
        BY <1>1, <1>4, <2>1, <3>2
      <4>2. Stamp(i)' = Stamp(i) /\ Stamp(i + 1)' = wall + 1 /\ Stamp(i + 1) = wall
        BY <2>1, <1>1, <3>2 DEF Stamp
      <4>3. Stamp(i) \in Nat
        BY <1>6
      <4>4. Span(b, i)
        BY <1>4
      <4>5. Stamp(i + 1) - Stamp(i) <= b[i + 1] - b[i]
        BY <4>4 DEF Span
      <4>6. ASSUME NEW k \in b[i]..(N + 1) PROVE truth'[k] = changes'[i].to
        <5>1. CASE k = N + 1
          BY <5>1, <1>3, <2>1, <3>2
        <5>2. CASE k # N + 1
          <6>1. k \in b[i]..(b[i + 1] - 1)
            BY <5>2, <4>1, <1>1
          <6>2. truth[k] = changes[i].to
            BY <6>1, <4>4 DEF Span
          <6> QED BY <6>1, <6>2, <1>5, <2>1
        <5> QED BY <5>1, <5>2
      <4>7. c[i + 1] - 1 = N + 1 /\ c[i] <= c[i + 1]
        BY <4>1, <1>1
      <4>8. Stamp(i + 1)' - Stamp(i)' <= c[i + 1] - c[i]
        BY <4>1, <4>2, <4>3, <4>5, <1>1
      <4> QED BY <4>1, <4>6, <4>7, <4>8 DEF Span
    <3> QED BY <3>1, <3>2
  <2>4. Paced(c)'
    <3>1. N + 1 + 1 = N + 2
      BY <1>1
    <3> QED BY <2>1, <2>2, <2>3, <1>3, <3>1 DEF Paced
  <2> QED BY <2>4
<1>8. CASE s # stored
  <2> PICK c : c = [i \in 1..(L + 2) |-> IF i = L + 2 THEN N + 2 ELSE b[i]]
    OBVIOUS
  <2>1. /\ Len(changes') = L + 1 /\ changes'[L + 1] = new
        /\ \A i \in 1..L : changes'[i] = changes[i]
    BY <1>1, <1>2, <1>8, AppendProperties
  <2>2. c \in [1..(L + 2) -> 1..(N + 2)] /\ c[L + 2] = N + 2
    BY <1>1, <1>4
  <2>3. ASSUME NEW i \in 1..(L + 1)
        PROVE  Span(c, i)'
    <3>1. CASE i # L + 1
      <4>1. i \in 1..L /\ i + 1 \in 1..(L + 1)
        BY <1>1, <3>1
      <4>2. c[i] = b[i] /\ c[i + 1] = b[i + 1]
        BY <4>1, <1>1
      <4>3. Stamp(i)' = Stamp(i) /\ Stamp(i + 1)' = Stamp(i + 1)
        <5>1. Stamp(i)' = changes'[i].at /\ Stamp(i + 1)' = changes'[i + 1].at
          BY <4>1, <2>1, <1>1 DEF Stamp
        <5>2. Stamp(i) = changes[i].at
          BY <4>1, <1>6
        <5>3. CASE i = L
          BY <5>1, <5>2, <5>3, <2>1, <4>1, <1>2 DEF Stamp
        <5>4. CASE i # L
          <6>1. i + 1 \in 1..L
            BY <5>4, <4>1, <1>1, NextIndex
          <6> QED BY <5>1, <5>2, <6>1, <2>1, <4>1, <1>6
        <5> QED BY <5>3, <5>4
      <4>4. Span(b, i)
        BY <4>1, <1>4
      <4> QED BY <4>1, <4>2, <4>3, <4>4, <1>5, <2>1 DEF Span
    <3>2. CASE i = L + 1
      <4>1. c[i] = N + 1 /\ c[i + 1] = N + 2
        BY <1>1, <1>4, <3>2
      <4>2. Stamp(i)' = wall /\ Stamp(i + 1)' = wall + 1
        BY <3>2, <2>1, <1>1, <1>2 DEF Stamp
      <4>3. \A k \in (N + 1)..(N + 2 - 1) : k = N + 1
        BY <1>1
      <4>4. changes'[i].to = s
        BY <3>2, <2>1, <1>2
      <4> QED BY <4>1, <4>2, <4>3, <4>4, <1>1, <1>3 DEF Span
    <3> QED BY <3>1, <3>2
  <2>4. Paced(c)'
    <3>1. N + 1 + 1 = N + 2 /\ L + 1 + 1 = L + 2
      BY <1>1
    <3> QED BY <2>1, <2>2, <2>3, <1>3, <3>1 DEF Paced
  <2> QED BY <2>4
<1> QED BY <1>7, <1>8

\* A step back moves the wall clock closer to the newest stamp, never away.
LEMMA NextPInv == PInv /\ [LogNext]_logvars /\ LogType' => PInv'
<1> SUFFICES ASSUME PInv, [LogNext]_logvars, LogType', ~ahead' PROVE \E c : Paced(c)'
  BY DEF PInv
<1>1. CASE \E s \in Observed : Second(s)
  <2>1. PICK s \in Observed : Second(s)
    BY <1>1
  <2>2. PICK b : Paced(b)
    BY <2>1 DEF PInv, Second
  <2> QED BY <2>1, <2>2, SecondPaced DEF PInv
<1>2. CASE StepBack
  <2>1. PICK b : Paced(b)
    BY <1>2 DEF PInv, StepBack
  <2>2. /\ wall' < wall /\ wall' \in Nat /\ wall \in Nat /\ changes' = changes
        /\ truth' = truth /\ Len(changes) \in Nat /\ Len(truth) \in Nat
    BY <1>2, LenProperties DEF StepBack, PInv, LogType
  <2>3. ASSUME NEW i \in 1..Len(changes)
        PROVE  Stamp(i + 1)' - Stamp(i)' <= b[i + 1] - b[i]
    <3>1. changes[i].at \in Nat
      <4>1. changes[i] \in Change
        BY ElementOfSeq DEF PInv, LogType
      <4> QED BY <4>1 DEF Change, Time
    <3>2. Stamp(i)' = Stamp(i) /\ Stamp(i) = changes[i].at
      BY <2>2 DEF Stamp
    <3>3. Stamp(i + 1) - Stamp(i) <= b[i + 1] - b[i]
      BY <2>1 DEF Paced, Span
    <3>4. b[i] \in Nat /\ b[i + 1] \in Nat
      <4>1. b \in [1..(Len(changes) + 1) -> 1..(Len(truth) + 1)]
        BY <2>1 DEF Paced
      <4>2. i \in 1..(Len(changes) + 1) /\ i + 1 \in 1..(Len(changes) + 1)
        BY <2>2
      <4>3. b[i] \in 1..(Len(truth) + 1) /\ b[i + 1] \in 1..(Len(truth) + 1)
        BY <4>1, <4>2
      <4> QED BY <4>3, <2>2
    <3>5. CASE i = Len(changes)
      <4>1. Stamp(i + 1)' = wall' /\ Stamp(i + 1) = wall
        BY <3>5, <2>2 DEF Stamp
      <4> QED BY <4>1, <3>1, <3>2, <3>3, <3>4, <2>2
    <3>6. CASE i # Len(changes)
      <4>1. Stamp(i + 1)' = Stamp(i + 1)
        <5>1. i + 1 # Len(changes) + 1
          BY <3>6, <2>2
        <5> QED BY <5>1, <2>2 DEF Stamp
      <4> QED BY <4>1, <3>2, <3>3
    <3> QED BY <3>5, <3>6
  <2>4. Paced(b)'
    BY <2>1, <2>2, <2>3 DEF Paced, Span
  <2> QED BY <2>4
<1>3. CASE StepAhead
  BY <1>3 DEF StepAhead
<1>4. CASE Watched \/ UNCHANGED logvars
  <2>1. PICK b : Paced(b)
    BY <1>4 DEF PInv, Watched, logvars
  <2>2. Paced(b)'
    BY <1>4, <2>1 DEF Watched, logvars, Paced, Span, Stamp
  <2> QED BY <2>2
<1> QED BY <1>1, <1>2, <1>3, <1>4 DEF LogNext

\* The seconds from the x-th on that were really spent in state s.
Real(x, s) == {k \in DOMAIN truth : k >= x /\ truth[k] = s}

\* Seconds are finitely many, counted by index too.
LEMMA RealFinite ==
    ASSUME truth \in Seq(Observed), NEW x, NEW s
    PROVE  IsFiniteSet(Real(x, s)) /\ Cardinality(Real(x, s)) \in Nat
<1>1. DOMAIN truth = 1..Len(truth) /\ Len(truth) \in Nat
  BY LenProperties
<1>2. IsFiniteSet(1..Len(truth))
  BY <1>1, FS_Interval
<1>3. Real(x, s) \subseteq 1..Len(truth)
  BY <1>1 DEF Real
<1> QED BY <1>2, <1>3, FS_Subset, FS_CardinalityType

\* What row i adds to them.
LEMMA RowCounts ==
    ASSUME LogType, NEW b, Paced(b), NEW i \in 1..Len(changes), NEW s
    PROVE  Cardinality(Real(b[i], s)) = Cardinality(Real(b[i + 1], s))
              + (IF changes[i].to = s THEN b[i + 1] - b[i] ELSE 0)
<1> DEFINE lo == b[i]
           hi == b[i + 1]
           N == Len(truth)
<1>1. /\ N \in Nat /\ DOMAIN truth = 1..N /\ truth \in Seq(Observed) /\ Len(changes) \in Nat
  BY LenProperties DEF LogType
<1>2. lo \in 1..(N + 1) /\ hi \in 1..(N + 1) /\ Span(b, i)
  <2>1. b \in [1..(Len(changes) + 1) -> 1..(N + 1)] /\ Span(b, i)
    BY DEF Paced
  <2>2. i \in 1..(Len(changes) + 1) /\ i + 1 \in 1..(Len(changes) + 1)
    BY <1>1
  <2> QED BY <2>1, <2>2
<1>3. lo <= hi /\ \A k \in lo..(hi - 1) : truth[k] = changes[i].to
  BY <1>2 DEF Span
<1> HIDE DEF lo, hi
<1>4. IsFiniteSet(lo..(hi - 1)) /\ Cardinality(lo..(hi - 1)) = hi - lo
  <2>1. lo \in Int /\ hi - 1 \in Int
    BY <1>1, <1>2
  <2>2. /\ IsFiniteSet(lo..(hi - 1))
        /\ Cardinality(lo..(hi - 1)) = IF lo > hi - 1 THEN 0 ELSE hi - 1 - lo + 1
    BY <2>1, FS_Interval
  <2> QED BY <2>2, <1>1, <1>2, <1>3
<1>5. IsFiniteSet(Real(hi, s)) /\ Cardinality(Real(hi, s)) \in Nat
  BY <1>1, RealFinite
<1>6. CASE changes[i].to = s
  <2>1. Real(lo, s) = Real(hi, s) \cup (lo..(hi - 1))
    <3>1. ASSUME NEW k \in Real(lo, s) PROVE k \in Real(hi, s) \cup (lo..(hi - 1))
      BY <1>1, <1>2 DEF Real
    <3>2. ASSUME NEW k \in Real(hi, s) PROVE k \in Real(lo, s)
      BY <1>1, <1>2, <1>3 DEF Real
    <3>3. ASSUME NEW k \in lo..(hi - 1) PROVE k \in Real(lo, s)
      BY <1>1, <1>2, <1>3, <1>6 DEF Real
    <3> QED BY <3>1, <3>2, <3>3
  <2>2. Real(hi, s) \cap (lo..(hi - 1)) = {}
    BY <1>1, <1>2 DEF Real
  <2>3. Cardinality(Real(lo, s))
          = Cardinality(Real(hi, s)) + Cardinality(lo..(hi - 1)) - Cardinality({})
    BY <1>4, <1>5, <2>1, <2>2, FS_Union, ZenonT(40)
  <2>4. Cardinality({}) = 0
    BY FS_EmptySet
  <2>5. hi - lo \in Int
    BY <1>1, <1>2
  <2> QED BY <1>4, <1>5, <1>6, <2>3, <2>4, <2>5 DEF lo, hi
<1>7. CASE changes[i].to # s
  <2>1. Real(lo, s) = Real(hi, s)
    <3>1. ASSUME NEW k \in Real(lo, s) PROVE k \in Real(hi, s)
      BY <1>1, <1>2, <1>3, <1>7 DEF Real
    <3>2. ASSUME NEW k \in Real(hi, s) PROVE k \in Real(lo, s)
      BY <1>1, <1>2, <1>3 DEF Real
    <3> QED BY <3>1, <3>2
  <2> QED BY <2>1, <1>5, <1>7 DEF lo, hi
<1> QED BY <1>6, <1>7

\* A sum after n rows is at most what was really spent since the last of
\* them was written; unless it is done, its open end is no later than the
\* stamp of that row, used or skipped.
Bounded(w, n, b, s) ==
    /\ w.total <= Cardinality(Real(b[Len(changes) - n + 1], s))
    /\ ~w.stop => w.upper <= Stamp(Len(changes) - n + 1)

\* Reading the next row adds at most what was really spent in its span.
LEMMA ReadBounded ==
    ASSUME LogType, NEW b, Paced(b), NEW s, NEW start \in Int, NEW n \in 1..Len(changes),
           NEW w, Within(w, start, wall), Bounded(w, n - 1, b, s)
    PROVE  Bounded(Read(changes, start, {s}, w, n), n, b, s)
<1> DEFINE L == Len(changes)
           i == L - n + 1
           r == changes[i]
           lower == Max({r.at, start})
           older == Cardinality(Real(b[i], s))
           newer == Cardinality(Real(b[i + 1], s))
<1>1. /\ L \in Nat /\ i \in 1..L /\ L - (n - 1) + 1 = i + 1 /\ wall \in Nat
      /\ truth \in Seq(Observed) /\ changes \in Seq(Change)
  BY LenProperties DEF LogType
<1>2. r.at \in Nat /\ Stamp(i) = r.at
  <2>1. r \in Change
    BY <1>1, ElementOfSeq
  <2>2. i # L + 1
    BY <1>1
  <2> QED BY <2>1, <2>2 DEF Change, Time, Stamp
<1>3. w.upper \in Int /\ w.total \in Int /\ older \in Nat /\ newer \in Nat /\ w.total <= newer
  <2>1. w.total <= newer
    BY <1>1 DEF Bounded
  <2> QED BY <2>1, <1>1, RealFinite DEF Within, Sum
<1>4. /\ older = newer + (IF r.to = s THEN b[i + 1] - b[i] ELSE 0)
      /\ b[i] \in Nat /\ b[i + 1] \in Nat /\ b[i] <= b[i + 1]
      /\ Stamp(i + 1) - Stamp(i) <= b[i + 1] - b[i]
  <2>1. older = newer + (IF r.to = s THEN b[i + 1] - b[i] ELSE 0)
    <3> HIDE DEF i
    <3> QED BY <1>1, RowCounts
  <2>2. b \in [1..(L + 1) -> 1..(Len(truth) + 1)] /\ Span(b, i)
    BY <1>1 DEF Paced
  <2>3. i \in 1..(L + 1) /\ i + 1 \in 1..(L + 1) /\ Len(truth) \in Nat
    BY <1>1, LenProperties
  <2>4. b[i] \in 1..(Len(truth) + 1) /\ b[i + 1] \in 1..(Len(truth) + 1)
    BY <2>2, <2>3
  <2>5. b[i] \in Nat /\ b[i + 1] \in Nat
    <3> HIDE DEF i
    <3> QED BY <2>3, <2>4
  <2> QED BY <2>1, <2>2, <2>5 DEF Span
<1>5. Stamp(i + 1) \in Nat
  <2>1. CASE i = L
    BY <2>1, <1>1 DEF Stamp
  <2>2. CASE i # L
    <3>1. i + 1 \in 1..L /\ i + 1 # L + 1
      BY <2>2, <1>1
    <3>2. changes[i + 1] \in Change
      BY <3>1, <1>1, ElementOfSeq
    <3> QED BY <3>1, <3>2 DEF Stamp, Change, Time
  <2> QED BY <2>1, <2>2
<1>6. ~w.stop => w.upper <= Stamp(i + 1)
  BY <1>1 DEF Bounded
<1>7. newer <= older
  <2> HIDE DEF newer, older, r, i
  <2> QED BY <1>3, <1>4
<1>8. CASE w.stop \/ r.at >= w.upper
  <2>1. Read(changes, start, {s}, w, n) = w
    BY <1>8 DEF Read
  <2>2. w.total <= older
    <3> HIDE DEF newer, older
    <3> QED BY <1>3, <1>7
  <2>3. ~w.stop => w.upper <= Stamp(i)
    BY <1>2, <1>3, <1>8
  <2> QED BY <2>1, <2>2, <2>3 DEF Bounded
<1>9. CASE ~(w.stop \/ r.at >= w.upper)
  <2> DEFINE u == [upper |-> lower,
                   total |-> w.total + (IF r.to \in {s} THEN w.upper - lower ELSE 0),
                   stop |-> r.at <= start]
  <2>1. Read(changes, start, {s}, w, n) = u
    BY <1>9 DEF Read
  <2>2. lower = IF r.at >= start THEN r.at ELSE start
    BY <1>2, MaxOfTwo
  <2>3. lower \in Int /\ r.at <= lower /\ (~(r.at <= start) => lower = r.at)
    BY <1>2, <2>2
  <2>4. w.upper - lower <= b[i + 1] - b[i]
    <3> HIDE DEF i, r, lower
    <3> QED BY <1>2, <1>3, <1>4, <1>5, <1>6, <1>9, <2>3, SMTT(40)
  <2>5. w.total + (IF r.to \in {s} THEN w.upper - lower ELSE 0) <= older
    <3> HIDE DEF i, r, lower, older, newer
    <3> QED BY <1>3, <1>4, <2>3, <2>4, SMTT(40)
  <2>6. ~(r.at <= start) => lower <= Stamp(i)
    BY <1>2, <2>3
  <2>7. /\ u.upper = lower /\ u.stop = (r.at <= start)
        /\ u.total = w.total + (IF r.to \in {s} THEN w.upper - lower ELSE 0)
    OBVIOUS
  <2>8. u.total <= older
    BY <2>5, <2>7, Zenon
  <2>9. ~u.stop => u.upper <= Stamp(i)
    BY <2>6, <2>7, Zenon
  <2> HIDE DEF u
  <2> QED BY <2>1, <2>8, <2>9 DEF Bounded
<1> QED BY <1>8, <1>9

\* So the whole sum is at most the time really spent in the state.
LEMMA WalkBounded ==
    ASSUME LogType, NEW b, Paced(b), NEW s, NEW start \in Int, start < wall,
           NEW m \in 0..Len(changes), NEW f, IsWalk(f, m, changes, start, wall, {s})
    PROVE  Bounded(f[m], m, b, s)
<1> DEFINE L == Len(changes)
           T == {n \in 0..m : ~Bounded(f[n], n, b, s)}
<1>1. /\ L \in Nat /\ m \in Nat /\ m <= L /\ changes \in Seq(Change) /\ wall \in Nat
      /\ truth \in Seq(Observed) /\ DOMAIN truth = 1..Len(truth) /\ Len(truth) \in Nat
  BY LenProperties DEF LogType
<1>2. SUFFICES ASSUME T # {} PROVE FALSE
  BY <1>1
<1>3. PICK n \in T : \A y \in T : n <= y
  <2>1. T \subseteq Nat
    BY <1>1
  <2> HIDE DEF T
  <2> QED BY <1>2, <2>1, Least
<1>4. /\ f[0] = Start(wall)
      /\ \A k \in 1..m : f[k] = Read(changes, start, {s}, f[k - 1], k)
  BY <1>1, WalkUnfolds
<1>5. Bounded(f[0], 0, b, s)
  <2>1. f[0].upper = wall /\ f[0].total = 0 /\ ~f[0].stop
    BY <1>4 DEF Start
  <2>2. L - 0 + 1 = L + 1
    BY <1>1
  <2>3. Cardinality(Real(b[L + 1], s)) \in Nat
    BY <1>1, RealFinite
  <2>4. 0 <= Cardinality(Real(b[L + 1], s)) /\ wall <= Stamp(L + 1)
    BY <1>1, <2>3 DEF Stamp
  <2> QED BY <2>1, <2>2, <2>4 DEF Bounded
<1>6. n \in 1..m /\ n - 1 \in 0..m /\ n - 1 \notin T /\ n \in 1..L
  BY <1>1, <1>3, <1>5
<1>7. Within(f[n - 1], start, wall)
  <2>1. \A k \in 0..m : Within(f[k], start, wall)
    BY <1>1, WalkWithin
  <2> QED BY <1>6, <2>1
<1>8. Bounded(Read(changes, start, {s}, f[n - 1], n), n, b, s)
  BY <1>6, <1>7, ReadBounded
<1> QED BY <1>3, <1>4, <1>6, <1>8

\* Whatever its length, a window shows no more than was really spent.
LEMMA MeasuresNoMore ==
    ASSUME LogType, NEW b, Paced(b), NEW w \in Nat, NEW s
    PROVE  Measured(w, s) <= TrueSeconds(Len(truth), s)
<1> DEFINE start == wall - w
           rows == Min({Len(changes), BAD_SCAN_LIMIT})
           all == {n \in DOMAIN truth : n > Len(truth) - Len(truth) /\ truth[n] = s}
<1>1. /\ changes \in Seq(Change) /\ wall \in Nat /\ start \in Int /\ Len(changes) \in Nat
      /\ truth \in Seq(Observed) /\ DOMAIN truth = 1..Len(truth) /\ Len(truth) \in Nat
  BY LenProperties DEF LogType
<1>2. TrueSeconds(Len(truth), s) = Cardinality(all)
  BY DEF TrueSeconds
<1>3. IsFiniteSet(all) /\ Cardinality(all) \in Nat
  <2>1. IsFiniteSet(1..Len(truth)) /\ all \subseteq 1..Len(truth)
    BY <1>1, FS_Interval
  <2> QED BY <2>1, FS_Subset, FS_CardinalityType
<1>4. CASE w = 0
  <2>1. Measured(w, s) = 0
    BY <1>1, <1>4 DEF Measured, not_ok_seconds
  <2> QED BY <1>2, <1>3, <2>1
<1>5. CASE w # 0
  <2>1. start < wall
    BY <1>1, <1>5
  <2>2. rows \in 0..Len(changes) /\ rows \in Nat
    BY <1>1, RowsRead
  <2> HIDE DEF start
  <2>3. PICK f : /\ IsWalk(f, rows, changes, start, wall, {s})
                 /\ not_ok_seconds(changes, start, wall, {s}) = f[rows].total
    BY <1>1, <2>1, <2>2, NotOkIsWalk
  <2> HIDE DEF rows
  <2>4. Bounded(f[rows], rows, b, s)
    BY <1>1, <2>1, <2>2, <2>3, WalkBounded
  <2> DEFINE x == b[Len(changes) - rows + 1]
  <2>5. Real(x, s) \subseteq all
    BY <1>1 DEF Real
  <2>6. Cardinality(Real(x, s)) <= Cardinality(all) /\ Cardinality(Real(x, s)) \in Nat
    <3> HIDE DEF all, x
    <3> QED BY <1>1, <1>3, <2>5, FS_Subset, RealFinite
  <2>7. f[rows].total <= Cardinality(Real(x, s))
    BY <2>4 DEF Bounded
  <2>8. f[rows].total \in Int
    <3>1. \A k \in 0..rows : Within(f[k], start, wall)
      BY <1>1, <2>1, <2>2, <2>3, WalkWithin
    <3>2. Within(f[rows], start, wall)
      BY <3>1, <2>2
    <3> QED BY <3>2 DEF Within, Sum
  <2>9. Measured(w, s) = f[rows].total
    BY <2>3 DEF Measured, start
  <2> HIDE DEF all, x
  <2> QED BY <1>2, <1>3, <2>6, <2>7, <2>8, <2>9
<1> QED BY <1>4, <1>5

\* For every timeline and every number of steps back of the clock, whatever
\* rows end up out of order: no window shows more time in a state than the
\* job ever spent in it.
THEOREM NothingInvented == LogSpec => []NotInvented
<1>1. PInv => NotInvented
  <2> SUFFICES ASSUME PInv, ~ahead, NEW w \in 0..(MaxSeconds + 1), NEW s \in Observed
               PROVE  Measured(w, s) <= TrueSeconds(Len(truth), s)
    BY DEF NotInvented
  <2>1. w \in Nat
    BY ObservedAssumption
  <2>2. PICK b : Paced(b)
    BY DEF PInv
  <2> QED BY <2>1, <2>2, MeasuresNoMore DEF PInv
<1>2. LInv => LogType
  BY DEF LInv
<1> QED BY <1>1, <1>2, InitLInv, NextLInv, InitPInv, NextPInv, PTL DEF LogSpec
=============================================================================
