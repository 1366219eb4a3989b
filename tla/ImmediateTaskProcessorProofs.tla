-------------------- MODULE ImmediateTaskProcessorProofs --------------------
(***************************************************************************)
(* Proofs about ImmediateTaskProcessor, for every set of executions and    *)
(* workers, every choice of retry policies and every bound.                *)
(***************************************************************************)
EXTENDS ImmediateTaskProcessor, SequenceTheorems, FiniteMinMax

-----------------------------------------------------------------------------
(***************************************************************************)
(* The recursive functions of the model exist: they are built up to the    *)
(* first index where they would not.                                       *)
(***************************************************************************)

(* What is kept of a sequence when some elements are taken out. *)
KeptStep(s, gone, f, i) ==
    IF i = 0 THEN <<>>
    ELSE IF s[i] \in gone THEN f[i - 1]
    ELSE Append(f[i - 1], s[i])

IsKept(s, gone, f, n) == f = [i \in 0..n |-> KeptStep(s, gone, f, i)]

LEMMA KeptExists ==
    ASSUME NEW S, NEW s \in Seq(S), NEW gone
    PROVE  \E f : IsKept(s, gone, f, Len(s))
<1> DEFINE Bad == {n \in Nat : ~ \E f : IsKept(s, gone, f, n)}
<1>1. Bad = {}
  <2> SUFFICES ASSUME Bad # {} PROVE FALSE
    OBVIOUS
  <2>1. PICK n \in Bad : \A m \in Bad : n <= m
    BY NatHasLeast
  <2>2. n \in Nat /\ ~ \E f : IsKept(s, gone, f, n)
    OBVIOUS
  <2>3. n # 0
    <3>1. IsKept(s, gone, [i \in 0..0 |-> <<>>], 0)
      BY DEF IsKept, KeptStep
    <3> QED
      BY <3>1, <2>2
  <2>4. n - 1 \in Nat /\ n - 1 \notin Bad
    BY <2>1, <2>2, <2>3
  <2>5. PICK f : IsKept(s, gone, f, n - 1)
    BY <2>4
  <2> DEFINE g == [i \in 0..n |-> IF i = n THEN KeptStep(s, gone, f, n) ELSE f[i]]
  <2>6. ASSUME NEW i \in 0..n PROVE g[i] = KeptStep(s, gone, g, i)
    <3>1. CASE i = n
      <4>1. g[n - 1] = f[n - 1]
        BY <2>2, <2>3
      <4> QED
        BY <3>1, <4>1, <2>3 DEF KeptStep
    <3>2. CASE i # n
      <4>1. i \in 0..(n - 1) /\ g[i] = f[i]
        BY <3>2, <2>2
      <4>2. f[i] = KeptStep(s, gone, f, i)
        BY <4>1, <2>5 DEF IsKept
      <4>3. i # 0 => i - 1 \in 0..n /\ i - 1 # n /\ g[i - 1] = f[i - 1]
        BY <2>2
      <4> QED
        BY <4>1, <4>2, <4>3 DEF KeptStep
    <3> QED
      BY <3>1, <3>2
  <2>7. IsKept(s, gone, g, n)
    BY <2>6 DEF IsKept
  <2> QED
    BY <2>7, <2>2
<1> QED
  BY <1>1, LenProperties

(* One more element. *)
LEMMA AppendFacts ==
    ASSUME NEW S, NEW q \in Seq(S), NEW x \in S
    PROVE  /\ Append(q, x) \in Seq(S)
           /\ Range(Append(q, x)) = Range(q) \cup {x}
           /\ IsInjective(q) /\ x \notin Range(q) => IsInjective(Append(q, x))
<1>1. /\ Append(q, x) \in Seq(S) /\ Len(Append(q, x)) = Len(q) + 1 /\ Len(q) \in Nat
      /\ \A i \in 1..Len(q) : Append(q, x)[i] = q[i]
      /\ Append(q, x)[Len(q) + 1] = x
  BY AppendProperties, LenProperties
<1>2. DOMAIN q = 1..Len(q) /\ DOMAIN Append(q, x) = 1..(Len(q) + 1)
  BY <1>1, LenProperties
<1>3. Range(Append(q, x)) = Range(q) \cup {x}
  BY <1>1, <1>2 DEF Range
<1>4. IsInjective(q) /\ x \notin Range(q) => IsInjective(Append(q, x))
  BY <1>1, <1>2 DEF Range, IsInjective
<1> QED
  BY <1>1, <1>3, <1>4

LEMMA KeptFacts ==
    ASSUME NEW S, NEW s \in Seq(S), NEW gone, NEW f, IsKept(s, gone, f, Len(s)), IsInjective(s)
    PROVE  /\ f[Len(s)] \in Seq(S)
           /\ IsInjective(f[Len(s)])
           /\ Range(f[Len(s)]) = Range(s) \ gone
<1> DEFINE Upto(i) == {s[j] : j \in 1..i}
           Good(i) == f[i] \in Seq(S) /\ IsInjective(f[i]) /\ Range(f[i]) = Upto(i) \ gone
           Bad == {i \in 0..Len(s) : ~Good(i)}
<1>1. Len(s) \in Nat /\ DOMAIN s = 1..Len(s)
  BY LenProperties
<1>2. ASSUME NEW i \in 0..Len(s) PROVE f[i] = KeptStep(s, gone, f, i)
  BY DEF IsKept
<1>3. Good(0)
  <2>1. f[0] = <<>>
    BY <1>1, <1>2 DEF KeptStep
  <2>2. Range(<<>>) = {} /\ IsInjective(<<>>) /\ Upto(0) = {}
    BY DEF Range, IsInjective
  <2> QED
    BY <2>1, <2>2
<1>4. ASSUME NEW i \in 1..Len(s), Good(i - 1) PROVE Good(i)
  <2>1. i \in 0..Len(s) /\ i # 0 /\ s[i] \in S
    BY <1>1
  <2>2. Upto(i) = Upto(i - 1) \cup {s[i]}
    BY <1>1
  <2>3. s[i] \notin Upto(i - 1)
    BY <1>1 DEF IsInjective
  <2>4. CASE s[i] \in gone
    <3>1. f[i] = f[i - 1]
      BY <2>1, <2>4, <1>2 DEF KeptStep
    <3> QED
      BY <3>1, <2>2, <2>4, <1>4
  <2>5. CASE s[i] \notin gone
    <3>1. f[i] = Append(f[i - 1], s[i])
      BY <2>1, <2>5, <1>2 DEF KeptStep
    <3>2. PICK q \in Seq(S) : q = f[i - 1]
      BY <1>4
    <3>3. s[i] \notin Range(q)
      BY <3>2, <2>3, <1>4
    <3>4. Append(q, s[i]) \in Seq(S) /\ Range(Append(q, s[i])) = Range(q) \cup {s[i]} /\ IsInjective(Append(q, s[i]))
      BY <3>2, <3>3, <2>1, <1>4, AppendFacts
    <3> QED
      BY <3>1, <3>2, <3>4, <2>2, <2>5, <1>4
  <2> QED
    BY <2>4, <2>5
<1> HIDE DEF Good
<1>5. Bad = {}
  <2> SUFFICES ASSUME Bad # {} PROVE FALSE
    OBVIOUS
  <2>1. Bad \in SUBSET Nat
    OBVIOUS
  <2>2. PICK n \in Bad : \A m \in Bad : n <= m
    BY <2>1, NatHasLeast
  <2>3. n # 0
    BY <1>3
  <2>4. n \in 1..Len(s) /\ n - 1 \in 0..Len(s) /\ n - 1 \notin Bad
    BY <2>2, <2>3, <1>1
  <2> QED
    BY <2>4, <1>4
<1>6. Good(Len(s))
  BY <1>1, <1>5
<1>7. Upto(Len(s)) = Range(s)
  BY <1>1 DEF Range
<1> QED
  BY <1>6, <1>7 DEF Good

(* Deleting rows leaves the others. *)
LEMMA WithoutFacts ==
    ASSUME NEW S, rows \in Seq(S), IsInjective(rows), NEW gone
    PROVE  /\ Without(gone) \in Seq(S)
           /\ IsInjective(Without(gone))
           /\ Range(Without(gone)) = Range(rows) \ gone
<1> DEFINE K(f) == f = [i \in 0..Len(rows) |->
                          IF i = 0 THEN <<>>
                          ELSE IF rows[i] \in gone THEN f[i - 1]
                          ELSE Append(f[i - 1], rows[i])]
           kept == CHOOSE f : K(f)
<1>1. PICK s \in Seq(S) : s = rows
  OBVIOUS
<1>2. \A f : K(f) <=> IsKept(s, gone, f, Len(s))
  BY <1>1 DEF IsKept, KeptStep
<1>3. K(kept)
  <2>1. \E f : K(f)
    BY <1>2, KeptExists
  <2> HIDE DEF K
  <2> QED
    BY <2>1
<1>4. Without(gone) = kept[Len(rows)]
  BY DEF Without
<1> HIDE DEF K, kept
<1>5. PICK f : f = kept
  OBVIOUS
<1>6. IsKept(s, gone, f, Len(s)) /\ IsInjective(s)
  BY <1>1, <1>2, <1>3, <1>5
<1> QED
  BY <1>1, <1>4, <1>5, <1>6, KeptFacts

-----------------------------------------------------------------------------
(***************************************************************************)
(* The powers of the backoff: products, and their quotients.               *)
(***************************************************************************)
LEMMA ProductOrder ==
    ASSUME NEW x \in Int, NEW y \in Int, NEW z \in Nat, x <= y
    PROVE  x * z \in Int /\ y * z \in Int /\ x * z <= y * z
OBVIOUS

LEMMA QuotientFacts ==
    ASSUME NEW n \in Int, NEW d \in Nat \ {0}, NEW i \in Int
    PROVE  /\ n \div d \in Int
           /\ i * d <= n => i <= n \div d
           /\ n <= i * d => n \div d <= i
<1>1. n \div d \in Int /\ (n \div d) * d <= n /\ n < (n \div d) * d + d
  OBVIOUS
<1>2. PICK q \in Int : q = n \div d
  BY <1>1
<1>3. ASSUME i * d <= n, q < i PROVE FALSE
  <2>1. q + 1 <= i
    BY <1>3
  <2>2. (q + 1) * d <= i * d
    BY <2>1, ProductOrder
  <2>3. (q + 1) * d = q * d + d
    OBVIOUS
  <2> QED
    BY <1>1, <1>2, <1>3, <2>2, <2>3
<1>4. ASSUME n <= i * d, i < q PROVE FALSE
  <2>1. i + 1 <= q
    BY <1>4
  <2>2. (i + 1) * d <= q * d
    BY <2>1, ProductOrder
  <2>3. (i + 1) * d = i * d + d
    OBVIOUS
  <2> QED
    BY <1>1, <1>2, <1>4, <2>2, <2>3
<1> QED
  BY <1>1, <1>2, <1>3, <1>4

(* A fraction multiplied by another. *)
LEMMA FractionProduct ==
    ASSUME NEW n \in Int, NEW d \in Nat \ {0}, NEW a \in Int, NEW b \in Nat \ {0}, NEW i \in Int
    PROVE  /\ n * a \in Int /\ d * b \in Nat \ {0}
           /\ i >= 0 /\ a >= b /\ n >= i * d => n * a >= i * (d * b)
           /\ i >= 0 /\ a >= 0 /\ a <= b /\ n >= 0 /\ n <= i * d => n * a >= 0 /\ n * a <= i * (d * b)
<1>1. n * a \in Int /\ d * b \in Nat \ {0} /\ i * d \in Int /\ i * (d * b) = (i * d) * b
  OBVIOUS
<1>2. PICK m \in Int : m = i * d
  BY <1>1
<1>3. i >= 0 => m \in Nat
  BY <1>2
<1>4. ASSUME i >= 0, a >= b, n >= i * d PROVE n * a >= i * (d * b)
  <2>1. a \in Nat /\ m \in Nat
    BY <1>3, <1>4
  <2>2. m * a <= n * a
    BY <1>2, <1>4, <2>1, ProductOrder
  <2>3. b * m <= a * m
    BY <1>4, <2>1, ProductOrder
  <2>4. b * m = m * b /\ a * m = m * a
    OBVIOUS
  <2> QED
    BY <1>1, <1>2, <2>1, <2>2, <2>3, <2>4
<1>5. ASSUME i >= 0, a >= 0, a <= b, n >= 0, n <= i * d PROVE n * a >= 0 /\ n * a <= i * (d * b)
  <2>1. a \in Nat /\ m \in Nat /\ n \in Nat
    BY <1>3, <1>5
  <2>2. n * a <= m * a
    BY <1>2, <1>5, <2>1, ProductOrder
  <2>3. a * m <= b * m
    BY <1>5, <2>1, ProductOrder
  <2>4. b * m = m * b /\ a * m = m * a /\ n * a \in Nat
    BY <2>1
  <2> QED
    BY <1>1, <1>2, <2>1, <2>2, <2>3, <2>4
<1> QED
  BY <1>1, <1>4, <1>5

PowerStep(init, c, f, k) ==
    IF k = 0 THEN [num |-> init, den |-> 1]
    ELSE [num |-> f[k - 1].num * c.num, den |-> f[k - 1].den * c.den]

IsPower(init, c, f, n) == f = [k \in 0..n |-> PowerStep(init, c, f, k)]

LEMMA PowerExists ==
    ASSUME NEW init, NEW c, NEW last \in Nat
    PROVE  \E f : IsPower(init, c, f, last)
<1> DEFINE Bad == {n \in Nat : ~ \E f : IsPower(init, c, f, n)}
<1>1. Bad = {}
  <2> SUFFICES ASSUME Bad # {} PROVE FALSE
    OBVIOUS
  <2>1. PICK n \in Bad : \A m \in Bad : n <= m
    BY NatHasLeast
  <2>2. n \in Nat /\ ~ \E f : IsPower(init, c, f, n)
    OBVIOUS
  <2>3. n # 0
    <3>1. IsPower(init, c, [k \in 0..0 |-> [num |-> init, den |-> 1]], 0)
      BY DEF IsPower, PowerStep
    <3> QED
      BY <3>1, <2>2
  <2>4. n - 1 \in Nat /\ n - 1 \notin Bad
    BY <2>1, <2>2, <2>3
  <2>5. PICK f : IsPower(init, c, f, n - 1)
    BY <2>4
  <2> DEFINE g == [k \in 0..n |-> IF k = n THEN PowerStep(init, c, f, n) ELSE f[k]]
  <2>6. ASSUME NEW k \in 0..n PROVE g[k] = PowerStep(init, c, g, k)
    <3>1. CASE k = n
      <4>1. g[n - 1] = f[n - 1]
        BY <2>2, <2>3
      <4> QED
        BY <3>1, <4>1, <2>3 DEF PowerStep
    <3>2. CASE k # n
      <4>1. k \in 0..(n - 1) /\ g[k] = f[k]
        BY <3>2, <2>2
      <4>2. f[k] = PowerStep(init, c, f, k)
        BY <4>1, <2>5 DEF IsPower
      <4>3. k # 0 => k - 1 \in 0..n /\ k - 1 # n /\ g[k - 1] = f[k - 1]
        BY <2>2
      <4> QED
        BY <4>1, <4>2, <4>3 DEF PowerStep
    <3> QED
      BY <3>1, <3>2
  <2>7. IsPower(init, c, g, n)
    BY <2>6 DEF IsPower
  <2> QED
    BY <2>7, <2>2
<1> QED
  BY <1>1

(* A power is not below what it starts from if the coefficient is at least *)
(* 1, and not above it, nor negative, if the coefficient is at most 1.     *)
PowerBounds(x, init, c) ==
    /\ x \in Fractions
    /\ init >= 0 /\ c.num >= c.den => x.num >= init * x.den
    /\ init >= 0 /\ c.num >= 0 /\ c.num <= c.den => x.num >= 0 /\ x.num <= init * x.den

LEMMA PowerFacts ==
    ASSUME NEW init \in Int, NEW c \in Fractions, NEW last \in Nat
    PROVE  PowerBounds(Power(init, c, last), init, c)
<1> DEFINE K(f) == f = [k \in 0..last |->
                          IF k = 0 THEN [num |-> init, den |-> 1]
                          ELSE [num |-> f[k - 1].num * c.num, den |-> f[k - 1].den * c.den]]
           power == CHOOSE f : K(f)
<1>1. \A f : K(f) <=> IsPower(init, c, f, last)
  BY DEF IsPower, PowerStep
<1>2. K(power)
  <2>1. \E f : K(f)
    BY <1>1, PowerExists
  <2> HIDE DEF K
  <2> QED
    BY <2>1
<1>3. Power(init, c, last) = power[last]
  BY DEF Power
<1> HIDE DEF K, power
<1>4. PICK f : f = power
  OBVIOUS
<1>5. IsPower(init, c, f, last)
  BY <1>1, <1>2, <1>4
<1> DEFINE Good(k) == PowerBounds(f[k], init, c)
           Bad == {k \in 0..last : ~Good(k)}
<1>6. Good(0)
  <2>1. f[0] = [num |-> init, den |-> 1]
    BY <1>5 DEF IsPower, PowerStep
  <2> QED
    BY <2>1 DEF PowerBounds, Fractions
<1>7. ASSUME NEW k \in 1..last, Good(k - 1) PROVE Good(k)
  <2>1. f[k] = [num |-> f[k - 1].num * c.num, den |-> f[k - 1].den * c.den]
    BY <1>5 DEF IsPower, PowerStep
  <2>2. PICK n \in Int : n = f[k - 1].num
    BY <1>7 DEF PowerBounds, Fractions
  <2>3. PICK d \in Nat \ {0} : d = f[k - 1].den
    BY <1>7 DEF PowerBounds, Fractions
  <2>4. PICK a \in Int : a = c.num
    BY DEF Fractions
  <2>5. PICK b \in Nat \ {0} : b = c.den
    BY DEF Fractions
  <2>6. /\ init >= 0 /\ a >= b => n >= init * d
        /\ init >= 0 /\ a >= 0 /\ a <= b => n >= 0 /\ n <= init * d
    BY <1>7, <2>2, <2>3, <2>4, <2>5 DEF PowerBounds
  <2>7. f[k].num = n * a /\ f[k].den = d * b /\ f[k] = [num |-> n * a, den |-> d * b]
    BY <2>1, <2>2, <2>3, <2>4, <2>5
  <2>8. /\ n * a \in Int /\ d * b \in Nat \ {0}
        /\ init >= 0 /\ a >= b /\ n >= init * d => n * a >= init * (d * b)
        /\ init >= 0 /\ a >= 0 /\ a <= b /\ n >= 0 /\ n <= init * d => n * a >= 0 /\ n * a <= init * (d * b)
    BY FractionProduct
  <2>9. f[k] \in Fractions
    BY <2>7, <2>8 DEF Fractions
  <2> QED
    BY <2>4, <2>5, <2>6, <2>7, <2>8, <2>9 DEF PowerBounds
<1> HIDE DEF Good
<1>8. Bad = {}
  <2> SUFFICES ASSUME Bad # {} PROVE FALSE
    OBVIOUS
  <2>1. Bad \in SUBSET Nat
    OBVIOUS
  <2>2. PICK n \in Bad : \A m \in Bad : n <= m
    BY <2>1, NatHasLeast
  <2>3. n # 0
    BY <1>6
  <2>4. n \in 1..last /\ n - 1 \in 0..last /\ n - 1 \notin Bad
    BY <2>2, <2>3
  <2> QED
    BY <2>4, <1>7
<1>9. Good(last)
  BY <1>8
<1> QED
  BY <1>3, <1>4, <1>9 DEF Good

(* So is the number of seconds, after the truncation. *)
LEMMA TruncatedFacts ==
    ASSUME NEW x \in Fractions, NEW init \in Int, NEW c \in Fractions, PowerBounds(x, init, c)
    PROVE  /\ Truncated(x) \in Int
           /\ init >= 0 /\ c.num >= c.den => Truncated(x) >= init
           /\ init >= 0 /\ c.num >= 0 /\ c.num <= c.den => Truncated(x) >= 0 /\ Truncated(x) <= init
<1>1. PICK n \in Int : n = x.num
  BY DEF Fractions
<1>2. PICK d \in Nat \ {0} : d = x.den
  BY DEF Fractions
<1>3. c.num \in Int /\ c.den \in Nat \ {0}
  BY DEF Fractions
<1>4. Truncated(x) = IF n >= 0 THEN n \div d ELSE -((-n) \div d)
  BY <1>1, <1>2 DEF Truncated
<1>5. -n \in Int /\ n \div d \in Int /\ (-n) \div d \in Int
  BY QuotientFacts
<1>6. Truncated(x) \in Int
  BY <1>4, <1>5
<1>7. /\ init * d <= n => init <= n \div d
      /\ n <= init * d => n \div d <= init
      /\ 0 * d <= n => 0 <= n \div d
  BY QuotientFacts
<1>8. 0 * d = 0 /\ (init >= 0 => init * d >= 0) /\ init * d \in Int
  OBVIOUS
<1>9. ASSUME init >= 0, c.num >= c.den PROVE Truncated(x) >= init
  <2>1. n >= init * d
    BY <1>1, <1>2, <1>9 DEF PowerBounds
  <2>2. n >= 0
    BY <1>8, <1>9, <2>1
  <2> QED
    BY <1>4, <1>5, <1>7, <2>1, <2>2
<1>10. ASSUME init >= 0, c.num >= 0, c.num <= c.den PROVE Truncated(x) >= 0 /\ Truncated(x) <= init
  <2>1. n >= 0 /\ n <= init * d
    BY <1>1, <1>2, <1>10 DEF PowerBounds
  <2> QED
    BY <1>4, <1>5, <1>7, <1>8, <2>1
<1> QED
  BY <1>6, <1>9, <1>10

-----------------------------------------------------------------------------
(***************************************************************************)
(* The inductive invariant, in parts.                                      *)
(***************************************************************************)
EndStatuses == {"Completed", "Failed", "Terminated"}
StateStatuses == {"None", "WaitUntilRunning", "WaitUntilWaiting", "ExecuteRunning", "Ended"}

Infos == [completed : Nat, first : 0..MaxTime]
Tasks == [type : {"api", "visibility"}, exec : Execs, what : Apis \cup EndStatuses \cup {"Running"}, info : Infos]
Copies == [row : Tasks, task : Tasks \cup {NoTask}]
WorkerStates ==
    [pc : {"idle", "calling", "recording", "deleting"},
     copy : [row : Tasks \cup {NoTask}, task : Tasks \cup {NoTask}],
     api : StateStatuses \cup {"none"}, info : Infos]
Timers ==
    [exec : Execs, api : Apis \cup EndStatuses \cup {"Running"}, info : Infos, interval : Int, fire : Int]
VisibleRows == OldRows \cup [id : Execs, start : 0..MaxTime, status : EndStatuses \cup {"Running"}]

Typing ==
    /\ now \in 0..MaxTime
    /\ process \in [Execs -> EndStatuses \cup {"None", "Running"}]
    /\ state \in [Execs -> StateStatuses]
    /\ config \in [Execs -> Configs]
    /\ rows \in Seq(Tasks)
    /\ timers \in SUBSET Timers
    /\ pending \subseteq Execs /\ awaiting \subseteq Execs /\ latest \subseteq Execs
    /\ visible \in SUBSET VisibleRows /\ IsFiniteSet(visible)
    /\ channel \in Seq(Copies)
    /\ worker \in [Workers -> WorkerStates]
    /\ token \in [id : Nat, start : Nat]
    /\ faults \in Nat
    /\ calls \in [Execs -> [count : 0..MaxCompleted, first : 0..MaxTime]]

Busy(w) == worker[w].pc # "idle"

(* A row that the queue has read is held by at most one copy in the        *)
(* channel or one worker.                                                  *)
WorkerHolds(w) ==
    Busy(w) =>
        /\ TaskOf(w) \in loaded
        /\ \A c \in Range(channel) : c.row # TaskOf(w)
        /\ \A v \in Workers : Busy(v) /\ TaskOf(v) = TaskOf(w) => v = w

Holders ==
    /\ IsInjective(rows) /\ IsInjective(channel)
    /\ loaded \subseteq Range(rows)
    /\ \A c \in Range(channel) : c.row \in loaded
    /\ \A c, d \in Range(channel) : c.row = d.row => c = d
    /\ \A w \in Workers : WorkerHolds(w)

IsApi(t, e) == t.exec = e /\ t.type = "api"

(* A close that was recorded, or is to be, may be the first of two. *)
ClosesTwice(e) == e \in revived \ latest

(* An execution has one API task or one timer, and none while it waits. *)
TasksOK(e) ==
    /\ \A s, t \in Range(rows) : IsApi(s, e) /\ IsApi(t, e) => s = t
    /\ \A s, t \in timers : s.exec = e /\ t.exec = e => s = t
    /\ \A s \in timers, t \in Range(rows) : s.exec = e => ~IsApi(t, e)
    /\ e \in awaiting \/ state[e] = "WaitUntilWaiting" =>
          (\A t \in Range(rows) : ~IsApi(t, e)) /\ (\A t \in timers : t.exec # e)

(* A close to record is that of the process, or the first of two. *)
ClosesOK(e) ==
    \A t \in Range(rows) : t.exec = e /\ t.type = "visibility" /\ t.what # "Running" =>
        /\ process[e] \in EndStatuses /\ t = VisibilityTask(e, t.what, 0)
        /\ t.what = process[e] \/ (t.what = "Terminated" /\ ClosesTwice(e))

(* How the status of a process, of its state execution and the maps agree. *)
StatusOK(e) ==
    /\ process[e] = "None" =>
          /\ state[e] = "None" /\ e \notin pending \cup awaiting \cup latest
          /\ (\A t \in Range(rows) : t.exec # e) /\ (\A t \in timers : t.exec # e)
    /\ process[e] # "None" => state[e] # "None"
    /\ process[e] = "Running" => e \in latest
    /\ e \in awaiting => state[e] \in {"WaitUntilWaiting", "Ended"}
    /\ e \in pending /\ process[e] # "Running" => process[e] = "Terminated" /\ e \notin latest
    /\ state[e] \in Apis \cup {"WaitUntilWaiting"} => e \in revived \/ (process[e] = "Running" /\ e \in pending)

RowsOK(e) == TasksOK(e) /\ ClosesOK(e) /\ StatusOK(e)

CloseRecorded(e) == \E r \in visible : r.id = e /\ r.status # "Running"

WorkerOK(w) ==
    /\ worker[w].pc = "calling" =>
          /\ TaskOf(w).type = "api"
          /\ worker[w].api \in Apis /\ state[TaskOf(w).exec] \in {worker[w].api, "Ended"}
          /\ worker[w].info.completed >= 1
    /\ worker[w].pc \in {"recording", "deleting"} => TaskOf(w).type = "visibility"
    /\ worker[w].pc = "deleting" /\ TaskOf(w).what # "Running" =>
          TaskOf(w).exec \in overtaken \/ CloseRecorded(TaskOf(w).exec)

KeysUnique == \A r, s \in visible : r.id = s.id => r = s

VisibleOK(e) ==
    /\ \A r \in visible : r.id = e =>
          process[e] # "None" /\ (r.status \in {"Running", process[e]} \/ ClosesTwice(e))
    /\ process[e] \in EndStatuses =>
          \/ e \in overtaken \cup byRpc
          \/ VisibilityTask(e, process[e], 0) \in Range(rows)
          \/ CloseRecorded(e)

(* What the backoff of a policy may be after n attempts. *)
IntervalOK(interval, n, p) ==
    LET init == p.InitialIntervalSeconds
        c    == p.BackoffCoefficient
        Least(i) == interval >= i \/ interval = p.MaximumIntervalSeconds
    IN  /\ interval <= p.MaximumIntervalSeconds
        /\ init >= 0 /\ c.num >= c.den =>
              \/ Least(init)
              \/ interval = MinInt /\ Truncated(Power(init, c, n - 1)) > MaxInt
        /\ init >= 0 /\ c.num \in 0..c.den => interval <= init /\ Least(0)

(* What a timer was made from: the policy of its state. *)
TimerOK(t) ==
    LET p == PolicyOf(t.exec)
    IN  /\ config[t.exec] # NoConfig
        /\ t.info.completed >= 1
        /\ p.MaximumAttempts > 0 => t.info.completed < p.MaximumAttempts
        /\ p.MaximumAttemptsDurationSeconds > 0 =>
              t.fire <= t.info.first + p.MaximumAttemptsDurationSeconds + p.MaximumIntervalSeconds
        /\ IntervalOK(t.interval, t.info.completed, p)

RowCountOK(t) ==
    t.type = "api" /\ config[t.exec] # NoConfig /\ PolicyOf(t.exec).MaximumAttempts > 0 =>
        t.info.completed < PolicyOf(t.exec).MaximumAttempts

(* The count in a task agrees with the calls that were made. *)
Match(e, info) ==
    /\ calls[e].count <= info.completed
    /\ calls[e].count = 0 => info.completed = 0
    /\ calls[e].count > 0 => calls[e].first = info.first

Held(t) == \E w \in Workers : worker[w].pc = "calling" /\ TaskOf(w) = t

CallsOK(e) ==
    Undisturbed(e) =>
        /\ process[e] = "None" \/ state[e] = "WaitUntilWaiting" => calls[e].count = 0
        /\ PolicyOf(e).MaximumAttempts > 0 => calls[e].count <= PolicyOf(e).MaximumAttempts
        /\ \A t \in timers : t.exec = e => Match(e, t.info)
        /\ state[e] # "Ended" =>
              /\ \A c \in Range(channel) : IsApi(c.row, e) => c.task.info = c.row.info
              /\ \A t \in Range(rows) : IsApi(t, e) /\ ~Held(t) => Match(e, t.info)
              /\ \A w \in Workers : worker[w].pc = "calling" /\ TaskOf(w).exec = e => Match(e, worker[w].info)

RowsInv == \A e \in Execs : RowsOK(e)
WorkerInv == \A w \in Workers : WorkerOK(w)
VisibleInv == KeysUnique /\ \A e \in Execs : VisibleOK(e)
TimerInv == \A t \in timers : TimerOK(t)
CountInv == \A t \in Range(rows) : RowCountOK(t)
CallsInv == \A e \in Execs : CallsOK(e)

ProcessorInv ==
    Typing /\ Holders /\ RowsInv /\ WorkerInv /\ VisibleInv /\ TimerInv /\ CountInv /\ CallsInv

-----------------------------------------------------------------------------
(* The values of a policy, defaults put in. *)
LEMMA PolicyFacts ==
    ASSUME config \in [Execs -> Configs], NEW e \in Execs, config[e] # NoConfig
    PROVE  /\ PolicyOf(e).MaximumAttempts \in Int
           /\ PolicyOf(e).MaximumAttemptsDurationSeconds \in Int
           /\ PolicyOf(e).MaximumIntervalSeconds \in Int
           /\ MinInt <= PolicyOf(e).MaximumIntervalSeconds
           /\ PolicyOf(e).InitialIntervalSeconds \in Int
           /\ PolicyOf(e).InitialIntervalSeconds <= 1 \/ PolicyOf(e).InitialIntervalSeconds <= MaxInt
           /\ PolicyOf(e).BackoffCoefficient \in Fractions
<1>1. PICK c \in Configs \ {NoConfig} : c = config[e]
  OBVIOUS
<1> DEFINE d == defaultWorkerTaskBackoffRetryPolicy
           Fields == {"InitialIntervalSeconds", "BackoffCoefficient", "MaximumIntervalSeconds",
                      "MaximumAttempts", "MaximumAttemptsDurationSeconds"}
           Ints == (MinInt..MaxInt) \cup {Unset}
<1>2. c \in [InitialIntervalSeconds : Ints, BackoffCoefficient : Fractions \cup {Unset},
             MaximumIntervalSeconds : Ints, MaximumAttempts : Ints, MaximumAttemptsDurationSeconds : Ints]
  BY ConfigAssumption
<1>3. /\ DOMAIN c = Fields
      /\ c.MaximumAttempts \in Ints /\ c.MaximumAttemptsDurationSeconds \in Ints
      /\ c.MaximumIntervalSeconds \in Ints /\ c.InitialIntervalSeconds \in Ints
      /\ c.BackoffCoefficient \in Fractions \cup {Unset}
  <2> HIDE DEF Ints
  <2> QED
    BY <1>2
<1>4. PolicyOf(e) = [f \in Fields |-> IF c[f] = Unset THEN d[f] ELSE c[f]]
  BY <1>1, <1>3 DEF PolicyOf, setDefaultRetryPolicyValue
<1>5. /\ d.MaximumAttempts = 0 /\ d.MaximumAttemptsDurationSeconds = 0 /\ d.MaximumIntervalSeconds = 120
      /\ d.InitialIntervalSeconds = 1 /\ d.BackoffCoefficient = [num |-> 2, den |-> 1]
  BY DEF defaultWorkerTaskBackoffRetryPolicy
<1> HIDE DEF d
<1>6. /\ PolicyOf(e).MaximumAttempts = IF c.MaximumAttempts = Unset THEN 0 ELSE c.MaximumAttempts
      /\ PolicyOf(e).MaximumAttemptsDurationSeconds =
            IF c.MaximumAttemptsDurationSeconds = Unset THEN 0 ELSE c.MaximumAttemptsDurationSeconds
      /\ PolicyOf(e).MaximumIntervalSeconds =
            IF c.MaximumIntervalSeconds = Unset THEN 120 ELSE c.MaximumIntervalSeconds
      /\ PolicyOf(e).InitialIntervalSeconds =
            IF c.InitialIntervalSeconds = Unset THEN 1 ELSE c.InitialIntervalSeconds
      /\ PolicyOf(e).BackoffCoefficient =
            IF c.BackoffCoefficient = Unset THEN [num |-> 2, den |-> 1] ELSE c.BackoffCoefficient
  BY <1>4, <1>5
<1>7. [num |-> 2, den |-> 1] \in Fractions
  BY DEF Fractions
<1>8. PolicyOf(e).BackoffCoefficient \in Fractions
  BY <1>3, <1>6, <1>7
<1>9. MinInt \in Int /\ MinInt <= 0 /\ MaxInt \in Int
  BY IntAssumption DEF MinInt
<1> HIDE DEF Fields
<1> QED
  BY <1>3, <1>6, <1>8, <1>9

(* Taking the first element. *)
LEMMA TailFacts ==
    ASSUME NEW S, NEW q \in Seq(S), q # <<>>, IsInjective(q)
    PROVE  /\ Head(q) \in S /\ Head(q) \in Range(q)
           /\ Tail(q) \in Seq(S)
           /\ IsInjective(Tail(q))
           /\ Range(Tail(q)) = Range(q) \ {Head(q)}
<1>1. Len(q) \in Nat \ {0} /\ DOMAIN q = 1..Len(q) /\ Head(q) = q[1]
  BY EmptySeq, LenProperties
<1>2. /\ Tail(q) \in Seq(S) /\ Len(Tail(q)) = Len(q) - 1
      /\ \A i \in 1..Len(Tail(q)) : Tail(q)[i] = q[i + 1]
      /\ Head(q) \in S
  BY HeadTailProperties
<1>3. DOMAIN Tail(q) = 1..(Len(q) - 1)
  BY <1>2, LenProperties
<1>4. IsInjective(Tail(q))
  BY <1>1, <1>2, <1>3 DEF IsInjective
<1>5. ASSUME NEW x PROVE x \in Range(Tail(q)) <=> x \in Range(q) \ {Head(q)}
  <2>1. ASSUME x \in Range(Tail(q)) PROVE x \in Range(q) \ {Head(q)}
    <3>1. PICK i \in 1..(Len(q) - 1) : x = Tail(q)[i]
      BY <2>1, <1>3 DEF Range
    <3>2. x = q[i + 1] /\ i + 1 \in 1..Len(q) /\ i + 1 # 1 /\ 1 \in 1..Len(q)
      BY <3>1, <1>1, <1>2
    <3> QED
      BY <3>2, <1>1 DEF IsInjective, Range
  <2>2. ASSUME x \in Range(q) \ {Head(q)} PROVE x \in Range(Tail(q))
    <3>1. PICK i \in 1..Len(q) : x = q[i]
      BY <2>2, <1>1 DEF Range
    <3>2. i # 1
      BY <3>1, <2>2, <1>1
    <3>3. i - 1 \in 1..(Len(q) - 1) /\ Tail(q)[i - 1] = x
      BY <3>1, <3>2, <1>1, <1>2
    <3> QED
      BY <3>3, <1>3 DEF Range
  <2> QED
    BY <2>1, <2>2
<1>6. Head(q) \in Range(q)
  BY <1>1 DEF Range
<1> QED
  BY <1>2, <1>4, <1>5, <1>6

(* What is held is a row, and every row a task. *)
LEMMA ElementFacts ==
    ASSUME Typing, Holders
    PROVE  /\ \A t \in Range(rows) : t \in Tasks
           /\ \A c \in Range(channel) : c \in Copies /\ c.row \in Range(rows)
           /\ \A w \in Workers : Busy(w) => TaskOf(w) \in Tasks /\ TaskOf(w) \in Range(rows)
<1>1. Range(rows) \in SUBSET Tasks /\ Range(channel) \in SUBSET Copies
  BY RangeOfSeq DEF Typing
<1>2. \A w \in Workers : Busy(w) => TaskOf(w) \in Range(rows)
  BY DEF Holders, WorkerHolds
<1> QED
  BY <1>1, <1>2 DEF Holders

LEMMA EmptyRange == Range(<<>>) = {} /\ IsInjective(<<>>)
BY DEF Range, IsInjective

LEMMA InitInv == Init => ProcessorInv
<1> SUFFICES ASSUME Init PROVE ProcessorInv
  OBVIOUS
<1>1. NoInfo \in Infos /\ NoTask \in {NoTask} /\ Idle \in WorkerStates /\ Idle.pc = "idle"
  BY BoundAssumption DEF NoInfo, Infos, Idle, Copy, WorkerStates
<1>2. Typing
  <2>1. worker \in [Workers -> WorkerStates] /\ rows \in Seq(Tasks) /\ channel \in Seq(Copies)
    BY <1>1 DEF Init
  <2>2. calls \in [Execs -> [count : 0..MaxCompleted, first : 0..MaxTime]]
    BY BoundAssumption DEF Init, NoCalls
  <2>3. token \in [id : Nat, start : Nat]
    BY DEF Init, FirstToken
  <2>4. visible \in SUBSET VisibleRows /\ IsFiniteSet(visible)
    BY OldRowsAssumption DEF Init, VisibleRows
  <2>5. now \in 0..MaxTime /\ faults \in Nat
    BY BoundAssumption DEF Init
  <2> QED
    BY <2>1, <2>2, <2>3, <2>4, <2>5 DEF Init, Typing, StateStatuses
<1>3. \A w \in Workers : worker[w] = Idle
  BY DEF Init
<1>4. Range(rows) = {} /\ Range(channel) = {} /\ IsInjective(rows) /\ IsInjective(channel)
  BY EmptyRange DEF Init
<1>5. Holders
  BY <1>1, <1>3, <1>4 DEF Holders, WorkerHolds, Busy, Init
<1>6. RowsInv
  BY <1>4 DEF Init, RowsInv, RowsOK, TasksOK, ClosesOK, StatusOK, Apis
<1>7. WorkerInv
  BY <1>1, <1>3 DEF WorkerInv, WorkerOK
<1>8. VisibleInv
  BY OldRowsAssumption DEF Init, VisibleInv, KeysUnique, VisibleOK, EndStatuses
<1>9. TimerInv /\ CountInv
  BY <1>4 DEF Init, TimerInv, CountInv
<1>10. CallsInv
  <2> SUFFICES ASSUME NEW e \in Execs, Undisturbed(e) PROVE CallsOK(e)
    BY DEF CallsInv, CallsOK
  <2>1. calls[e].count = 0
    BY DEF Init, NoCalls
  <2>2. config \in [Execs -> Configs] /\ config[e] # NoConfig
    BY DEF Init, Undisturbed
  <2>3. PolicyOf(e).MaximumAttempts \in Int
    BY <2>2, PolicyFacts
  <2> QED
    BY <1>1, <1>3, <1>4, <2>1, <2>3 DEF Init, CallsOK
<1> QED
  BY <1>2, <1>5, <1>6, <1>7, <1>8, <1>9, <1>10 DEF ProcessorInv

-----------------------------------------------------------------------------
(***************************************************************************)
(* Frames: a part stays true when the variables it is about do not change. *)
(***************************************************************************)
LEMMA HoldersFrame ==
    ASSUME Holders, UNCHANGED <<rows, channel, loaded, worker>>
    PROVE  Holders'
BY DEF Holders, WorkerHolds, Busy, TaskOf

LEMMA RowsFrame ==
    ASSUME RowsInv, UNCHANGED <<rows, timers, process, state, pending, awaiting, latest, revived>>
    PROVE  RowsInv'
BY DEF RowsInv, RowsOK, TasksOK, ClosesOK, StatusOK, ClosesTwice, IsApi

LEMMA WorkerFrame ==
    ASSUME WorkerInv, UNCHANGED <<worker, state, overtaken, visible>>
    PROVE  WorkerInv'
BY DEF WorkerInv, WorkerOK, TaskOf, CloseRecorded

LEMMA VisibleFrame ==
    ASSUME VisibleInv, UNCHANGED <<visible, process, overtaken, byRpc>>,
           revived \subseteq revived', latest' \subseteq latest,
           \A t \in Range(rows) : t.type = "visibility" => t \in Range(rows)'
    PROVE  VisibleInv'
<1>1. KeysUnique'
  BY DEF VisibleInv, KeysUnique
<1>2. ASSUME NEW e \in Execs PROVE VisibleOK(e)'
  <2>1. VisibleOK(e)
    BY DEF VisibleInv
  <2>2. VisibilityTask(e, process[e], 0).type = "visibility"
    BY DEF VisibilityTask, Task
  <2> QED
    BY <2>1, <2>2 DEF VisibleOK, ClosesTwice, CloseRecorded
<1> QED
  BY <1>1, <1>2 DEF VisibleInv

LEMMA TimerFrame ==
    ASSUME TimerInv, config' = config, timers' \subseteq timers
    PROVE  TimerInv'
BY DEF TimerInv, TimerOK, IntervalOK, PolicyOf

LEMMA CountFrame ==
    ASSUME CountInv, config' = config, Range(rows)' \subseteq Range(rows)
    PROVE  CountInv'
BY DEF CountInv, RowCountOK, PolicyOf

(* The calls of an execution to which nothing happens, or which ends or has *)
(* been revived.                                                           *)
LEMMA CallsFrame ==
    ASSUME CallsInv, NEW e \in Execs, config' = config, calls'[e] = calls[e],
           Undisturbed(e)' => Undisturbed(e), process'[e] = "None" => process[e] = "None",
           \A t \in timers' : t.exec = e => t \in timers,
           \/ state'[e] = "Ended" \/ e \in revived'
           \/ /\ state'[e] = state[e]
              /\ \A c \in Range(channel)' : IsApi(c.row, e) => c \in Range(channel) \/ c.task.info = c.row.info
              /\ \A t \in Range(rows)' : IsApi(t, e) => t \in Range(rows) /\ (Held(t) => Held(t)')
              /\ \A w \in Workers : worker'[w].pc = "calling" /\ TaskOf(w)'.exec = e =>
                    worker[w].pc = "calling" /\ TaskOf(w).exec = e /\ worker'[w].info = worker[w].info
    PROVE  CallsOK(e)'
<1> SUFFICES ASSUME Undisturbed(e)' PROVE CallsOK(e)'
  BY DEF CallsOK
<1>1. Undisturbed(e) /\ CallsOK(e)
  BY DEF CallsInv
<1>2. \A info : Match(e, info)' <=> Match(e, info)
  BY DEF Match
<1>3. PolicyOf(e)' = PolicyOf(e)
  BY DEF PolicyOf
<1>4. CASE state'[e] = "Ended"
  BY <1>1, <1>2, <1>3, <1>4 DEF CallsOK
<1>5. CASE state'[e] # "Ended"
  <2>1. e \notin revived'
    BY DEF Undisturbed
  <2> QED
    BY <1>1, <1>2, <1>3, <1>5, <2>1 DEF CallsOK
<1> QED
  BY <1>4, <1>5

LEMMA UndisturbedFrame ==
    ASSUME Typing, UNCHANGED config, faults' \in {faults, faults + 1}, late \subseteq late',
           revived \subseteq revived', NEW e
    PROVE  Undisturbed(e)' => Undisturbed(e)
BY DEF Undisturbed, Typing

(* The tasks of an execution to which nothing happens. *)
LEMMA RowsOther ==
    ASSUME NEW x, RowsOK(x), process'[x] = process[x], state'[x] = state[x],
           x \in pending' <=> x \in pending, x \in awaiting' <=> x \in awaiting,
           x \in latest' <=> x \in latest, x \in revived' <=> x \in revived,
           \A t \in Range(rows)' : t.exec = x => t \in Range(rows),
           \A t \in timers' : t.exec = x => t \in timers
    PROVE  RowsOK(x)'
<1>1. TasksOK(x)'
  BY DEF RowsOK, TasksOK, IsApi
<1>2. ClosesOK(x)'
  BY DEF RowsOK, ClosesOK, ClosesTwice
<1>3. StatusOK(x)'
  BY DEF RowsOK, StatusOK
<1> QED
  BY <1>1, <1>2, <1>3 DEF RowsOK

-----------------------------------------------------------------------------
(***************************************************************************)
(* One lemma per action.                                                   *)
(***************************************************************************)
LEMMA StartInv ==
    ASSUME ProcessorInv, NEW e \in Execs, StartProcess(e)
    PROVE  ProcessorInv'
<1> USE DEF ProcessorInv
<1> DEFINE a == ApiTask(e, "WaitUntilRunning", NoInfo)
           b == VisibilityTask(e, "Running", now)
<1>1. /\ a \in Tasks /\ b \in Tasks /\ a # b
      /\ IsApi(a, e) /\ a.info = NoInfo
      /\ b.exec = e /\ b.type = "visibility" /\ b.what = "Running"
  <2>1. NoInfo \in Infos /\ [completed |-> 0, first |-> now] \in Infos
    BY BoundAssumption DEF NoInfo, Infos, Typing
  <2> QED
    BY <2>1 DEF ApiTask, VisibilityTask, Task, Tasks, Apis, IsApi
<1> HIDE DEF a, b
<1>2. rows' = Append(Append(rows, a), b)
  <2>1. rows' = rows \o <<a, b>>
    BY DEF StartProcess, a, b
  <2> QED
    BY <1>1, <2>1 DEF Typing
<1>3. process[e] = "None" /\ StatusOK(e)
  BY DEF StartProcess, RowsInv, RowsOK
<1>4. \A t \in Range(rows) : t.exec # e
  BY <1>3 DEF StatusOK
<1>5. \A t \in timers : t.exec # e
  BY <1>3 DEF StatusOK
<1>6. /\ rows' \in Seq(Tasks) /\ IsInjective(rows')
      /\ Range(rows)' = Range(rows) \cup {a, b}
  <2>1. /\ Append(rows, a) \in Seq(Tasks) /\ IsInjective(Append(rows, a))
        /\ Range(Append(rows, a)) = Range(rows) \cup {a}
    BY <1>1, <1>4, AppendFacts DEF Typing, Holders, IsApi
  <2>2. b \notin Range(Append(rows, a))
    BY <2>1, <1>1, <1>4
  <2>3. PICK q \in Seq(Tasks) : q = Append(rows, a)
    BY <2>1
  <2>4. /\ Append(q, b) \in Seq(Tasks) /\ IsInjective(Append(q, b))
        /\ Range(Append(q, b)) = Range(q) \cup {b}
    <3>1. b \in Tasks /\ b \notin Range(q) /\ IsInjective(q)
      BY <1>1, <2>1, <2>2, <2>3
    <3> QED
      BY <3>1, AppendFacts
  <2> QED
    BY <1>2, <2>1, <2>3, <2>4
<1>7. Typing'
  BY <1>6 DEF StartProcess, Typing, history, client, StateStatuses
<1>8. Holders'
  BY <1>6 DEF StartProcess, Holders, WorkerHolds, Busy, TaskOf
<1>9. RowsInv'
  <2> SUFFICES ASSUME NEW x \in Execs PROVE RowsOK(x)'
    BY DEF RowsInv
  <2>1. RowsOK(x)
    BY DEF RowsInv
  <2>2. UNCHANGED <<timers, awaiting, revived>> /\ pending' = pending \cup {e} /\ latest' = latest \cup {e}
    BY DEF StartProcess, history
  <2>3. CASE x = e
    <3>1. process'[x] = "Running" /\ state'[x] = "WaitUntilRunning" /\ e \notin awaiting
      BY <1>3, <2>3 DEF StartProcess, StatusOK, Typing
    <3>2. TasksOK(x)'
      BY <2>2, <2>3, <3>1, <1>1, <1>4, <1>5, <1>6 DEF TasksOK, IsApi
    <3>3. ClosesOK(x)'
      BY <2>3, <1>1, <1>4, <1>6 DEF ClosesOK, IsApi
    <3>4. StatusOK(x)'
      BY <2>2, <2>3, <3>1 DEF StatusOK
    <3> QED
      BY <3>2, <3>3, <3>4 DEF RowsOK
  <2>4. CASE x # e
    <3>1. process'[x] = process[x] /\ state'[x] = state[x]
      BY <2>4 DEF StartProcess, Typing
    <3>2. \A t \in Range(rows)' : t.exec = x => t \in Range(rows)
      BY <2>4, <1>1, <1>6 DEF IsApi
    <3> QED
      BY <2>1, <2>2, <2>4, <3>1, <3>2, RowsOther
  <2> QED
    BY <2>3, <2>4
<1>10. WorkerInv'
  <2> SUFFICES ASSUME NEW w \in Workers PROVE WorkerOK(w)'
    BY DEF WorkerInv
  <2>1. WorkerOK(w) /\ UNCHANGED <<worker, visible, overtaken>>
    BY DEF WorkerInv, StartProcess, history, client, maps
  <2>2. worker[w].pc = "calling" => TaskOf(w).exec # e
    BY <1>4, ElementFacts DEF Busy
  <2>3. worker[w].pc = "calling" => state'[TaskOf(w).exec] = state[TaskOf(w).exec]
    <3>1. worker[w].pc = "calling" => TaskOf(w) \in Tasks
      BY ElementFacts DEF Busy
    <3> QED
      BY <2>2, <3>1 DEF StartProcess, Typing, Tasks
  <2> QED
    BY <2>1, <2>3 DEF WorkerOK, TaskOf, CloseRecorded
<1>11. VisibleInv'
  <2>1. KeysUnique'
    BY DEF VisibleInv, KeysUnique, StartProcess
  <2>2. ASSUME NEW x \in Execs PROVE VisibleOK(x)'
    <3>1. VisibleOK(x) /\ UNCHANGED <<visible, overtaken, byRpc, revived>> /\ latest' = latest \cup {e}
      BY DEF VisibleInv, StartProcess, history
    <3>2. CASE x = e
      <4>1. process'[x] = "Running"
        BY <3>2 DEF StartProcess, Typing
      <4> QED
        BY <1>3, <3>1, <3>2, <4>1 DEF VisibleOK, EndStatuses
    <3>3. CASE x # e
      <4>1. process'[x] = process[x]
        BY <3>3 DEF StartProcess, Typing
      <4> QED
        BY <3>1, <3>3, <4>1, <1>6 DEF VisibleOK, ClosesTwice, CloseRecorded
    <3> QED
      BY <3>2, <3>3
  <2> QED
    BY <2>1, <2>2 DEF VisibleInv
<1>12. TimerInv'
  BY TimerFrame DEF StartProcess
<1>13. CountInv'
  <2> SUFFICES ASSUME NEW t \in Range(rows)' PROVE RowCountOK(t)'
    BY DEF CountInv
  <2>1. CASE t \in Range(rows)
    BY <2>1 DEF CountInv, RowCountOK, PolicyOf, StartProcess
  <2>2. CASE t = a
    BY <2>2, <1>1 DEF RowCountOK, NoInfo
  <2>3. CASE t = b
    BY <2>3, <1>1 DEF RowCountOK
  <2> QED
    BY <2>1, <2>2, <2>3, <1>6
<1>14. CallsInv'
  <2> SUFFICES ASSUME NEW x \in Execs PROVE CallsOK(x)'
    BY DEF CallsInv
  <2>1. UNCHANGED <<config, timers, channel, worker, calls, faults, late, revived>>
    BY DEF StartProcess, history, client, maps
  <2>2. Undisturbed(x)' => Undisturbed(x)
    BY <2>1 DEF Undisturbed
  <2>3. CASE x # e
    <3>1. state'[x] = state[x]
      BY <2>3 DEF StartProcess, Typing
    <3>2. \A t \in Range(rows)' : IsApi(t, x) => t \in Range(rows)
      BY <2>3, <1>1, <1>6 DEF IsApi
    <3>3. process'[x] = process[x]
      BY <2>3 DEF StartProcess, Typing
    <3> QED
      BY <2>1, <2>2, <3>1, <3>2, <3>3, CallsFrame DEF Held, TaskOf
  <2>4. CASE x = e
    <3> SUFFICES ASSUME Undisturbed(e)' PROVE CallsOK(e)'
      BY <2>4 DEF CallsOK
    <3>1. CallsOK(e) /\ Undisturbed(e)
      BY <2>2, <2>4 DEF CallsInv
    <3>2. calls[e].count = 0 /\ calls'[e].count = 0
      BY <1>3, <2>1, <3>1 DEF CallsOK
    <3>3. Match(e, NoInfo)'
      BY <3>2 DEF Match, NoInfo
    <3>4. \A t \in Range(rows)' : IsApi(t, e) => t = a
      BY <1>1, <1>4, <1>6 DEF IsApi
    <3>5. \A c \in Range(channel) : ~IsApi(c.row, e)
      BY <1>4, ElementFacts DEF IsApi
    <3>6. \A w \in Workers : worker[w].pc = "calling" => TaskOf(w).exec # e
      BY <1>4, ElementFacts DEF Busy
    <3>7. PolicyOf(e).MaximumAttempts \in Int /\ PolicyOf(e)' = PolicyOf(e)
      BY <2>1, <3>1, PolicyFacts DEF Undisturbed, Typing, PolicyOf
    <3> QED
      BY <1>1, <1>5, <2>1, <3>2, <3>3, <3>4, <3>5, <3>6, <3>7 DEF CallsOK, TaskOf
  <2> QED
    BY <2>3, <2>4
<1> QED
  BY <1>7, <1>8, <1>9, <1>10, <1>11, <1>12, <1>13, <1>14

(* What a close does to the store, whoever asks for it: the first close of *)
(* a process, or the second of one that was replaced and went on.          *)
CanClose(e, status) ==
    \/ process[e] = "Running"
    \/ process[e] = "Terminated" /\ ClosesTwice(e) /\ status = "Completed"

LEMMA ClosedFacts ==
    ASSUME ProcessorInv, NEW e \in Execs, NEW status \in EndStatuses, CanClose(e, status),
           NEW others \in Seq(Tasks), IsInjective(others), Range(others) \subseteq Range(rows),
           \A t \in Range(rows) : t.type = "visibility" => t \in Range(others),
           process' = [process EXCEPT ![e] = status], state' = [state EXCEPT ![e] = "Ended"],
           rows' = Append(others, VisibilityTask(e, status, 0)),
           latest' \subseteq latest, \A x \in Execs \ {e} : x \in latest' <=> x \in latest,
           \/ pending' = pending \ {e}
           \/ status = "Terminated" /\ e \notin latest' /\ pending' = pending,
           UNCHANGED <<config, timers, awaiting, visible, overtaken, byRpc, revived>>
    PROVE  /\ rows' \in Seq(Tasks) /\ IsInjective(rows') /\ Range(others) \subseteq Range(rows)'
           /\ \A t \in Range(rows)' : t.type = "api" => t \in Range(others)
           /\ process' \in [Execs -> EndStatuses \cup {"None", "Running"}]
           /\ state' \in [Execs -> StateStatuses] /\ state'[e] = "Ended"
           /\ \A x \in Execs \ {e} : state'[x] = state[x] /\ process'[x] = process[x]
           /\ process'[e] # "None"
           /\ pending' \subseteq Execs /\ latest' \subseteq Execs
           /\ RowsInv' /\ VisibleInv' /\ CountInv'
<1> USE DEF ProcessorInv
<1> DEFINE b == VisibilityTask(e, status, 0)
<1>1. b \in Tasks /\ b.exec = e /\ b.type = "visibility" /\ b.what = status /\ status # "Running" /\ status # "None"
  <2>1. [completed |-> 0, first |-> 0] \in Infos
    BY BoundAssumption DEF Infos
  <2> QED
    BY <2>1 DEF VisibilityTask, Task, Tasks, EndStatuses
<1>2. rows' = Append(others, b)
  OBVIOUS
<1> HIDE DEF b
<1>3. TasksOK(e) /\ ClosesOK(e) /\ StatusOK(e)
  BY DEF RowsInv, RowsOK
<1>4. \A t \in Range(rows) : t.exec = e /\ t.type = "visibility" /\ t.what # "Running" =>
          t.what # status /\ t.what = "Terminated" /\ ClosesTwice(e) /\ t = VisibilityTask(e, t.what, 0)
  BY <1>1, <1>3 DEF ClosesOK, CanClose, EndStatuses
<1>5. b \notin Range(others)
  BY <1>1, <1>4
<1>6. rows' \in Seq(Tasks) /\ IsInjective(rows') /\ Range(rows)' = Range(others) \cup {b}
  BY <1>1, <1>2, <1>5, AppendFacts
<1>7. /\ process' \in [Execs -> EndStatuses \cup {"None", "Running"}]
      /\ state' \in [Execs -> StateStatuses] /\ state'[e] = "Ended"
      /\ \A x \in Execs \ {e} : state'[x] = state[x] /\ process'[x] = process[x]
      /\ process'[e] = status
  BY DEF Typing, StateStatuses
<1>8. RowsInv'
  <2> SUFFICES ASSUME NEW x \in Execs PROVE RowsOK(x)'
    BY DEF RowsInv
  <2>1. RowsOK(x)
    BY DEF RowsInv
  <2>2. CASE x = e
    <3>1. \A t \in Range(rows)' : IsApi(t, e) => t \in Range(rows)
      BY <1>1, <1>6 DEF IsApi
    <3>2. TasksOK(e)'
      BY <1>3, <1>7, <3>1 DEF TasksOK
    <3>3. ClosesTwice(e) => ClosesTwice(e)'
      BY DEF ClosesTwice
    <3>4. b = VisibilityTask(e, status, 0)
      BY DEF b
    <3>5. ClosesOK(e)'
      BY <1>1, <1>4, <1>6, <1>7, <3>3, <3>4 DEF ClosesOK
    <3>6. StatusOK(e)'
      BY <1>1, <1>3, <1>7 DEF StatusOK, Apis
    <3> QED
      BY <2>2, <3>2, <3>5, <3>6 DEF RowsOK
  <2>3. CASE x # e
    <3>1. \A t \in Range(rows)' : t.exec = x => t \in Range(rows)
      BY <1>1, <1>6, <2>3
    <3> QED
      BY <1>7, <2>1, <2>3, <3>1, RowsOther
  <2> QED
    BY <2>2, <2>3
<1>9. VisibleInv'
  <2>1. KeysUnique'
    BY DEF VisibleInv, KeysUnique
  <2>2. ASSUME NEW x \in Execs PROVE VisibleOK(x)'
    <3>1. VisibleOK(x)
      BY DEF VisibleInv
    <3>2. ClosesTwice(x) => ClosesTwice(x)'
      BY DEF ClosesTwice
    <3>3. CASE x = e
      <4>1. VisibilityTask(e, process'[e], 0) \in Range(rows)'
        BY <1>6, <1>7 DEF b
      <4>2. \A r \in visible : r.id = e => r.status = "Running" \/ ClosesTwice(e)
        BY <3>1, <3>3 DEF VisibleOK, CanClose
      <4> QED
        BY <1>1, <1>7, <3>2, <3>3, <4>1, <4>2 DEF VisibleOK
    <3>4. CASE x # e
      <4>1. VisibilityTask(x, process[x], 0).type = "visibility"
        BY DEF VisibilityTask, Task
      <4>2. VisibilityTask(x, process[x], 0) \in Range(rows) => VisibilityTask(x, process[x], 0) \in Range(rows)'
        BY <4>1, <1>6
      <4> QED
        BY <1>7, <3>1, <3>2, <3>4, <4>2 DEF VisibleOK, CloseRecorded
    <3> QED
      BY <3>3, <3>4
  <2> QED
    BY <2>1, <2>2 DEF VisibleInv
<1>10. CountInv'
  <2> SUFFICES ASSUME NEW t \in Range(rows)' PROVE RowCountOK(t)'
    BY DEF CountInv
  <2>1. CASE t \in Range(rows)
    BY <2>1 DEF CountInv, RowCountOK, PolicyOf
  <2>2. CASE t = b
    BY <2>2, <1>1 DEF RowCountOK
  <2> QED
    BY <2>1, <2>2, <1>6
<1>11. pending' \subseteq Execs /\ latest' \subseteq Execs
  BY DEF Typing
<1> QED
  BY <1>1, <1>6, <1>7, <1>8, <1>9, <1>10, <1>11

(* No worker minds that a state execution ends. *)
LEMMA WorkerEndFrame ==
    ASSUME Typing, Holders, WorkerInv, UNCHANGED <<overtaken, visible>>,
           \A w \in Workers : worker'[w].pc # "idle" => worker'[w] = worker[w],
           \A x \in Execs : state'[x] \in {state[x], "Ended"}
    PROVE  WorkerInv'
<1> SUFFICES ASSUME NEW w \in Workers, worker'[w].pc # "idle" PROVE WorkerOK(w)'
  BY DEF WorkerInv, WorkerOK
<1>1. WorkerOK(w) /\ worker'[w] = worker[w]
  BY DEF WorkerInv
<1>2. TaskOf(w)' = TaskOf(w) /\ TaskOf(w).exec \in Execs
  BY <1>1, ElementFacts DEF Busy, TaskOf, Tasks
<1> QED
  BY <1>1, <1>2 DEF WorkerOK, CloseRecorded

(* A stop, and the end of what TERMINATE_IF_RUNNING replaces. *)
LEMMA TerminatedInv ==
    ASSUME ProcessorInv, NEW e \in Execs, process[e] = "Running",
           process' = [process EXCEPT ![e] = "Terminated"], state' = [state EXCEPT ![e] = "Ended"],
           rows' = Append(rows, VisibilityTask(e, "Terminated", 0)),
           latest' \subseteq latest, \A x \in Execs \ {e} : x \in latest' <=> x \in latest,
           pending' = pending \ {e} \/ (e \notin latest' /\ pending' = pending),
           UNCHANGED <<now, config, timers, awaiting, visible, channel, loaded, worker, token, faults,
                       calls, late, overtaken, byRpc, revived>>
    PROVE  ProcessorInv'
<1> USE DEF ProcessorInv
<1>1. "Terminated" \in EndStatuses /\ CanClose(e, "Terminated")
  BY DEF EndStatuses, CanClose
<1>2. rows \in Seq(Tasks) /\ IsInjective(rows)
  BY DEF Typing, Holders
<1>3. PICK others \in Seq(Tasks) : others = rows
  BY <1>2
<1>4. /\ rows' \in Seq(Tasks) /\ IsInjective(rows') /\ Range(others) \subseteq Range(rows)'
      /\ \A t \in Range(rows)' : t.type = "api" => t \in Range(others)
      /\ process' \in [Execs -> EndStatuses \cup {"None", "Running"}]
      /\ state' \in [Execs -> StateStatuses] /\ state'[e] = "Ended"
      /\ \A x \in Execs \ {e} : state'[x] = state[x] /\ process'[x] = process[x]
      /\ process'[e] # "None"
      /\ pending' \subseteq Execs /\ latest' \subseteq Execs
      /\ RowsInv' /\ VisibleInv' /\ CountInv'
  <2>1. /\ IsInjective(others) /\ Range(others) \subseteq Range(rows)
        /\ \A t \in Range(rows) : t.type = "visibility" => t \in Range(others)
        /\ rows' = Append(others, VisibilityTask(e, "Terminated", 0))
    BY <1>2, <1>3
  <2> QED
    BY <1>1, <2>1, ClosedFacts
<1>5. Typing'
  BY <1>4 DEF Typing
<1>6. Holders'
  BY <1>3, <1>4 DEF Holders, WorkerHolds, Busy, TaskOf
<1>7. WorkerInv'
  BY <1>4, WorkerEndFrame
<1>8. TimerInv'
  BY TimerFrame
<1>9. CallsInv'
  <2> SUFFICES ASSUME NEW x \in Execs PROVE CallsOK(x)'
    BY DEF CallsInv
  <2>1. Undisturbed(x)' => Undisturbed(x)
    BY DEF Undisturbed
  <2>2. process'[x] = "None" => process[x] = "None"
    BY <1>4
  <2>3. \/ state'[x] = "Ended"
        \/ /\ state'[x] = state[x]
           /\ \A t \in Range(rows)' : IsApi(t, x) => t \in Range(rows)
    BY <1>3, <1>4 DEF IsApi
  <2> QED
    BY <2>1, <2>2, <2>3, CallsFrame DEF Held, TaskOf
<1> QED
  BY <1>4, <1>5, <1>6, <1>7, <1>8, <1>9

LEMMA StopInv ==
    ASSUME ProcessorInv, NEW e \in Execs, StopProcess(e)
    PROVE  ProcessorInv'
<1>1. /\ UNCHANGED <<now, config, timers, awaiting, latest, visible, channel, loaded, worker, token, faults,
                     calls, late, overtaken, byRpc, revived>>
      /\ process[e] = "Running"
      /\ process' = [process EXCEPT ![e] = "Terminated"] /\ state' = [state EXCEPT ![e] = "Ended"]
      /\ rows' = Append(rows, VisibilityTask(e, "Terminated", 0)) /\ pending' = pending \ {e}
  BY DEF StopProcess, Closed, history, client
<1> QED
  BY <1>1, TerminatedInv

LEMMA TerminateInv ==
    ASSUME ProcessorInv, NEW e \in Execs, TerminateIfRunning(e)
    PROVE  ProcessorInv'
<1> USE DEF ProcessorInv
<1>1. /\ UNCHANGED <<now, config, timers, pending, awaiting, visible, channel, loaded, worker, token, faults,
                     calls, late, overtaken, byRpc, revived>>
      /\ e \in latest /\ latest' = latest \ {e} /\ state' = [state EXCEPT ![e] = "Ended"]
  BY DEF TerminateIfRunning, history, client
<1>2. CASE process[e] = "Running"
  <2>1. process' = [process EXCEPT ![e] = "Terminated"] /\ rows' = Append(rows, VisibilityTask(e, "Terminated", 0))
    BY <1>2 DEF TerminateIfRunning
  <2> QED
    BY <1>1, <1>2, <2>1, TerminatedInv
<1>3. CASE process[e] # "Running"
  <2>1. UNCHANGED <<process, rows>>
    BY <1>3 DEF TerminateIfRunning
  <2>2. /\ state' \in [Execs -> StateStatuses] /\ state'[e] = "Ended"
        /\ \A x \in Execs \ {e} : state'[x] = state[x]
    BY <1>1 DEF Typing, StateStatuses
  <2>3. Typing'
    BY <1>1, <2>1, <2>2 DEF Typing
  <2>4. Holders' /\ TimerInv' /\ CountInv'
    BY <1>1, <2>1, HoldersFrame, TimerFrame, CountFrame
  <2>5. WorkerInv'
    BY <1>1, <2>2, WorkerEndFrame
  <2>6. VisibleInv'
    BY <1>1, <2>1, VisibleFrame
  <2>7. RowsInv'
    <3> SUFFICES ASSUME NEW x \in Execs PROVE RowsOK(x)'
      BY DEF RowsInv
    <3>1. RowsOK(x)
      BY DEF RowsInv
    <3>2. CASE x = e
      <4>1. TasksOK(e)'
        BY <1>1, <2>1, <2>2, <3>1, <3>2 DEF RowsOK, TasksOK
      <4>2. ClosesOK(e)'
        BY <1>1, <2>1, <3>1, <3>2 DEF RowsOK, ClosesOK, ClosesTwice
      <4>3. StatusOK(e)'
        BY <1>1, <1>3, <2>1, <2>2, <3>1, <3>2 DEF RowsOK, StatusOK, Apis
      <4> QED
        BY <3>2, <4>1, <4>2, <4>3 DEF RowsOK
    <3>3. CASE x # e
      BY <1>1, <2>1, <2>2, <3>1, <3>3, RowsOther
    <3> QED
      BY <3>2, <3>3
  <2>8. CallsInv'
    <3> SUFFICES ASSUME NEW x \in Execs PROVE CallsOK(x)'
      BY DEF CallsInv
    <3>1. Undisturbed(x)' => Undisturbed(x)
      BY <1>1 DEF Undisturbed
    <3>2. state'[x] \in {"Ended", state[x]}
      BY <2>2
    <3> QED
      BY <1>1, <2>1, <3>1, <3>2, CallsFrame DEF Held, TaskOf
  <2> QED
    BY <2>3, <2>4, <2>5, <2>6, <2>7, <2>8
<1> QED
  BY <1>2, <1>3

LEMMA RpcInv ==
    ASSUME ProcessorInv, NEW e \in Execs, CloseByRpc(e)
    PROVE  ProcessorInv'
<1> USE DEF ProcessorInv
<1>1. /\ UNCHANGED <<now, config, rows, timers, awaiting, latest, visible, channel, loaded, worker, token, faults,
                     calls, late, overtaken, revived>>
      /\ byRpc' = byRpc \cup {e} /\ process[e] = "Running" /\ pending' = pending \ {e}
  BY DEF CloseByRpc, client
<1>2. /\ process' \in [Execs -> EndStatuses \cup {"None", "Running"}]
      /\ state' \in [Execs -> StateStatuses] /\ state'[e] = "Ended" /\ process'[e] = "Completed"
      /\ \A x \in Execs \ {e} : state'[x] = state[x] /\ process'[x] = process[x]
  BY DEF CloseByRpc, Typing, StateStatuses, EndStatuses
<1>3. Typing'
  BY <1>1, <1>2 DEF Typing
<1>4. Holders'
  BY <1>1, HoldersFrame
<1>5. RowsInv'
  <2> SUFFICES ASSUME NEW x \in Execs PROVE RowsOK(x)'
    BY DEF RowsInv
  <2>1. RowsOK(x)
    BY DEF RowsInv
  <2>2. CASE x = e
    <3>1. TasksOK(e)'
      BY <1>1, <1>2, <2>1, <2>2 DEF RowsOK, TasksOK
    <3>2. ClosesOK(e)'
      BY <1>1, <2>1, <2>2 DEF RowsOK, ClosesOK, EndStatuses
    <3>3. StatusOK(e)'
      BY <1>1, <1>2, <2>1, <2>2 DEF RowsOK, StatusOK, Apis
    <3> QED
      BY <2>2, <3>1, <3>2, <3>3 DEF RowsOK
  <2>3. CASE x # e
    BY <1>1, <1>2, <2>1, <2>3, RowsOther
  <2> QED
    BY <2>2, <2>3
<1>6. WorkerInv'
  BY <1>1, <1>2, WorkerEndFrame
<1>7. VisibleInv'
  <2>1. KeysUnique'
    BY <1>1 DEF VisibleInv, KeysUnique
  <2>2. ASSUME NEW x \in Execs PROVE VisibleOK(x)'
    <3>1. VisibleOK(x)
      BY DEF VisibleInv
    <3> QED
      BY <1>1, <1>2, <3>1 DEF VisibleOK, ClosesTwice, CloseRecorded
  <2> QED
    BY <2>1, <2>2 DEF VisibleInv
<1>8. TimerInv' /\ CountInv'
  BY <1>1, TimerFrame, CountFrame
<1>9. CallsInv'
  <2> SUFFICES ASSUME NEW x \in Execs PROVE CallsOK(x)'
    BY DEF CallsInv
  <2>1. Undisturbed(x)' => Undisturbed(x)
    BY <1>1 DEF Undisturbed
  <2>2. process'[x] = "None" => process[x] = "None"
    BY <1>2
  <2>3. state'[x] \in {"Ended", state[x]}
    BY <1>2
  <2> QED
    BY <1>1, <2>1, <2>2, <2>3, CallsFrame DEF Held, TaskOf
<1> QED
  BY <1>3, <1>4, <1>5, <1>6, <1>7, <1>8, <1>9

LEMMA ConvertInv ==
    ASSUME ProcessorInv, NEW t \in timers, ConvertTimerTaskToImmediateTask(t)
    PROVE  ProcessorInv'
<1> USE DEF ProcessorInv
<1>1. UNCHANGED <<now, process, state, config, pending, awaiting, latest, visible, channel, loaded, worker, token, faults,
                  calls, late, overtaken, byRpc, revived>> /\ timers' = timers \ {t}
  BY DEF ConvertTimerTaskToImmediateTask, history, client, maps
<1>2. PICK e \in Execs : e = t.exec
  BY DEF Typing, Timers
<1> DEFINE a == ApiTask(t.exec, t.api, t.info)
<1>3. a \in Tasks /\ IsApi(a, e) /\ a.info = t.info /\ a.exec = e /\ a.type = "api"
  BY <1>2 DEF ApiTask, Task, Tasks, Typing, Timers, IsApi
<1>4. rows' = Append(rows, a)
  BY DEF ConvertTimerTaskToImmediateTask
<1> HIDE DEF a
<1>5. TasksOK(e) /\ ClosesOK(e) /\ StatusOK(e)
  BY DEF RowsInv, RowsOK
<1>6. \A s \in Range(rows) : ~IsApi(s, e)
  BY <1>2, <1>5 DEF TasksOK
<1>7. rows' \in Seq(Tasks) /\ IsInjective(rows') /\ Range(rows)' = Range(rows) \cup {a}
  <2>1. a \notin Range(rows) /\ rows \in Seq(Tasks) /\ IsInjective(rows)
    BY <1>3, <1>6 DEF Typing, Holders
  <2> QED
    BY <1>3, <1>4, <2>1, AppendFacts
<1>8. Typing'
  BY <1>1, <1>7 DEF Typing
<1>9. Holders'
  BY <1>1, <1>7 DEF Holders, WorkerHolds, Busy, TaskOf
<1>10. RowsInv'
  <2> SUFFICES ASSUME NEW x \in Execs PROVE RowsOK(x)'
    BY DEF RowsInv
  <2>1. RowsOK(x)
    BY DEF RowsInv
  <2>2. CASE x = e
    <3>1. \A s \in timers' : s.exec # e
      BY <1>1, <1>2, <1>5 DEF TasksOK
    <3>2. \A s \in Range(rows)' : IsApi(s, e) => s = a
      BY <1>6, <1>7
    <3>3. process[e] # "None" /\ e \notin awaiting /\ state[e] # "WaitUntilWaiting"
      BY <1>2, <1>5 DEF StatusOK, TasksOK
    <3>4. \A s \in Range(rows)' : s.type = "visibility" => s \in Range(rows)
      BY <1>3, <1>7
    <3>5. TasksOK(e)'
      BY <1>1, <3>1, <3>2, <3>3 DEF TasksOK
    <3>6. ClosesOK(e)'
      BY <1>1, <1>5, <3>4 DEF ClosesOK, ClosesTwice
    <3>7. StatusOK(e)'
      BY <1>1, <1>5, <3>3 DEF StatusOK
    <3> QED
      BY <2>2, <3>5, <3>6, <3>7 DEF RowsOK
  <2>3. CASE x # e
    <3>1. \A s \in Range(rows)' : s.exec = x => s \in Range(rows)
      BY <1>3, <1>7, <2>3
    <3> QED
      BY <1>1, <2>1, <3>1, RowsOther
  <2> QED
    BY <2>2, <2>3
<1>11. WorkerInv'
  BY <1>1, WorkerFrame
<1>12. VisibleInv'
  BY <1>1, <1>7, VisibleFrame
<1>13. TimerInv'
  BY <1>1, TimerFrame
<1>14. CountInv'
  <2> SUFFICES ASSUME NEW s \in Range(rows)' PROVE RowCountOK(s)'
    BY DEF CountInv
  <2>1. CASE s \in Range(rows)
    BY <1>1, <2>1 DEF CountInv, RowCountOK, PolicyOf
  <2>2. CASE s = a
    <3>1. TimerOK(t)
      BY DEF TimerInv
    <3> QED
      BY <1>1, <1>2, <1>3, <2>2, <3>1 DEF RowCountOK, TimerOK, PolicyOf
  <2> QED
    BY <1>7, <2>1, <2>2
<1>15. CallsInv'
  <2> SUFFICES ASSUME NEW x \in Execs PROVE CallsOK(x)'
    BY DEF CallsInv
  <2>1. Undisturbed(x)' => Undisturbed(x)
    BY <1>1 DEF Undisturbed
  <2>2. CASE x # e
    <3>1. \A s \in Range(rows)' : IsApi(s, x) => s \in Range(rows)
      BY <1>3, <1>7, <2>2 DEF IsApi
    <3> QED
      BY <1>1, <2>1, <3>1, CallsFrame DEF Held, TaskOf
  <2>3. CASE x = e
    <3> SUFFICES ASSUME Undisturbed(e)' PROVE CallsOK(e)'
      BY <2>3 DEF CallsOK
    <3>1. CallsOK(e) /\ Undisturbed(e)
      BY <2>1, <2>3 DEF CallsInv
    <3>2. Match(e, a.info)'
      BY <1>1, <1>2, <1>3, <3>1 DEF CallsOK, Match
    <3>3. \A s \in Range(rows)' : IsApi(s, e) => s = a
      BY <1>6, <1>7
    <3>4. \A c \in Range(channel) : ~IsApi(c.row, e)
      BY <1>6, ElementFacts
    <3>5. \A w \in Workers : worker[w].pc = "calling" => TaskOf(w).exec # e
      BY <1>6, ElementFacts DEF Busy, IsApi, WorkerInv, WorkerOK
    <3>6. \A s \in timers' : s.exec # e
      BY <1>1, <1>2, <1>5 DEF TasksOK
    <3>7. PolicyOf(e)' = PolicyOf(e)
      BY <1>1 DEF PolicyOf
    <3> QED
      BY <1>1, <3>1, <3>2, <3>3, <3>4, <3>5, <3>6, <3>7 DEF CallsOK, TaskOf
  <2> QED
    BY <2>2, <2>3
<1> QED
  BY <1>8, <1>9, <1>10, <1>11, <1>12, <1>13, <1>14, <1>15

(* A step that leaves the store, the calls and the visibility table. *)
LEMMA StoreFrame ==
    ASSUME ProcessorInv, UNCHANGED <<process, state, config, pending, awaiting, latest, rows, timers, visible, calls, late, overtaken, byRpc, revived>>
    PROVE  RowsInv' /\ VisibleInv' /\ TimerInv' /\ CountInv'
<1> USE DEF ProcessorInv
<1> QED
  BY RowsFrame, VisibleFrame, TimerFrame, CountFrame

LEMMA SendInv ==
    ASSUME ProcessorInv, SendTask
    PROVE  ProcessorInv'
<1> USE DEF ProcessorInv
<1>1. UNCHANGED <<now, process, state, config, pending, awaiting, latest, rows, timers, visible, worker, token, faults,
                  calls, late, overtaken, byRpc, revived>>
  BY DEF SendTask, store, history, client, maps
<1>2. PICK i \in DOMAIN rows : /\ rows[i] \notin loaded
                               /\ loaded' = loaded \cup {rows[i]}
                               /\ channel' = Append(channel, Copy(rows[i]))
  BY DEF SendTask
<1>3. PICK t \in Range(rows) : t = rows[i]
  BY DEF Range
<1>4. t \in Tasks /\ t \notin loaded /\ loaded' = loaded \cup {t} /\ channel' = Append(channel, Copy(t))
  BY <1>2, <1>3, ElementFacts
<1>5. PICK c \in Copies : c = Copy(t)
  BY <1>4 DEF Copy, Copies
<1>6. c.row = t /\ c.task = t
  BY <1>5 DEF Copy
<1>7. \A d \in Range(channel) : d.row # t
  BY <1>4 DEF Holders
<1>8. channel' \in Seq(Copies) /\ IsInjective(channel') /\ Range(channel)' = Range(channel) \cup {c}
  <2>1. c \notin Range(channel) /\ channel \in Seq(Copies) /\ IsInjective(channel)
    BY <1>6, <1>7 DEF Typing, Holders
  <2> QED
    BY <1>4, <1>5, <2>1, AppendFacts
<1>9. Typing'
  BY <1>1, <1>8 DEF Typing
<1>10. Holders'
  <2>1. ASSUME NEW w \in Workers PROVE WorkerHolds(w)'
    BY <1>1, <1>4, <1>6, <1>8 DEF Holders, WorkerHolds, Busy, TaskOf
  <2> QED
    BY <1>1, <1>3, <1>4, <1>6, <1>7, <1>8, <2>1 DEF Holders
<1>11. RowsInv' /\ VisibleInv' /\ TimerInv' /\ CountInv'
  BY <1>1, StoreFrame
<1>12. WorkerInv'
  BY <1>1, WorkerFrame
<1>13. CallsInv'
  <2> SUFFICES ASSUME NEW x \in Execs PROVE CallsOK(x)'
    BY DEF CallsInv
  <2>1. Undisturbed(x)' => Undisturbed(x)
    BY <1>1 DEF Undisturbed
  <2>2. \A d \in Range(channel)' : d \in Range(channel) \/ d.task.info = d.row.info
    BY <1>6, <1>8
  <2> QED
    BY <1>1, <2>1, <2>2, CallsFrame DEF Held, TaskOf
<1> QED
  BY <1>9, <1>10, <1>11, <1>12, <1>13

LEMMA TickInv ==
    ASSUME ProcessorInv, Tick
    PROVE  ProcessorInv'
<1> USE DEF ProcessorInv
<1>1. /\ UNCHANGED <<process, state, config, pending, awaiting, latest, rows, timers, visible, channel, loaded, worker,
                     token, faults, calls, late, overtaken, byRpc, revived>>
      /\ now' \in 0..MaxTime
  BY BoundAssumption DEF Tick, store, history, client, maps, Typing
<1>2. Typing'
  BY <1>1 DEF Typing
<1>3. Holders' /\ WorkerInv'
  BY <1>1, HoldersFrame, WorkerFrame
<1>4. RowsInv' /\ VisibleInv' /\ TimerInv' /\ CountInv'
  BY <1>1, StoreFrame
<1>5. CallsInv'
  <2> SUFFICES ASSUME NEW x \in Execs PROVE CallsOK(x)'
    BY DEF CallsInv
  <2>1. Undisturbed(x)' => Undisturbed(x)
    BY <1>1 DEF Undisturbed
  <2> QED
    BY <1>1, <2>1, CallsFrame DEF Held, TaskOf
<1> QED
  BY <1>2, <1>3, <1>4, <1>5

(* A fault: from then on the counts are not compared with the calls. *)
LEMMA CallsAfterFault ==
    ASSUME Typing, faults' = faults + 1
    PROVE  CallsInv'
<1>1. faults' # 0
  BY DEF Typing
<1> QED
  BY <1>1 DEF CallsInv, CallsOK, Undisturbed

LEMMA IdleFacts == Idle \in WorkerStates /\ Idle.pc = "idle"
BY BoundAssumption DEF NoInfo, Infos, Idle, Copy, WorkerStates

LEMMA RestartInv ==
    ASSUME ProcessorInv, Restarts, faults' = faults + 1,
           UNCHANGED <<now, store, visible, client, history>>
    PROVE  ProcessorInv'
<1> USE DEF ProcessorInv
<1>1. /\ UNCHANGED <<now, process, state, config, pending, awaiting, latest, rows, timers, visible, token, calls, late, overtaken, byRpc, revived>>
      /\ channel' = <<>> /\ loaded' = {}
      /\ worker' = [w \in Workers |-> Idle]
  BY DEF Restarts, store, history, client, maps
<1>2. Range(channel)' = {} /\ IsInjective(channel')
  BY <1>1, EmptyRange
<1>3. Typing'
  <2>1. worker' \in [Workers -> WorkerStates] /\ channel' \in Seq(Copies) /\ faults' \in Nat
    BY <1>1, IdleFacts DEF Typing
  <2> QED
    BY <1>1, <2>1 DEF Typing
<1>4. \A w \in Workers : worker'[w].pc = "idle"
  BY <1>1, IdleFacts
<1>5. Holders'
  BY <1>1, <1>2, <1>4 DEF Holders, WorkerHolds, Busy
<1>6. RowsInv' /\ VisibleInv' /\ TimerInv' /\ CountInv'
  BY <1>1, StoreFrame
<1>7. WorkerInv'
  BY <1>4 DEF WorkerInv, WorkerOK
<1>8. CallsInv'
  BY CallsAfterFault
<1> QED
  BY <1>3, <1>5, <1>6, <1>7, <1>8

LEMMA PrepareFailsInv ==
    ASSUME ProcessorInv, PrepareFails
    PROVE  ProcessorInv'
<1> USE DEF ProcessorInv
<1>1. /\ UNCHANGED <<now, process, state, config, pending, awaiting, latest, rows, timers, visible, loaded, worker, token,
                     calls, late, overtaken, byRpc, revived>>
      /\ channel # <<>> /\ channel' = Append(Tail(channel), Head(channel)) /\ faults' = faults + 1
  BY DEF PrepareFails, store, history, client, maps
<1>2. /\ Head(channel) \in Copies /\ Head(channel) \in Range(channel)
      /\ Tail(channel) \in Seq(Copies) /\ IsInjective(Tail(channel))
      /\ Range(Tail(channel)) = Range(channel) \ {Head(channel)}
  BY <1>1, TailFacts DEF Typing, Holders
<1>3. PICK q \in Seq(Copies) : q = Tail(channel)
  BY <1>2
<1>4. PICK c \in Copies : c = Head(channel)
  BY <1>2
<1>5. c \notin Range(q) /\ IsInjective(q) /\ Range(q) \cup {c} = Range(channel)
  BY <1>2, <1>3, <1>4
<1>6. channel' \in Seq(Copies) /\ IsInjective(channel') /\ Range(channel)' = Range(channel)
  <2>1. Append(q, c) \in Seq(Copies) /\ IsInjective(Append(q, c)) /\ Range(Append(q, c)) = Range(q) \cup {c}
    BY <1>5, AppendFacts
  <2> QED
    BY <1>1, <1>3, <1>4, <1>5, <2>1
<1>7. Typing'
  BY <1>1, <1>6 DEF Typing
<1>8. Holders'
  BY <1>1, <1>6 DEF Holders, WorkerHolds, Busy, TaskOf
<1>9. RowsInv' /\ VisibleInv' /\ TimerInv' /\ CountInv'
  BY <1>1, StoreFrame
<1>10. WorkerInv' /\ CallsInv'
  BY <1>1, WorkerFrame, CallsAfterFault
<1> QED
  BY <1>7, <1>8, <1>9, <1>10

(* A worker that is done with its task. *)
LEMMA FinishFacts ==
    ASSUME Typing, NEW w \in Workers, Finish(w)
    PROVE  /\ worker' \in [Workers -> WorkerStates]
           /\ worker'[w].pc = "idle"
           /\ \A v \in Workers \ {w} : worker'[v] = worker[v]
           /\ \A v \in Workers : worker'[v].pc # "idle" => v # w /\ worker'[v] = worker[v]
           /\ \A t : Held(t) /\ t # TaskOf(w) => Held(t)'
<1>1. worker' = [worker EXCEPT ![w] = Idle] /\ worker \in [Workers -> WorkerStates]
  BY DEF Finish, Typing
<1>2. /\ worker' \in [Workers -> WorkerStates]
      /\ worker'[w].pc = "idle"
      /\ \A v \in Workers \ {w} : worker'[v] = worker[v]
  BY <1>1, IdleFacts
<1>3. ASSUME NEW t, Held(t), t # TaskOf(w) PROVE Held(t)'
  <2>1. PICK v \in Workers : worker[v].pc = "calling" /\ TaskOf(v) = t
    BY <1>3 DEF Held
  <2>2. v # w
    BY <1>3, <2>1
  <2>3. worker'[v] = worker[v]
    BY <1>2, <2>2
  <2> QED
    BY <2>1, <2>3 DEF Held, TaskOf
<1> QED
  BY <1>2, <1>3

(* A task goes back to the channel. *)
LEMMA PutBackFacts ==
    ASSUME ProcessorInv, NEW w \in Workers, Busy(w), PutBack(w),
           UNCHANGED <<now, store, visible, loaded, client, calls, overtaken, byRpc, revived>>,
           faults' \in Nat
    PROVE  /\ Typing' /\ Holders' /\ RowsInv' /\ WorkerInv' /\ TimerInv' /\ CountInv'
           /\ VisibleInv'
           /\ Range(channel)' = Range(channel) \cup {worker[w].copy}
<1> USE DEF ProcessorInv
<1>1. /\ UNCHANGED <<now, process, state, config, pending, awaiting, latest, rows, timers, visible, loaded, token,
                     calls, overtaken, byRpc, revived>>
      /\ Finish(w) /\ channel' = Append(channel, worker[w].copy)
  BY DEF PutBack, store, client, maps
<1>2. /\ worker' \in [Workers -> WorkerStates]
      /\ worker'[w].pc = "idle"
      /\ \A v \in Workers \ {w} : worker'[v] = worker[v]
      /\ \A v \in Workers : worker'[v].pc # "idle" => v # w /\ worker'[v] = worker[v]
  BY <1>1, FinishFacts
<1>3. TaskOf(w) \in Tasks /\ worker[w].copy.row = TaskOf(w)
  BY ElementFacts DEF TaskOf
<1>4. PICK c \in Copies : c = worker[w].copy
  BY <1>3 DEF Typing, WorkerStates, Copies
<1>5. c.row = TaskOf(w) /\ \A d \in Range(channel) : d.row # c.row
  BY <1>3, <1>4 DEF Holders, WorkerHolds
<1>6. channel' \in Seq(Copies) /\ IsInjective(channel') /\ Range(channel)' = Range(channel) \cup {c}
  <2>1. c \notin Range(channel) /\ channel \in Seq(Copies) /\ IsInjective(channel)
    BY <1>5 DEF Typing, Holders
  <2> QED
    BY <1>1, <1>4, <2>1, AppendFacts
<1>7. Typing'
  BY <1>1, <1>2, <1>6 DEF Typing
<1>8. Holders'
  <2>1. ASSUME NEW v \in Workers PROVE WorkerHolds(v)'
    <3> SUFFICES ASSUME Busy(v)' PROVE WorkerHolds(v)'
      BY DEF WorkerHolds
    <3>1. v # w /\ worker'[v] = worker[v] /\ Busy(v) /\ TaskOf(v)' = TaskOf(v)
      BY <1>2 DEF Busy, TaskOf
    <3>2. WorkerHolds(v)
      BY DEF Holders
    <3>3. \A u \in Workers : Busy(u)' => Busy(u) /\ TaskOf(u)' = TaskOf(u)
      BY <1>2 DEF Busy, TaskOf
    <3>4. TaskOf(v) # TaskOf(w)
      BY <3>1, <3>2 DEF WorkerHolds
    <3> QED
      BY <1>1, <1>5, <1>6, <3>1, <3>2, <3>3, <3>4 DEF WorkerHolds
  <2>2. TaskOf(w) \in loaded
    BY DEF Holders, WorkerHolds
  <2> QED
    BY <1>1, <1>5, <1>6, <2>1, <2>2 DEF Holders
<1>9. WorkerInv'
  BY <1>1, <1>2, WorkerEndFrame
<1>10. RowsInv' /\ VisibleInv' /\ TimerInv' /\ CountInv'
  BY <1>1, RowsFrame, VisibleFrame, TimerFrame, CountFrame
<1> QED
  BY <1>4, <1>6, <1>7, <1>8, <1>9, <1>10

LEMMA ConflictInv ==
    ASSUME ProcessorInv, NEW w \in Workers, Conflict(w)
    PROVE  ProcessorInv'
<1> USE DEF ProcessorInv
<1>1. /\ UNCHANGED <<now, store, visible, loaded, client, faults, calls, late, overtaken, byRpc, revived>>
      /\ PutBack(w) /\ Busy(w) /\ worker[w].pc = "calling" /\ (~NotModified(w) \/ TaskOf(w).exec \notin pending)
      /\ faults' \in Nat
  BY DEF Conflict, history, client, maps, Busy, Typing
<1>2. /\ Typing' /\ Holders' /\ RowsInv' /\ WorkerInv' /\ TimerInv' /\ CountInv' /\ VisibleInv'
      /\ Range(channel)' = Range(channel) \cup {worker[w].copy}
  BY <1>1, PutBackFacts
<1>3. PICK e \in Execs : e = TaskOf(w).exec
  BY <1>1, ElementFacts DEF Tasks
<1>4. state[e] = "Ended" \/ e \in revived
  <2>1. WorkerOK(w) /\ StatusOK(e)
    BY DEF WorkerInv, RowsInv, RowsOK
  <2> QED
    BY <1>1, <1>3, <2>1 DEF WorkerOK, NotModified, StatusOK
<1>5. /\ \A v \in Workers : worker'[v].pc # "idle" => v # w /\ worker'[v] = worker[v]
      /\ \A t : Held(t) /\ t # TaskOf(w) => Held(t)'
  BY <1>1, FinishFacts DEF PutBack
<1>6. CallsInv'
  <2> SUFFICES ASSUME NEW x \in Execs PROVE CallsOK(x)'
    BY DEF CallsInv
  <2>1. UNCHANGED <<config, calls, timers, process, state, rows>>
    BY <1>1 DEF store, client, maps
  <2>2. Undisturbed(x)' => Undisturbed(x)
    BY <1>1, <2>1 DEF Undisturbed
  <2>3. CASE x = e
    BY <1>1, <1>4, <2>1, <2>2, <2>3, CallsFrame
  <2>4. CASE x # e
    <3>1. ~IsApi(worker[w].copy.row, x)
      BY <1>3, <2>4 DEF IsApi, TaskOf
    <3>2. \A c \in Range(channel)' : IsApi(c.row, x) => c \in Range(channel)
      BY <1>2, <3>1
    <3>3. \A t : IsApi(t, x) => t # TaskOf(w)
      BY <1>3, <2>4 DEF IsApi
    <3>4. \A v \in Workers : worker'[v].pc = "calling" /\ TaskOf(v)'.exec = x =>
                worker[v].pc = "calling" /\ TaskOf(v).exec = x /\ worker'[v].info = worker[v].info
      BY <1>5 DEF TaskOf
    <3> QED
      BY <1>5, <2>1, <2>2, <3>2, <3>3, <3>4, CallsFrame
  <2> QED
    BY <2>3, <2>4
<1> QED
  BY <1>2, <1>6

LEMMA DatabaseErrorInv ==
    ASSUME ProcessorInv, NEW w \in Workers, DatabaseError(w)
    PROVE  ProcessorInv'
<1> USE DEF ProcessorInv
<1>1. /\ UNCHANGED <<now, store, visible, loaded, client, calls, overtaken, byRpc, revived>>
      /\ PutBack(w) /\ Busy(w) /\ faults' = faults + 1 /\ faults' \in Nat
  BY DEF DatabaseError, history, client, maps, Busy, Typing
<1>2. Typing' /\ Holders' /\ RowsInv' /\ WorkerInv' /\ TimerInv' /\ CountInv' /\ VisibleInv'
  BY <1>1, PutBackFacts
<1> QED
  BY <1>1, <1>2, CallsAfterFault

LEMMA ExecuteTimesOutInv ==
    ASSUME ProcessorInv, NEW w \in Workers, ExecuteTimesOut(w)
    PROVE  ProcessorInv'
<1> USE DEF ProcessorInv
<1>1. /\ UNCHANGED <<now, store, visible, loaded, client, faults, calls, overtaken, byRpc, revived>>
      /\ PutBack(w) /\ Busy(w) /\ faults' \in Nat /\ late' = late \cup {TaskOf(w).exec}
  BY DEF ExecuteTimesOut, ApiFailed, Busy, Typing
<1>2. /\ Typing' /\ Holders' /\ RowsInv' /\ WorkerInv' /\ TimerInv' /\ CountInv' /\ VisibleInv'
      /\ Range(channel)' = Range(channel) \cup {worker[w].copy}
  BY <1>1, PutBackFacts
<1>3. PICK e \in Execs : e = TaskOf(w).exec
  BY <1>1, ElementFacts DEF Tasks
<1>4. /\ \A v \in Workers : worker'[v].pc # "idle" => v # w /\ worker'[v] = worker[v]
      /\ \A t : Held(t) /\ t # TaskOf(w) => Held(t)'
  BY <1>1, FinishFacts DEF PutBack
<1>5. CallsInv'
  <2> SUFFICES ASSUME NEW x \in Execs PROVE CallsOK(x)'
    BY DEF CallsInv
  <2>1. UNCHANGED <<config, calls, timers, process, state, rows>>
    BY <1>1 DEF store, client, maps
  <2>2. Undisturbed(x)' => Undisturbed(x)
    BY <1>1, <2>1 DEF Undisturbed
  <2>3. CASE x = e
    BY <1>1, <1>3, <2>3 DEF CallsOK, Undisturbed
  <2>4. CASE x # e
    <3>1. ~IsApi(worker[w].copy.row, x)
      BY <1>3, <2>4 DEF IsApi, TaskOf
    <3>2. \A c \in Range(channel)' : IsApi(c.row, x) => c \in Range(channel)
      BY <1>2, <3>1
    <3>3. \A t : IsApi(t, x) => t # TaskOf(w)
      BY <1>3, <2>4 DEF IsApi
    <3>4. \A v \in Workers : worker'[v].pc = "calling" /\ TaskOf(v)'.exec = x =>
                worker[v].pc = "calling" /\ TaskOf(v).exec = x /\ worker'[v].info = worker[v].info
      BY <1>4 DEF TaskOf
    <3> QED
      BY <1>4, <2>1, <2>2, <3>2, <3>3, <3>4, CallsFrame
  <2> QED
    BY <2>3, <2>4
<1> QED
  BY <1>2, <1>5

LEMMA RecordStartAgainInv ==
    ASSUME ProcessorInv, NEW w \in Workers, RecordStartAgain(w)
    PROVE  ProcessorInv'
<1> USE DEF ProcessorInv
<1>1. /\ UNCHANGED <<now, store, visible, loaded, client, faults, calls, late, overtaken, byRpc, revived>>
      /\ PutBack(w) /\ Busy(w) /\ worker[w].pc = "recording" /\ faults' \in Nat
  BY DEF RecordStartAgain, history, client, maps, Busy, Typing
<1>2. /\ Typing' /\ Holders' /\ RowsInv' /\ WorkerInv' /\ TimerInv' /\ CountInv' /\ VisibleInv'
      /\ Range(channel)' = Range(channel) \cup {worker[w].copy}
  BY <1>1, PutBackFacts
<1>3. TaskOf(w).type = "visibility"
  BY <1>1 DEF WorkerInv, WorkerOK
<1>4. /\ \A v \in Workers : worker'[v].pc # "idle" => v # w /\ worker'[v] = worker[v]
      /\ \A t : Held(t) /\ t # TaskOf(w) => Held(t)'
  BY <1>1, FinishFacts DEF PutBack
<1>5. CallsInv'
  <2> SUFFICES ASSUME NEW x \in Execs PROVE CallsOK(x)'
    BY DEF CallsInv
  <2>1. UNCHANGED <<config, calls, timers, process, state, rows>>
    BY <1>1 DEF store, client, maps
  <2>2. Undisturbed(x)' => Undisturbed(x)
    BY <1>1, <2>1 DEF Undisturbed
  <2>3. ~IsApi(worker[w].copy.row, x)
    BY <1>3 DEF IsApi, TaskOf
  <2>4. \A c \in Range(channel)' : IsApi(c.row, x) => c \in Range(channel)
    BY <1>2, <2>3
  <2>5. \A t : IsApi(t, x) => t # TaskOf(w)
    BY <1>3 DEF IsApi
  <2>6. \A v \in Workers : worker'[v].pc = "calling" /\ TaskOf(v)'.exec = x =>
              worker[v].pc = "calling" /\ TaskOf(v).exec = x /\ worker'[v].info = worker[v].info
    BY <1>4 DEF TaskOf
  <2> QED
    BY <1>4, <2>1, <2>2, <2>4, <2>5, <2>6, CallsFrame
<1> QED
  BY <1>2, <1>5

(* A worker takes the first task of the channel. *)
LEMMA TakeFacts ==
    ASSUME ProcessorInv, NEW w \in Workers, TakeTask(w)
    PROVE  /\ worker[w].pc = "idle" /\ channel # <<>> /\ channel' = Tail(channel)
           /\ Head(channel) \in Copies /\ Head(channel) \in Range(channel)
           /\ Head(channel).row \in Range(rows) /\ Head(channel).row \in loaded
           /\ channel' \in Seq(Copies) /\ IsInjective(channel')
           /\ Range(channel)' = Range(channel) \ {Head(channel)}
           /\ \A v \in Workers : Busy(v) => TaskOf(v) # Head(channel).row
<1> USE DEF ProcessorInv
<1>1. worker[w].pc = "idle" /\ channel # <<>> /\ channel' = Tail(channel)
  BY DEF TakeTask, FirstIdle
<1>2. /\ Head(channel) \in Copies /\ Head(channel) \in Range(channel)
      /\ Tail(channel) \in Seq(Copies) /\ IsInjective(Tail(channel))
      /\ Range(Tail(channel)) = Range(channel) \ {Head(channel)}
  BY <1>1, TailFacts DEF Typing, Holders
<1>3. /\ Head(channel).row \in Range(rows) /\ Head(channel).row \in loaded
      /\ \A v \in Workers : Busy(v) => TaskOf(v) # Head(channel).row
  BY <1>2, ElementFacts DEF Holders, WorkerHolds
<1> QED
  BY <1>1, <1>2, <1>3

(* It holds the task that it took. *)
LEMMA TakenHolders ==
    ASSUME ProcessorInv, NEW w \in Workers, TakeTask(w),
           worker'[w].pc # "idle", worker'[w].copy.row = Head(channel).row,
           \A v \in Workers \ {w} : worker'[v] = worker[v], UNCHANGED <<rows, loaded>>
    PROVE  Holders'
<1> USE DEF ProcessorInv
<1> DEFINE c == Head(channel)
<1>1. /\ c \in Range(channel) /\ c.row \in loaded
      /\ IsInjective(channel') /\ Range(channel)' = Range(channel) \ {c}
      /\ \A v \in Workers : Busy(v) => TaskOf(v) # c.row
  BY TakeFacts
<1> HIDE DEF c
<1>2. TaskOf(w)' = c.row /\ Busy(w)'
  BY DEF TaskOf, Busy, c
<1>3. \A v \in Workers \ {w} : TaskOf(v)' = TaskOf(v) /\ (Busy(v)' <=> Busy(v))
  BY DEF TaskOf, Busy
<1>4. ASSUME NEW v \in Workers PROVE WorkerHolds(v)'
  <2> SUFFICES ASSUME Busy(v)' PROVE WorkerHolds(v)'
    BY DEF WorkerHolds
  <2>1. CASE v = w
    <3>1. \A d \in Range(channel)' : d.row # c.row
      BY <1>1 DEF Holders
    <3>2. \A u \in Workers : Busy(u)' /\ TaskOf(u)' = c.row => u = w
      BY <1>1, <1>3
    <3> QED
      BY <1>1, <1>2, <2>1, <3>1, <3>2 DEF WorkerHolds
  <2>2. CASE v # w
    <3>1. WorkerHolds(v) /\ Busy(v) /\ TaskOf(v)' = TaskOf(v) /\ TaskOf(v) # c.row
      BY <1>1, <1>3, <2>2 DEF Holders
    <3>2. \A u \in Workers : Busy(u)' /\ TaskOf(u)' = TaskOf(v) => u = v
      BY <1>2, <1>3, <3>1 DEF WorkerHolds
    <3> QED
      BY <1>1, <3>1, <3>2 DEF WorkerHolds
  <2> QED
    BY <2>1, <2>2
<1> QED
  BY <1>1, <1>4 DEF Holders

LEMMA TakeVisibilityInv ==
    ASSUME ProcessorInv, NEW w \in Workers, TakeTask(w), Head(channel).row.type = "visibility"
    PROVE  ProcessorInv'
<1> USE DEF ProcessorInv
<1> DEFINE c == Head(channel)
<1>1. /\ UNCHANGED <<now, process, state, config, pending, awaiting, latest, rows, timers, visible, loaded, token, faults,
                     calls, late, overtaken, byRpc, revived>>
      /\ worker' = [worker EXCEPT ![w] = [Idle EXCEPT !.pc = "recording", !.copy = c]]
  BY DEF TakeTask, store, client, maps
<1>2. /\ worker[w].pc = "idle" /\ c \in Copies /\ c.row \in Range(rows)
      /\ channel' \in Seq(Copies)
      /\ Range(channel)' = Range(channel) \ {c}
  BY TakeFacts
<1>3. c.row.type = "visibility"
  OBVIOUS
<1> HIDE DEF c
<1>4. PICK new \in WorkerStates : /\ new = [Idle EXCEPT !.pc = "recording", !.copy = c]
                                  /\ new.pc = "recording" /\ new.copy = c
  <2>1. /\ [Idle EXCEPT !.pc = "recording", !.copy = c].pc = "recording"
        /\ [Idle EXCEPT !.pc = "recording", !.copy = c].copy = c
        /\ [Idle EXCEPT !.pc = "recording", !.copy = c] \in WorkerStates
    BY <1>2, IdleFacts DEF WorkerStates, Copies
  <2> QED
    BY <2>1
<1>5. /\ worker' \in [Workers -> WorkerStates] /\ worker'[w] = new
      /\ \A v \in Workers \ {w} : worker'[v] = worker[v]
  BY <1>1, <1>4 DEF Typing
<1>6. Typing'
  BY <1>1, <1>2, <1>5 DEF Typing
<1>7. Holders'
  BY <1>1, <1>4, <1>5, TakenHolders DEF c
<1>8. RowsInv' /\ VisibleInv' /\ TimerInv' /\ CountInv'
  BY <1>1, StoreFrame
<1>9. WorkerInv'
  <2> SUFFICES ASSUME NEW v \in Workers PROVE WorkerOK(v)'
    BY DEF WorkerInv
  <2>1. CASE v = w
    BY <1>3, <1>4, <1>5, <2>1 DEF WorkerOK, TaskOf
  <2>2. CASE v # w
    BY <1>1, <1>5, <2>2 DEF WorkerInv, WorkerOK, TaskOf, CloseRecorded
  <2> QED
    BY <2>1, <2>2
<1>10. CallsInv'
  <2> SUFFICES ASSUME NEW x \in Execs PROVE CallsOK(x)'
    BY DEF CallsInv
  <2>1. Undisturbed(x)' => Undisturbed(x)
    BY <1>1 DEF Undisturbed
  <2>2. \A t : Held(t) => Held(t)'
    BY <1>2, <1>5 DEF Held, TaskOf
  <2>3. \A v \in Workers : worker'[v].pc = "calling" /\ TaskOf(v)'.exec = x =>
            worker[v].pc = "calling" /\ TaskOf(v).exec = x /\ worker'[v].info = worker[v].info
    BY <1>4, <1>5 DEF TaskOf
  <2> QED
    BY <1>1, <1>2, <2>1, <2>2, <2>3, CallsFrame
<1> QED
  BY <1>6, <1>7, <1>8, <1>9, <1>10

LEMMA TakeEndedInv ==
    ASSUME ProcessorInv, NEW w \in Workers, TakeTask(w),
           Head(channel).row.type = "api", state[Head(channel).row.exec] \notin Apis
    PROVE  ProcessorInv'
<1> USE DEF ProcessorInv
<1> DEFINE c == Head(channel)
<1>1. /\ UNCHANGED <<now, process, state, config, pending, awaiting, latest, rows, timers, visible, worker, loaded, token, faults,
                     calls, late, overtaken, byRpc, revived>>
  BY DEF TakeTask, store, client, maps
<1>2. /\ c \in Copies /\ c.row \in Range(rows) /\ c.row \in loaded
      /\ channel' \in Seq(Copies) /\ c \in Range(channel) /\ IsInjective(channel')
      /\ Range(channel)' = Range(channel) \ {c}
      /\ \A v \in Workers : Busy(v) => TaskOf(v) # c.row
  BY TakeFacts
<1>3. c.row.type = "api"
  OBVIOUS
<1> HIDE DEF c
<1>4. Typing'
  BY <1>1, <1>2 DEF Typing
<1>5. Holders'
  <2>1. \A d \in Range(channel)' : d.row # c.row /\ d.row \in loaded
    BY <1>2 DEF Holders
  <2>2. ASSUME NEW v \in Workers PROVE WorkerHolds(v)'
    BY <1>1, <1>2 DEF Holders, WorkerHolds, Busy, TaskOf
  <2> QED
    BY <1>1, <1>2, <1>3, <2>1, <2>2 DEF Holders
<1>6. RowsInv' /\ VisibleInv' /\ TimerInv' /\ CountInv'
  BY <1>1, StoreFrame
<1>7. WorkerInv'
  BY <1>1, WorkerFrame
<1>8. CallsInv'
  <2> SUFFICES ASSUME NEW x \in Execs PROVE CallsOK(x)'
    BY DEF CallsInv
  <2>1. Undisturbed(x)' => Undisturbed(x)
    BY <1>1 DEF Undisturbed
  <2> QED
    BY <1>1, <1>2, <2>1, CallsFrame DEF Held, TaskOf
<1> QED
  BY <1>4, <1>5, <1>6, <1>7, <1>8

(* The worker as it calls the API. *)
LEMMA CallingFacts ==
    ASSUME Typing, NEW c \in Copies
    PROVE  /\ Calling(c) \in WorkerStates
           /\ Calling(c).pc = "calling" /\ Calling(c).copy.row = c.row
           /\ Calling(c).api = state[c.row.exec]
           /\ Calling(c).info = Attempt(c.task.info)
           /\ Attempt(c.task.info) \in Infos
           /\ Attempt(c.task.info).completed = c.task.info.completed + 1
           /\ c.task.info.completed # 0 => Attempt(c.task.info).first = c.task.info.first
           /\ c.task.info.completed = 0 => Attempt(c.task.info).first = now
<1>1. PICK info \in Infos : info = c.task.info
  <2>1. NoTask.info \in Infos
    BY BoundAssumption DEF NoTask, ApiTask, Task, NoInfo, Infos
  <2> QED
    BY <2>1 DEF Copies, Tasks
<1>2. /\ Attempt(info) \in Infos
      /\ Attempt(info).completed = info.completed + 1
      /\ info.completed # 0 => Attempt(info).first = info.first
      /\ info.completed = 0 => Attempt(info).first = now
  <2>1. CASE HasInfo(info)
    BY <2>1 DEF Attempt, HasInfo, Infos
  <2>2. CASE ~HasInfo(info)
    BY <2>2 DEF Attempt, HasInfo, Infos, Typing
  <2> QED
    BY <2>1, <2>2
<1>3. PICK attempt \in Infos : attempt = Attempt(info)
  BY <1>2
<1> DEFINE copy == IF HasInfo(info) THEN [c EXCEPT !.task.info = attempt] ELSE c
<1>4. copy \in Copies /\ copy.row = c.row
  <2>1. CASE HasInfo(info)
    <3>1. c.task \in Tasks
      BY <1>1, <2>1 DEF HasInfo, Copies, NoTask, ApiTask, Task, NoInfo
    <3>2. [c.task EXCEPT !.info = attempt] \in Tasks
      BY <3>1 DEF Tasks
    <3> QED
      BY <2>1, <3>2 DEF Copies
  <2>2. CASE ~HasInfo(info)
    BY <2>2
  <2> QED
    BY <2>1, <2>2
<1>5. Calling(c) = [pc |-> "calling", copy |-> copy, api |-> state[c.row.exec], info |-> attempt]
  BY <1>1, <1>3 DEF Calling
<1> HIDE DEF copy
<1>6. c.row.exec \in Execs /\ state[c.row.exec] \in StateStatuses
  BY DEF Copies, Tasks, Typing
<1>7. Calling(c) \in WorkerStates
  BY <1>4, <1>5, <1>6 DEF WorkerStates, Copies
<1> QED
  BY <1>1, <1>2, <1>3, <1>4, <1>5, <1>7

LEMMA TakeApiInv ==
    ASSUME ProcessorInv, NEW w \in Workers, TakeTask(w),
           Head(channel).row.type = "api", state[Head(channel).row.exec] \in Apis
    PROVE  ProcessorInv'
<1> USE DEF ProcessorInv
<1> DEFINE c == Head(channel)
<1>1. /\ UNCHANGED <<now, process, state, config, pending, awaiting, latest, rows, timers, visible, loaded, token, faults,
                     late, overtaken, byRpc, revived>>
      /\ worker' = [worker EXCEPT ![w] = Calling(c)]
      /\ calls' = [calls EXCEPT ![c.row.exec] = CallsMade(c.row.exec)]
  BY DEF TakeTask, store, client, maps
<1>2. /\ worker[w].pc = "idle" /\ c \in Copies /\ c.row \in Range(rows)
      /\ channel' \in Seq(Copies) /\ c \in Range(channel)
      /\ Range(channel)' = Range(channel) \ {c}
      /\ \A v \in Workers : Busy(v) => TaskOf(v) # c.row
  BY TakeFacts
<1>3. c.row.type = "api" /\ state[c.row.exec] \in Apis
  OBVIOUS
<1> HIDE DEF c
<1>4. PICK e \in Execs : e = c.row.exec
  BY <1>2 DEF Copies, Tasks
<1>5. IsApi(c.row, e)
  BY <1>3, <1>4 DEF IsApi
<1>6. PICK new \in WorkerStates : new = Calling(c)
  BY <1>2, CallingFacts
<1>7. /\ new.pc = "calling" /\ new.copy.row = c.row /\ new.api = state[e]
      /\ new.info \in Infos /\ new.info.completed = c.task.info.completed + 1
      /\ c.task.info.completed # 0 => new.info.first = c.task.info.first
      /\ c.task.info.completed = 0 => new.info.first = now
  BY <1>2, <1>4, <1>6, CallingFacts
<1>8. /\ worker' \in [Workers -> WorkerStates] /\ worker'[w] = new
      /\ \A v \in Workers \ {w} : worker'[v] = worker[v]
  BY <1>1, <1>6 DEF Typing
<1>9. PICK made \in [count : 0..MaxCompleted, first : 0..MaxTime] : made = CallsMade(e)
  <2>1. calls[e].count \in 0..MaxCompleted /\ calls[e].first \in 0..MaxTime /\ now \in 0..MaxTime
    BY DEF Typing
  <2>2. (IF calls[e].count < MaxCompleted THEN calls[e].count + 1 ELSE MaxCompleted) \in 0..MaxCompleted
    BY <2>1, BoundAssumption
  <2>3. (IF calls[e].count = 0 THEN now ELSE calls[e].first) \in 0..MaxTime
    BY <2>1
  <2> QED
    BY <2>2, <2>3 DEF CallsMade
<1>10. /\ made.count \in Nat /\ made.count > 0 /\ calls[e].count \in Nat /\ made.count <= calls[e].count + 1
       /\ calls[e].count = 0 => made.first = now
       /\ calls[e].count > 0 => made.first = calls[e].first
  <2>1. calls[e].count \in 0..MaxCompleted /\ calls[e].count \in Nat
    BY DEF Typing
  <2>2. /\ made.count = IF calls[e].count < MaxCompleted THEN calls[e].count + 1 ELSE MaxCompleted
        /\ made.first = IF calls[e].count = 0 THEN now ELSE calls[e].first
    BY <1>9 DEF CallsMade
  <2> QED
    BY <2>1, <2>2, BoundAssumption
<1>11. /\ calls' \in [Execs -> [count : 0..MaxCompleted, first : 0..MaxTime]]
       /\ calls'[e] = made /\ \A x \in Execs \ {e} : calls'[x] = calls[x]
  BY <1>1, <1>4, <1>9 DEF Typing
<1>12. Typing'
  BY <1>1, <1>2, <1>8, <1>11 DEF Typing
<1>13. Holders'
  BY <1>1, <1>7, <1>8, TakenHolders DEF c
<1>14. RowsInv' /\ VisibleInv' /\ TimerInv' /\ CountInv'
  BY <1>1, RowsFrame, VisibleFrame, TimerFrame, CountFrame
<1>15. TasksOK(e) /\ StatusOK(e)
  BY DEF RowsInv, RowsOK
<1>16. state[e] \in Apis /\ state[e] # "Ended" /\ state[e] # "WaitUntilWaiting"
  BY <1>3, <1>4 DEF Apis
<1>17. c.task.info.completed \in Nat
  <2>1. NoTask.info.completed = 0
    BY DEF NoTask, ApiTask, Task, NoInfo
  <2> QED
    BY <1>2, <2>1 DEF Copies, Tasks, Infos
<1>18. WorkerInv'
  <2> SUFFICES ASSUME NEW v \in Workers PROVE WorkerOK(v)'
    BY DEF WorkerInv
  <2>1. CASE v = w
    <3>1. TaskOf(v)' = c.row /\ worker'[v] = new
      BY <1>7, <1>8, <2>1 DEF TaskOf
    <3> QED
      BY <1>1, <1>3, <1>4, <1>7, <1>16, <1>17, <3>1 DEF WorkerOK
  <2>2. CASE v # w
    BY <1>1, <1>8, <2>2 DEF WorkerInv, WorkerOK, TaskOf, CloseRecorded
  <2> QED
    BY <2>1, <2>2
<1>19. CallsInv'
  <2> SUFFICES ASSUME NEW x \in Execs PROVE CallsOK(x)'
    BY DEF CallsInv
  <2>1. Undisturbed(x)' => Undisturbed(x)
    BY <1>1 DEF Undisturbed
  <2>2. CASE x # e
    <3>1. \A t : Held(t) => Held(t)'
      BY <1>2, <1>8 DEF Held, TaskOf
    <3>2. \A v \in Workers : worker'[v].pc = "calling" /\ TaskOf(v)'.exec = x =>
            worker[v].pc = "calling" /\ TaskOf(v).exec = x /\ worker'[v].info = worker[v].info
      BY <1>4, <1>7, <1>8, <2>2 DEF TaskOf
    <3>3. calls'[x] = calls[x]
      BY <1>11, <2>2
    <3> QED
      BY <1>1, <1>2, <2>1, <3>1, <3>2, <3>3, CallsFrame
  <2>3. CASE x = e
    <3> SUFFICES ASSUME Undisturbed(e)' PROVE CallsOK(e)'
      BY <2>3 DEF CallsOK
    <3>1. CallsOK(e) /\ Undisturbed(e)
      BY <2>1, <2>3 DEF CallsInv
    <3>2. ~Held(c.row)
      BY <1>2 DEF Held, Busy
    <3>3. Match(e, c.row.info) /\ c.task.info = c.row.info
      BY <1>2, <1>5, <1>16, <3>1, <3>2 DEF CallsOK
    <3>4. Match(e, new.info)'
      BY <1>7, <1>10, <1>11, <1>17, <3>3 DEF Match
    <3>5. PICK taken \in Range(rows) : taken = c.row
      BY <1>2
    <3>6. Held(taken)'
      BY <1>7, <1>8, <3>5 DEF Held, TaskOf
    <3>13. \A t \in Range(rows)' : IsApi(t, e) => t = taken
      BY <1>1, <1>5, <1>15, <3>5 DEF TasksOK
    <3>7. \A d \in Range(channel)' : IsApi(d.row, e) => d.task.info = d.row.info
      BY <1>2, <1>16, <3>1 DEF CallsOK
    <3>8. \A v \in Workers : worker'[v].pc = "calling" /\ TaskOf(v)'.exec = e => worker'[v].info = new.info
      <4> SUFFICES ASSUME NEW v \in Workers, v # w, worker'[v].pc = "calling", TaskOf(v)'.exec = e PROVE FALSE
        BY <1>8
      <4>1. worker[v].pc = "calling" /\ TaskOf(v).exec = e /\ Busy(v)
        BY <1>8 DEF TaskOf, Busy
      <4>2. IsApi(TaskOf(v), e) /\ TaskOf(v) \in Range(rows)
        BY <4>1, ElementFacts DEF WorkerInv, WorkerOK, IsApi
      <4> QED
        BY <1>1, <1>2, <3>5, <3>13, <4>1, <4>2
    <3>9. \A t \in timers : t.exec # e
      BY <1>2, <1>5, <1>15 DEF TasksOK
    <3>10. process[e] # "None"
      BY <1>2, <1>4, <1>15 DEF StatusOK
    <3>11. PolicyOf(e).MaximumAttempts \in Int /\ PolicyOf(e)' = PolicyOf(e)
      BY <1>1, <3>1, PolicyFacts DEF Undisturbed, Typing, PolicyOf
    <3>12. PolicyOf(e).MaximumAttempts > 0 => made.count <= PolicyOf(e).MaximumAttempts
      <4>1. RowCountOK(c.row)
        BY <1>2 DEF CountInv
      <4>2. PolicyOf(e).MaximumAttempts > 0 => c.row.info.completed < PolicyOf(e).MaximumAttempts
        BY <1>3, <1>4, <3>1, <4>1 DEF RowCountOK, Undisturbed
      <4>3. calls[e].count <= c.row.info.completed /\ c.row.info.completed \in Nat
        BY <3>3, <1>17 DEF Match
      <4> QED
        BY <1>10, <3>11, <4>2, <4>3
    <3> QED
      BY <1>1, <1>11, <1>16, <3>4, <3>6, <3>7, <3>8, <3>9, <3>10, <3>11, <3>12, <3>13 DEF CallsOK
  <2> QED
    BY <2>2, <2>3
<1> QED
  BY <1>12, <1>13, <1>14, <1>18, <1>19

LEMMA TakeInv ==
    ASSUME ProcessorInv, NEW w \in Workers, TakeTask(w)
    PROVE  ProcessorInv'
BY TakeVisibilityInv, TakeApiInv, TakeEndedInv DEF TakeTask

(* The worker that calls an API has the one task of the execution. *)
LEMMA CallerAlone ==
    ASSUME ProcessorInv, NEW w \in Workers, worker[w].pc = "calling", NEW e \in Execs, TaskOf(w).exec = e
    PROVE  /\ TaskOf(w) \in Range(rows) /\ IsApi(TaskOf(w), e)
           /\ \A s \in Range(rows) : IsApi(s, e) => s = TaskOf(w)
           /\ \A s \in timers : s.exec # e
           /\ \A c \in Range(channel) : ~IsApi(c.row, e)
           /\ \A v \in Workers : worker[v].pc = "calling" /\ TaskOf(v).exec = e => v = w
           /\ process[e] # "None" /\ e \notin awaiting /\ state[e] # "WaitUntilWaiting"
<1> USE DEF ProcessorInv
<1>1. Busy(w) /\ TaskOf(w) \in Range(rows) /\ IsApi(TaskOf(w), e)
  BY ElementFacts DEF Busy, IsApi, WorkerInv, WorkerOK
<1>2. TasksOK(e) /\ StatusOK(e)
  BY DEF RowsInv, RowsOK
<1>3. /\ \A s \in Range(rows) : IsApi(s, e) => s = TaskOf(w)
      /\ \A s \in timers : s.exec # e
      /\ e \notin awaiting /\ state[e] # "WaitUntilWaiting"
  BY <1>1, <1>2 DEF TasksOK
<1>6. process[e] # "None"
  BY <1>1, <1>2 DEF StatusOK, IsApi
<1>4. \A c \in Range(channel) : ~IsApi(c.row, e)
  BY <1>1, <1>3, ElementFacts DEF Holders, WorkerHolds
<1>5. ASSUME NEW v \in Workers, worker[v].pc = "calling", TaskOf(v).exec = e PROVE v = w
  <2>1. Busy(v) /\ TaskOf(v) \in Range(rows) /\ IsApi(TaskOf(v), e)
    BY <1>5, ElementFacts DEF Busy, IsApi, WorkerInv, WorkerOK
  <2>2. TaskOf(v) = TaskOf(w)
    BY <1>3, <2>1
  <2> QED
    BY <1>1, <2>1, <2>2 DEF Holders, WorkerHolds
<1> QED
  BY <1>1, <1>3, <1>4, <1>5, <1>6

(* The worker's row is deleted, or the queue told that it is done. *)
LEMMA DeletedHolders ==
    ASSUME ProcessorInv, NEW w \in Workers, Busy(w), CommitDeleted(w), IsInjective(rows'),
           \A t \in Range(rows) : t # TaskOf(w) => t \in Range(rows)'
    PROVE  Holders'
<1> USE DEF ProcessorInv
<1>1. PICK task \in Range(rows) : task = TaskOf(w)
  BY ElementFacts
<1>2. Finish(w) /\ loaded' = loaded \ {task} /\ UNCHANGED channel
  BY <1>1 DEF CommitDeleted
<1>3. \A v \in Workers : worker'[v].pc # "idle" => v # w /\ worker'[v] = worker[v]
  BY <1>2, FinishFacts
<1>4. task \in loaded /\ \A c \in Range(channel) : c.row # task
  BY <1>1 DEF Holders, WorkerHolds
<1>5. ASSUME NEW v \in Workers PROVE WorkerHolds(v)'
  <2> SUFFICES ASSUME Busy(v)' PROVE WorkerHolds(v)'
    BY DEF WorkerHolds
  <2>1. v # w /\ Busy(v) /\ TaskOf(v)' = TaskOf(v) /\ WorkerHolds(v)
    BY <1>3 DEF Busy, TaskOf, Holders
  <2>2. TaskOf(v) # task
    BY <1>1, <2>1 DEF WorkerHolds
  <2>3. \A u \in Workers : Busy(u)' => Busy(u) /\ TaskOf(u)' = TaskOf(u)
    BY <1>3 DEF Busy, TaskOf
  <2> QED
    BY <1>2, <2>1, <2>2, <2>3 DEF WorkerHolds
<1> QED
  BY <1>1, <1>2, <1>4, <1>5 DEF Holders

LEMMA CommittedHolders ==
    ASSUME ProcessorInv, NEW w \in Workers, worker[w].pc = "calling", Commit(w), IsInjective(rows'),
           \A t \in Range(rows) : t \in Range(rows)'
    PROVE  Holders'
<1> USE DEF ProcessorInv
<1>1. Busy(w)
  BY DEF Busy
<1>2. PICK task \in Range(rows) : task = TaskOf(w)
  BY <1>1, ElementFacts
<1>3. Finish(w) /\ UNCHANGED <<channel, loaded>>
  BY DEF Commit
<1>4. \A v \in Workers : worker'[v].pc # "idle" => v # w /\ worker'[v] = worker[v]
  BY <1>3, FinishFacts
<1>5. task \in loaded /\ (\A c \in Range(channel) : c.row # task) /\ task.type = "api"
  BY <1>1, <1>2 DEF Holders, WorkerHolds, WorkerInv, WorkerOK
<1>6. ASSUME NEW v \in Workers PROVE WorkerHolds(v)'
  <2> SUFFICES ASSUME Busy(v)' PROVE WorkerHolds(v)'
    BY DEF WorkerHolds
  <2>1. v # w /\ Busy(v) /\ TaskOf(v)' = TaskOf(v) /\ WorkerHolds(v)
    BY <1>4 DEF Busy, TaskOf, Holders
  <2>2. TaskOf(v) # task
    BY <1>1, <1>2, <2>1 DEF WorkerHolds
  <2>3. \A u \in Workers : Busy(u)' => Busy(u) /\ TaskOf(u)' = TaskOf(u)
    BY <1>4 DEF Busy, TaskOf
  <2> QED
    BY <1>3, <2>1, <2>2, <2>3 DEF WorkerHolds
<1> QED
  BY <1>2, <1>3, <1>5, <1>6 DEF Holders

(* The other executions do not notice. *)
LEMMA OtherCalls ==
    ASSUME ProcessorInv, NEW w \in Workers, Finish(w), NEW x \in Execs,
           TaskOf(w).exec # x \/ TaskOf(w).type = "visibility",
           UNCHANGED <<config, channel, faults, late>>, revived \subseteq revived', calls'[x] = calls[x],
           process'[x] = process[x], state'[x] = state[x],
           \A t \in timers' : t.exec = x => t \in timers,
           \A t \in Range(rows)' : IsApi(t, x) => t \in Range(rows)
    PROVE  CallsOK(x)'
<1> USE DEF ProcessorInv
<1>1. Undisturbed(x)' => Undisturbed(x)
  BY DEF Undisturbed
<1>2. /\ \A v \in Workers : worker'[v].pc # "idle" => v # w /\ worker'[v] = worker[v]
      /\ \A t : Held(t) /\ t # TaskOf(w) => Held(t)'
  BY FinishFacts
<1>3. \A t : IsApi(t, x) => t # TaskOf(w)
  BY DEF IsApi
<1>4. \A v \in Workers : worker'[v].pc = "calling" /\ TaskOf(v)'.exec = x =>
          worker[v].pc = "calling" /\ TaskOf(v).exec = x /\ worker'[v].info = worker[v].info
  BY <1>2 DEF TaskOf
<1> QED
  BY <1>1, <1>2, <1>3, <1>4, CallsFrame

(* What the start of Execute does to the store, whoever causes it. *)
LEMMA ExecuteFacts ==
    ASSUME ProcessorInv, NEW e \in Execs, process[e] # "None",
           NEW others \in Seq(Tasks), IsInjective(others), Range(others) \subseteq Range(rows),
           \A t \in Range(rows) : t.type = "visibility" => t \in Range(others),
           \A t \in Range(others) : ~IsApi(t, e), \A t \in timers : t.exec # e,
           Execute(e, others), GoesOn(e),
           UNCHANGED <<process, config, timers, pending, latest, visible, overtaken, byRpc>>
    PROVE  /\ rows' \in Seq(Tasks) /\ IsInjective(rows') /\ Range(others) \subseteq Range(rows)'
           /\ \A t \in Range(rows)' : IsApi(t, e) => t.info = NoInfo
           /\ \A t \in Range(rows)' : t.exec # e => t \in Range(others)
           /\ state' \in [Execs -> StateStatuses] /\ state'[e] = "ExecuteRunning"
           /\ \A x \in Execs \ {e} : state'[x] = state[x]
           /\ awaiting' \subseteq Execs /\ revived \subseteq revived'
           /\ RowsInv' /\ VisibleInv' /\ CountInv'
<1> USE DEF ProcessorInv
<1> DEFINE a == ApiTask(e, "ExecuteRunning", NoInfo)
<1>1. a \in Tasks /\ IsApi(a, e) /\ a.info = NoInfo /\ a.exec = e /\ a.type = "api"
  <2>1. NoInfo \in Infos
    BY BoundAssumption DEF NoInfo, Infos
  <2> QED
    BY <2>1 DEF ApiTask, Task, Tasks, Apis, IsApi
<1>2. rows' = Append(others, a) /\ awaiting' = awaiting \ {e} /\ state' = [state EXCEPT ![e] = "ExecuteRunning"]
  BY DEF Execute
<1> HIDE DEF a
<1>3. rows' \in Seq(Tasks) /\ IsInjective(rows') /\ Range(rows)' = Range(others) \cup {a}
  <2>1. a \notin Range(others)
    BY <1>1
  <2> QED
    BY <1>1, <1>2, <2>1, AppendFacts
<1>4. /\ state' \in [Execs -> StateStatuses] /\ state'[e] = "ExecuteRunning"
      /\ \A x \in Execs \ {e} : state'[x] = state[x]
  BY <1>2 DEF Typing, StateStatuses
<1>5. /\ revived \subseteq revived' /\ (state[e] = "Ended" => e \in revived')
      /\ \A x \in Execs \ {e} : x \in revived' <=> x \in revived
  BY DEF GoesOn
<1>6. RowsInv'
  <2> SUFFICES ASSUME NEW x \in Execs PROVE RowsOK(x)'
    BY DEF RowsInv
  <2>1. RowsOK(x)
    BY DEF RowsInv
  <2>2. CASE x = e
    <3>1. \A t \in Range(rows)' : IsApi(t, e) => t = a
      BY <1>3
    <3>2. TasksOK(e)'
      BY <1>2, <1>4, <3>1 DEF TasksOK
    <3>3. \A t \in Range(rows)' : t.type = "visibility" => t \in Range(rows)
      BY <1>1, <1>3
    <3>4. ClosesOK(e)'
      BY <1>5, <2>1, <2>2, <3>3 DEF RowsOK, ClosesOK, ClosesTwice
    <3>5. state[e] \in Apis \cup {"WaitUntilWaiting", "Ended"}
      BY <2>1, <2>2 DEF RowsOK, StatusOK, Typing, StateStatuses, Apis
    <3>6. StatusOK(e)'
      BY <1>2, <1>4, <1>5, <2>1, <2>2, <3>5 DEF RowsOK, StatusOK
    <3> QED
      BY <2>2, <3>2, <3>4, <3>6 DEF RowsOK
  <2>3. CASE x # e
    <3>1. \A t \in Range(rows)' : t.exec = x => t \in Range(rows)
      BY <1>1, <1>3, <2>3
    <3> QED
      BY <1>2, <1>4, <1>5, <2>1, <2>3, <3>1, RowsOther
  <2> QED
    BY <2>2, <2>3
<1>7. VisibleInv'
  BY <1>3, <1>5, VisibleFrame
<1>8. CountInv'
  <2> SUFFICES ASSUME NEW t \in Range(rows)' PROVE RowCountOK(t)'
    BY DEF CountInv
  <2>1. CASE t \in Range(rows)
    BY <2>1 DEF CountInv, RowCountOK, PolicyOf
  <2>2. CASE t = a
    BY <1>1, <2>2 DEF RowCountOK, NoInfo
  <2> QED
    BY <1>3, <2>1, <2>2
<1>9. /\ \A t \in Range(rows)' : IsApi(t, e) => t.info = NoInfo
      /\ \A t \in Range(rows)' : t.exec # e => t \in Range(others)
  BY <1>1, <1>3
<1>10. awaiting' \subseteq Execs
  BY <1>2 DEF Typing
<1> QED
  BY <1>3, <1>4, <1>5, <1>6, <1>7, <1>8, <1>9, <1>10

(* Nothing was called yet: no task of the execution counts an attempt. *)
LEMMA FreshCalls ==
    ASSUME Typing, NEW e \in Execs, config' = config,
           Undisturbed(e)' => calls'[e].count = 0, process'[e] # "None",
           \A t \in timers' : t.exec # e,
           \A t \in Range(rows)' : IsApi(t, e) => t.info = NoInfo,
           \A c \in Range(channel)' : ~IsApi(c.row, e),
           \A v \in Workers : worker'[v].pc = "calling" => TaskOf(v)'.exec # e
    PROVE  CallsOK(e)'
<1> SUFFICES ASSUME Undisturbed(e)' PROVE CallsOK(e)'
  BY DEF CallsOK
<1>1. Match(e, NoInfo)'
  BY DEF Match, NoInfo
<1>2. PolicyOf(e)' = PolicyOf(e) /\ PolicyOf(e).MaximumAttempts \in Int
  BY PolicyFacts DEF Undisturbed, Typing, PolicyOf
<1> QED
  BY <1>1, <1>2 DEF CallsOK

(* A wait ends: a timer fires or messages come. *)
LEMMA WaitEnds ==
    ASSUME ProcessorInv, NEW e \in Execs, process[e] # "None", e \in awaiting \/ state[e] = "WaitUntilWaiting",
           Execute(e, rows), GoesOn(e),
           UNCHANGED <<now, process, config, timers, pending, latest, visible, channel, loaded, worker, token, faults,
                       calls, late, overtaken, byRpc>>
    PROVE  ProcessorInv'
<1> USE DEF ProcessorInv
<1>1. TasksOK(e) /\ StatusOK(e)
  BY DEF RowsInv, RowsOK
<1>2. (\A t \in Range(rows) : ~IsApi(t, e)) /\ (\A t \in timers : t.exec # e)
  BY <1>1 DEF TasksOK
<1>3. PICK others \in Seq(Tasks) : others = rows
  BY DEF Typing
<1>4. /\ rows' \in Seq(Tasks) /\ IsInjective(rows') /\ Range(others) \subseteq Range(rows)'
      /\ \A t \in Range(rows)' : IsApi(t, e) => t.info = NoInfo
      /\ \A t \in Range(rows)' : t.exec # e => t \in Range(others)
      /\ state' \in [Execs -> StateStatuses] /\ state'[e] = "ExecuteRunning"
      /\ \A x \in Execs \ {e} : state'[x] = state[x]
      /\ awaiting' \subseteq Execs /\ revived \subseteq revived'
      /\ RowsInv' /\ VisibleInv' /\ CountInv'
  <2>1. /\ IsInjective(others) /\ Range(others) \subseteq Range(rows) /\ Execute(e, others)
        /\ \A t \in Range(rows) : t.type = "visibility" => t \in Range(others)
        /\ \A t \in Range(others) : ~IsApi(t, e)
    BY <1>2, <1>3 DEF Holders
  <2> QED
    BY <1>2, <2>1, ExecuteFacts
<1>5. Typing'
  BY <1>4 DEF Typing
<1>6. Holders'
  BY <1>3, <1>4 DEF Holders, WorkerHolds, Busy, TaskOf
<1>7. \A v \in Workers : worker[v].pc = "calling" => TaskOf(v).exec \in Execs /\ TaskOf(v).exec # e
  BY <1>2, ElementFacts DEF Busy, IsApi, WorkerInv, WorkerOK, Tasks
<1>8. WorkerInv'
  <2> SUFFICES ASSUME NEW v \in Workers PROVE WorkerOK(v)'
    BY DEF WorkerInv
  <2>1. WorkerOK(v) /\ TaskOf(v)' = TaskOf(v)
    BY DEF WorkerInv, TaskOf
  <2> QED
    BY <1>4, <1>7, <2>1 DEF WorkerOK, CloseRecorded
<1>9. TimerInv'
  BY TimerFrame
<1>10. CallsInv'
  <2> SUFFICES ASSUME NEW x \in Execs PROVE CallsOK(x)'
    BY DEF CallsInv
  <2>1. Undisturbed(x)' => Undisturbed(x)
    BY <1>4 DEF Undisturbed
  <2>2. CASE x # e
    <3>1. \A t \in Range(rows)' : IsApi(t, x) => t \in Range(rows)
      BY <1>3, <1>4, <2>2 DEF IsApi
    <3> QED
      BY <1>4, <2>1, <2>2, <3>1, CallsFrame DEF Held, TaskOf
  <2>3. CASE x = e
    <3>1. ASSUME Undisturbed(e)' PROVE calls'[e].count = 0
      <4>1. Undisturbed(e) /\ CallsOK(e)
        BY <2>1, <2>3, <3>1 DEF CallsInv
      <4>2. state[e] # "Ended"
        BY <3>1 DEF Undisturbed, GoesOn
      <4>3. state[e] = "WaitUntilWaiting"
        BY <1>1, <4>2 DEF StatusOK
      <4> QED
        BY <4>1, <4>3 DEF CallsOK
    <3>2. \A c \in Range(channel)' : ~IsApi(c.row, e)
      BY <1>2, ElementFacts
    <3>3. \A v \in Workers : worker'[v].pc = "calling" => TaskOf(v)'.exec # e
      BY <1>7 DEF TaskOf
    <3> QED
      BY <1>2, <1>4, <2>3, <3>1, <3>2, <3>3, FreshCalls
  <2> QED
    BY <2>2, <2>3
<1> QED
  BY <1>4, <1>5, <1>6, <1>8, <1>9, <1>10

LEMMA FireInv ==
    ASSUME ProcessorInv, NEW e \in Execs, FireTimerCommand(e)
    PROVE  ProcessorInv'
<1>1. /\ state[e] = "WaitUntilWaiting" /\ Execute(e, rows) /\ revived' = revived
      /\ UNCHANGED <<now, process, config, timers, pending, latest, visible, channel, loaded, worker, token, faults,
                     calls, late, overtaken, byRpc>>
  BY DEF FireTimerCommand, history, client
<1>2. GoesOn(e)
  BY <1>1 DEF GoesOn
<1>3. process[e] # "None"
  BY <1>1 DEF ProcessorInv, RowsInv, RowsOK, StatusOK
<1> QED
  BY <1>1, <1>2, <1>3, WaitEnds

LEMMA MessagesInv ==
    ASSUME ProcessorInv, NEW e \in Execs, ProcessLocalQueueMessages(e)
    PROVE  ProcessorInv'
<1>1. /\ e \in awaiting /\ Execute(e, rows) /\ GoesOn(e)
      /\ UNCHANGED <<now, process, config, timers, pending, latest, visible, channel, loaded, worker, token, faults,
                     calls, late, overtaken, byRpc>>
  BY DEF ProcessLocalQueueMessages, client
<1>2. process[e] # "None"
  BY <1>1 DEF ProcessorInv, RowsInv, RowsOK, StatusOK
<1> QED
  BY <1>1, <1>2, WaitEnds

(* WaitUntil has returned: the worker is done, its row deleted, and the    *)
(* state execution waits or goes on.                                       *)
WaitUntilDone(w, e) ==
    /\ CallReturns(w, "WaitUntilRunning")
    /\ e = TaskOf(w).exec
    /\ \/ /\ state' = [state EXCEPT ![e] = "WaitUntilWaiting"]
          /\ awaiting' \in {awaiting, awaiting \cup {e}}
          /\ rows' = Without({TaskOf(w)})
       \/ Execute(e, Without({TaskOf(w)}))
    /\ GoesOn(e)
    /\ calls' = [calls EXCEPT ![e] = NoCalls]
    /\ CommitDeleted(w)
    /\ UNCHANGED <<now, process, config, timers, pending, latest, visible, token, faults, late, overtaken, byRpc>>

LEMMA WaitUntilDoneInv ==
    ASSUME ProcessorInv, NEW w \in Workers, NEW e \in Execs, WaitUntilDone(w, e)
    PROVE  ProcessorInv'
<1> USE DEF ProcessorInv
<1>1. /\ worker[w].pc = "calling" /\ CommitDeleted(w) /\ Finish(w) /\ Busy(w) /\ GoesOn(e)
      /\ calls' = [calls EXCEPT ![e] = NoCalls] /\ TaskOf(w).exec = e
      /\ UNCHANGED <<now, process, config, timers, pending, latest, visible, token, faults, late, overtaken, byRpc,
                     channel>>
  BY DEF WaitUntilDone, CallReturns, CommitDeleted, Busy
<1>2. PICK task \in Tasks : task = TaskOf(w)
  BY <1>1, ElementFacts
<1>3. /\ task \in Range(rows) /\ IsApi(task, e)
      /\ \A s \in Range(rows) : IsApi(s, e) => s = task
      /\ \A s \in timers : s.exec # e
      /\ \A c \in Range(channel) : ~IsApi(c.row, e)
      /\ \A v \in Workers : worker[v].pc = "calling" /\ TaskOf(v).exec = e => v = w
      /\ process[e] # "None"
  BY <1>1, <1>2, CallerAlone
<1>4. PICK kept \in Seq(Tasks) : kept = Without({task}) /\ IsInjective(kept) /\ Range(kept) = Range(rows) \ {task}
  <2>1. /\ Without({task}) \in Seq(Tasks) /\ IsInjective(Without({task}))
        /\ Range(Without({task})) = Range(rows) \ {task}
    BY WithoutFacts DEF Typing, Holders
  <2> QED
    BY <2>1
<1>5. /\ \A t \in Range(rows) : t.type = "visibility" => t \in Range(kept)
      /\ \A t \in Range(kept) : ~IsApi(t, e)
      /\ Range(kept) \subseteq Range(rows)
  BY <1>3, <1>4 DEF IsApi
<1>6. /\ revived \subseteq revived' /\ (state[e] = "Ended" => e \in revived')
      /\ \A x \in Execs \ {e} : x \in revived' <=> x \in revived
  BY <1>1 DEF GoesOn
<1>7. /\ rows' \in Seq(Tasks) /\ IsInjective(rows') /\ Range(kept) \subseteq Range(rows)'
      /\ \A t \in Range(rows)' : IsApi(t, e) => t.info = NoInfo
      /\ \A t \in Range(rows)' : t.exec # e => t \in Range(kept)
      /\ state' \in [Execs -> StateStatuses]
      /\ \A x \in Execs \ {e} : state'[x] = state[x]
      /\ awaiting' \subseteq Execs
      /\ RowsInv' /\ VisibleInv' /\ CountInv'
  <2>1. CASE Execute(e, kept)
    BY <1>1, <1>3, <1>4, <1>5, <2>1, ExecuteFacts
  <2>2. CASE /\ state' = [state EXCEPT ![e] = "WaitUntilWaiting"]
             /\ awaiting' \in {awaiting, awaiting \cup {e}}
             /\ rows' = kept
    <3>1. /\ state' \in [Execs -> StateStatuses] /\ state'[e] = "WaitUntilWaiting"
          /\ \A x \in Execs \ {e} : state'[x] = state[x]
      BY <2>2 DEF Typing, StateStatuses
    <3>2. Range(rows)' = Range(kept) /\ awaiting' \subseteq Execs
      BY <2>2 DEF Typing
    <3>3. RowsInv'
      <4> SUFFICES ASSUME NEW x \in Execs PROVE RowsOK(x)'
        BY DEF RowsInv
      <4>1. RowsOK(x)
        BY DEF RowsInv
      <4>2. CASE x = e
        <5>1. TasksOK(e)'
          BY <1>1, <1>3, <1>5, <3>2 DEF TasksOK
        <5>2. ClosesOK(e)'
          BY <1>1, <1>5, <1>6, <3>2, <4>1, <4>2 DEF RowsOK, ClosesOK, ClosesTwice
        <5>3. state[e] \in Apis \cup {"WaitUntilWaiting", "Ended"}
          BY <1>3, <4>1, <4>2 DEF RowsOK, StatusOK, Typing, StateStatuses, Apis
        <5>4. StatusOK(e)'
          BY <1>1, <1>3, <1>6, <3>1, <4>1, <4>2, <5>3 DEF RowsOK, StatusOK
        <5> QED
          BY <4>2, <5>1, <5>2, <5>4 DEF RowsOK
      <4>3. CASE x # e
        <5>1. x \in awaiting' <=> x \in awaiting
          BY <2>2, <4>3
        <5> QED
          BY <1>1, <1>5, <1>6, <3>1, <3>2, <4>1, <4>3, <5>1, RowsOther
      <4> QED
        BY <4>2, <4>3
    <3>4. VisibleInv'
      BY <1>1, <1>5, <1>6, <3>2, VisibleFrame
    <3>5. CountInv'
      BY <1>1, <1>5, <3>2, CountFrame
    <3> QED
      BY <1>4, <1>5, <2>2, <3>1, <3>2, <3>3, <3>4, <3>5
  <2> QED
    BY <1>2, <1>4, <2>1, <2>2 DEF WaitUntilDone
<1>8. /\ calls' \in [Execs -> [count : 0..MaxCompleted, first : 0..MaxTime]]
      /\ calls'[e].count = 0 /\ \A x \in Execs \ {e} : calls'[x] = calls[x]
  BY <1>1, BoundAssumption DEF Typing, NoCalls
<1>9. /\ worker' \in [Workers -> WorkerStates]
      /\ \A v \in Workers : worker'[v].pc # "idle" => v # w /\ worker'[v] = worker[v]
  BY <1>1, FinishFacts
<1>10. Typing'
  BY <1>1, <1>7, <1>8, <1>9 DEF Typing
<1>11. Holders'
  BY <1>1, <1>2, <1>4, <1>7, DeletedHolders
<1>12. WorkerInv'
  <2> SUFFICES ASSUME NEW v \in Workers, worker'[v].pc # "idle" PROVE WorkerOK(v)'
    BY DEF WorkerInv, WorkerOK
  <2>1. v # w /\ worker'[v] = worker[v] /\ TaskOf(v)' = TaskOf(v) /\ Busy(v) /\ WorkerOK(v)
    BY <1>9 DEF TaskOf, Busy, WorkerInv
  <2>2. worker[v].pc = "calling" => TaskOf(v).exec \in Execs /\ TaskOf(v).exec # e
    BY <1>3, <2>1, ElementFacts DEF Tasks
  <2> QED
    BY <1>1, <1>7, <2>1, <2>2 DEF WorkerOK, CloseRecorded
<1>13. TimerInv'
  BY <1>1, TimerFrame
<1>14. CallsInv'
  <2> SUFFICES ASSUME NEW x \in Execs PROVE CallsOK(x)'
    BY DEF CallsInv
  <2>1. CASE x # e
    <3>1. \A s \in Range(rows)' : IsApi(s, x) => s \in Range(rows)
      BY <1>5, <1>7, <2>1 DEF IsApi
    <3> QED
      BY <1>1, <1>6, <1>7, <1>8, <2>1, <3>1, OtherCalls
  <2>2. CASE x = e
    <3>1. \A v \in Workers : worker'[v].pc = "calling" => TaskOf(v)'.exec # e
      BY <1>3, <1>9 DEF TaskOf
    <3> QED
      BY <1>1, <1>3, <1>7, <1>8, <2>2, <3>1, FreshCalls
  <2> QED
    BY <2>1, <2>2
<1> QED
  BY <1>7, <1>10, <1>11, <1>12, <1>13, <1>14

LEMMA WaitUntilInv ==
    ASSUME ProcessorInv, NEW w \in Workers, CompleteWaitUntilExecution(w) \/ UpdateWaitUntilExecution(w)
    PROVE  ProcessorInv'
<1>1. PICK e \in Execs : e = TaskOf(w).exec
  <2>1. Busy(w)
    BY DEF CompleteWaitUntilExecution, UpdateWaitUntilExecution, CallReturns, Busy
  <2> QED
    BY <2>1, ElementFacts DEF Tasks, ProcessorInv
<1>2. CASE CompleteWaitUntilExecution(w)
  <2>1. state[e] = "WaitUntilRunning" /\ revived' = revived
    BY <1>1, <1>2 DEF CompleteWaitUntilExecution, CallReturns, NotModified
  <2>2. GoesOn(e)
    BY <2>1 DEF GoesOn
  <2>3. WaitUntilDone(w, e)
    BY <1>1, <1>2, <2>2 DEF CompleteWaitUntilExecution, WaitUntilDone, client
  <2> QED
    BY <2>3, WaitUntilDoneInv
<1>3. CASE UpdateWaitUntilExecution(w)
  <2>1. WaitUntilDone(w, e)
    BY <1>1, <1>3 DEF UpdateWaitUntilExecution, WaitUntilDone, client
  <2> QED
    BY <2>1, WaitUntilDoneInv
<1> QED
  BY <1>2, <1>3

LEMMA ExecuteReturnsInv ==
    ASSUME ProcessorInv, NEW w \in Workers, ExecuteReturns(w)
    PROVE  ProcessorInv'
<1> USE DEF ProcessorInv
<1>1. /\ worker[w].pc = "calling" /\ worker[w].api = "ExecuteRunning" /\ NotModified(w)
      /\ CommitDeleted(w) /\ Finish(w) /\ Busy(w)
      /\ UNCHANGED <<now, config, timers, awaiting, latest, visible, token, faults, calls, late, overtaken, byRpc, revived,
                     channel>>
  BY DEF ExecuteReturns, CallReturns, CommitDeleted, Busy, history, client
<1>2. PICK task \in Tasks : task = TaskOf(w)
  BY <1>1, ElementFacts
<1>3. PICK e \in Execs : e = task.exec
  BY <1>2 DEF Tasks
<1>4. /\ task \in Range(rows) /\ IsApi(task, e) /\ process[e] # "None"
  BY <1>1, <1>2, <1>3, CallerAlone
<1>5. CanClose(e, "Completed")
  <2>1. StatusOK(e) /\ state[e] = "ExecuteRunning" /\ e \in pending
    BY <1>1, <1>2, <1>3 DEF RowsInv, RowsOK, NotModified, ExecuteReturns
  <2> QED
    BY <2>1 DEF StatusOK, Apis, CanClose, ClosesTwice
<1>6. PICK kept \in Seq(Tasks) : kept = Without({task}) /\ IsInjective(kept) /\ Range(kept) = Range(rows) \ {task}
  <2>1. /\ Without({task}) \in Seq(Tasks) /\ IsInjective(Without({task}))
        /\ Range(Without({task})) = Range(rows) \ {task}
    BY WithoutFacts DEF Typing, Holders
  <2> QED
    BY <2>1
<1>7. /\ process' = [process EXCEPT ![e] = "Completed"] /\ state' = [state EXCEPT ![e] = "Ended"]
      /\ pending' = pending \ {e} /\ rows' = Append(kept, VisibilityTask(e, "Completed", 0))
      /\ "Completed" \in EndStatuses
  BY <1>2, <1>3, <1>6 DEF ExecuteReturns, Closed, EndStatuses
<1>8. \A t \in Range(rows) : t.type = "visibility" => t \in Range(kept)
  BY <1>4, <1>6 DEF IsApi
<1>9. /\ rows' \in Seq(Tasks) /\ IsInjective(rows') /\ Range(kept) \subseteq Range(rows)'
      /\ \A t \in Range(rows)' : t.type = "api" => t \in Range(kept)
      /\ process' \in [Execs -> EndStatuses \cup {"None", "Running"}]
      /\ state' \in [Execs -> StateStatuses] /\ state'[e] = "Ended"
      /\ \A x \in Execs \ {e} : state'[x] = state[x] /\ process'[x] = process[x]
      /\ process'[e] # "None"
      /\ pending' \subseteq Execs /\ latest' \subseteq Execs
      /\ RowsInv' /\ VisibleInv' /\ CountInv'
  <2>1. Range(kept) \subseteq Range(rows) /\ IsInjective(kept)
    BY <1>6
  <2> QED
    BY <1>1, <1>5, <1>7, <1>8, <2>1, ClosedFacts
<1>10. /\ worker' \in [Workers -> WorkerStates]
       /\ \A v \in Workers : worker'[v].pc # "idle" => v # w /\ worker'[v] = worker[v]
  BY <1>1, FinishFacts
<1>11. Typing'
  BY <1>1, <1>9, <1>10 DEF Typing
<1>12. Holders'
  BY <1>1, <1>2, <1>6, <1>9, DeletedHolders
<1>13. WorkerInv'
  BY <1>1, <1>9, <1>10, WorkerEndFrame
<1>14. TimerInv'
  BY <1>1, TimerFrame
<1>15. CallsInv'
  <2> SUFFICES ASSUME NEW x \in Execs PROVE CallsOK(x)'
    BY DEF CallsInv
  <2>1. CASE x # e
    <3>1. \A s \in Range(rows)' : IsApi(s, x) => s \in Range(rows)
      BY <1>6, <1>9 DEF IsApi
    <3>2. TaskOf(w).exec # x
      BY <1>2, <1>3, <2>1
    <3> QED
      BY <1>1, <1>9, <2>1, <3>1, <3>2, OtherCalls
  <2>2. CASE x = e
    <3>1. Undisturbed(e)' => Undisturbed(e)
      BY <1>1 DEF Undisturbed
    <3> QED
      BY <1>1, <1>9, <2>2, <3>1, CallsFrame
  <2> QED
    BY <2>1, <2>2
<1> QED
  BY <1>9, <1>11, <1>12, <1>13, <1>14, <1>15

LEMMA FailProcessInv ==
    ASSUME ProcessorInv, NEW w \in Workers, FailProcess(w)
    PROVE  ProcessorInv'
<1> USE DEF ProcessorInv
<1>1. /\ worker[w].pc = "calling" /\ Commit(w) /\ Finish(w) /\ Busy(w)
      /\ UNCHANGED <<now, config, timers, awaiting, latest, visible, token, faults, calls, late, overtaken, byRpc, revived,
                     channel, loaded>>
  BY DEF FailProcess, ApiFailed, Commit, Busy, history, client, maps
<1>2. PICK task \in Tasks : task = TaskOf(w)
  BY <1>1, ElementFacts
<1>3. PICK e \in Execs : e = task.exec
  BY <1>2 DEF Tasks
<1>4. /\ worker' \in [Workers -> WorkerStates]
      /\ \A v \in Workers : worker'[v].pc # "idle" => v # w /\ worker'[v] = worker[v]
  BY <1>1, FinishFacts
<1>5. TimerInv'
  BY <1>1, TimerFrame
<1>6. CASE e \in latest /\ process[e] = "Running"
  <2>1. PICK others \in Seq(Tasks) : others = rows
    BY DEF Typing
  <2>2. /\ process' = [process EXCEPT ![e] = "Failed"] /\ state' = [state EXCEPT ![e] = "Ended"]
        /\ pending' = pending \ {e} /\ rows' = Append(others, VisibilityTask(e, "Failed", 0))
        /\ "Failed" \in EndStatuses /\ CanClose(e, "Failed")
    BY <1>2, <1>3, <1>6, <2>1 DEF FailProcess, Closed, EndStatuses, CanClose
  <2>3. /\ IsInjective(others) /\ Range(others) \subseteq Range(rows)
        /\ \A t \in Range(rows) : t.type = "visibility" => t \in Range(others)
    BY <2>1 DEF Holders
  <2>4. /\ rows' \in Seq(Tasks) /\ IsInjective(rows') /\ Range(others) \subseteq Range(rows)'
        /\ \A t \in Range(rows)' : t.type = "api" => t \in Range(others)
        /\ process' \in [Execs -> EndStatuses \cup {"None", "Running"}]
        /\ state' \in [Execs -> StateStatuses] /\ state'[e] = "Ended"
        /\ \A x \in Execs \ {e} : state'[x] = state[x] /\ process'[x] = process[x]
        /\ process'[e] # "None"
        /\ pending' \subseteq Execs /\ latest' \subseteq Execs
        /\ RowsInv' /\ VisibleInv' /\ CountInv'
    BY <1>1, <1>6, <2>2, <2>3, ClosedFacts
  <2>5. Typing'
    BY <1>1, <1>4, <2>4 DEF Typing
  <2>6. Holders'
    BY <1>1, <2>1, <2>4, CommittedHolders
  <2>7. WorkerInv'
    BY <1>1, <1>4, <2>4, WorkerEndFrame
  <2>8. CallsInv'
    <3> SUFFICES ASSUME NEW x \in Execs PROVE CallsOK(x)'
      BY DEF CallsInv
    <3>1. CASE x # e
      <4>1. \A s \in Range(rows)' : IsApi(s, x) => s \in Range(rows)
        BY <2>1, <2>4 DEF IsApi
      <4>2. TaskOf(w).exec # x
        BY <1>2, <1>3, <3>1
      <4> QED
        BY <1>1, <2>4, <3>1, <4>1, <4>2, OtherCalls
    <3>2. CASE x = e
      <4>1. Undisturbed(e)' => Undisturbed(e)
        BY <1>1 DEF Undisturbed
      <4> QED
        BY <1>1, <2>4, <3>2, <4>1, CallsFrame
    <3> QED
      BY <3>1, <3>2
  <2> QED
    BY <1>5, <2>4, <2>5, <2>6, <2>7, <2>8
<1>7. CASE ~(e \in latest /\ process[e] = "Running")
  <2>1. UNCHANGED <<process, state, pending, rows>>
    BY <1>2, <1>3, <1>7 DEF FailProcess
  <2>2. Typing'
    BY <1>1, <1>4, <2>1 DEF Typing
  <2>3. Holders'
    BY <1>1, <2>1, CommittedHolders DEF Holders
  <2>4. WorkerInv'
    BY <1>1, <1>4, <2>1, WorkerEndFrame
  <2>5. RowsInv' /\ VisibleInv' /\ CountInv'
    BY <1>1, <2>1, RowsFrame, VisibleFrame, CountFrame
  <2>6. state[e] = "Ended" \/ e \in revived'
    <3>1. StatusOK(e) /\ WorkerOK(w)
      BY DEF RowsInv, RowsOK, WorkerInv
    <3> QED
      BY <1>1, <1>2, <1>3, <1>7, <3>1 DEF StatusOK, WorkerOK
  <2>7. CallsInv'
    <3> SUFFICES ASSUME NEW x \in Execs PROVE CallsOK(x)'
      BY DEF CallsInv
    <3>1. CASE x # e
      <4>1. TaskOf(w).exec # x
        BY <1>2, <1>3, <3>1
      <4> QED
        BY <1>1, <2>1, <4>1, OtherCalls
    <3>2. CASE x = e
      <4>1. Undisturbed(e)' => Undisturbed(e)
        BY <1>1 DEF Undisturbed
      <4> QED
        BY <1>1, <2>1, <2>6, <3>2, <4>1, CallsFrame
    <3> QED
      BY <3>1, <3>2
  <2> QED
    BY <1>5, <2>2, <2>3, <2>4, <2>5, <2>7
<1> QED
  BY <1>6, <1>7

LEMMA RecoverInv ==
    ASSUME ProcessorInv, NEW w \in Workers, RecoverFromFailure(w)
    PROVE  ProcessorInv'
<1> USE DEF ProcessorInv
<1>1. /\ worker[w].pc = "calling" /\ Commit(w) /\ Finish(w) /\ Busy(w)
      /\ UNCHANGED <<now, process, config, rows, timers, awaiting, latest, visible, token, faults, calls, late, overtaken, byRpc, revived,
                     channel, loaded>>
  BY DEF RecoverFromFailure, ApiFailed, Commit, Busy, history, client, maps
<1>2. PICK task \in Tasks : task = TaskOf(w)
  BY <1>1, ElementFacts
<1>3. PICK e \in Execs : e = task.exec
  BY <1>2 DEF Tasks
<1>4. /\ worker' \in [Workers -> WorkerStates]
      /\ \A v \in Workers : worker'[v].pc # "idle" => v # w /\ worker'[v] = worker[v]
  BY <1>1, FinishFacts
<1>5. /\ state' \in [Execs -> StateStatuses] /\ state'[e] = "Ended"
      /\ \A x \in Execs \ {e} : state'[x] = state[x]
      /\ pending' = pending \ {e} /\ pending' \subseteq Execs
  BY <1>2, <1>3 DEF RecoverFromFailure, Typing, StateStatuses
<1>6. Typing'
  BY <1>1, <1>4, <1>5 DEF Typing
<1>7. Holders'
  BY <1>1, CommittedHolders DEF Holders
<1>8. process[e] # "None"
  BY <1>1, <1>2, <1>3, CallerAlone
<1>9. RowsInv'
  <2> SUFFICES ASSUME NEW x \in Execs PROVE RowsOK(x)'
    BY DEF RowsInv
  <2>1. RowsOK(x)
    BY DEF RowsInv
  <2>2. CASE x = e
    <3>1. TasksOK(e)'
      BY <1>1, <1>5, <2>1, <2>2 DEF RowsOK, TasksOK
    <3>2. ClosesOK(e)'
      BY <1>1, <2>1, <2>2 DEF RowsOK, ClosesOK, ClosesTwice
    <3>3. StatusOK(e)'
      BY <1>1, <1>5, <1>8, <2>1, <2>2 DEF RowsOK, StatusOK, Apis
    <3> QED
      BY <2>2, <3>1, <3>2, <3>3 DEF RowsOK
  <2>3. CASE x # e
    BY <1>1, <1>5, <2>1, <2>3, RowsOther
  <2> QED
    BY <2>2, <2>3
<1>10. WorkerInv'
  BY <1>1, <1>4, <1>5, WorkerEndFrame
<1>11. VisibleInv' /\ TimerInv' /\ CountInv'
  BY <1>1, VisibleFrame, TimerFrame, CountFrame
<1>12. CallsInv'
  <2> SUFFICES ASSUME NEW x \in Execs PROVE CallsOK(x)'
    BY DEF CallsInv
  <2>1. CASE x # e
    <3>1. TaskOf(w).exec # x
      BY <1>2, <1>3, <2>1
    <3> QED
      BY <1>1, <1>5, <2>1, <3>1, OtherCalls
  <2>2. CASE x = e
    <3>1. Undisturbed(e)' => Undisturbed(e)
      BY <1>1 DEF Undisturbed
    <3> QED
      BY <1>1, <1>5, <2>2, <3>1, CallsFrame
  <2> QED
    BY <2>1, <2>2
<1> QED
  BY <1>6, <1>7, <1>9, <1>10, <1>11, <1>12

(* What an interval of the backoff may be. *)
LEMMA IntervalFacts ==
    ASSUME NEW p, NEW n \in Nat \ {0}, NEW interval \in Intervals(n, p),
           p.MaximumIntervalSeconds \in Int, p.InitialIntervalSeconds \in Int,
           p.InitialIntervalSeconds <= MaxInt, p.BackoffCoefficient \in Fractions
    PROVE  interval \in Int /\ IntervalOK(interval, n, p)
<1>1. PICK max \in Int : max = p.MaximumIntervalSeconds
  OBVIOUS
<1>2. PICK init \in Int : init = p.InitialIntervalSeconds
  OBVIOUS
<1>3. PICK c \in Fractions : c = p.BackoffCoefficient
  OBVIOUS
<1>4. PICK x \in Fractions : x = Power(init, c, n - 1) /\ PowerBounds(x, init, c)
  <2>1. n - 1 \in Nat
    OBVIOUS
  <2> QED
    BY <2>1, PowerFacts DEF PowerBounds
<1>5. PICK power \in Int :
        /\ power = Truncated(x)
        /\ init >= 0 /\ c.num >= c.den => power >= init
        /\ init >= 0 /\ c.num >= 0 /\ c.num <= c.den => power >= 0 /\ power <= init
  BY <1>4, TruncatedFacts
<1>6. PICK i \in ToInt32(x) : interval = IF i > max THEN max ELSE i
  BY <1>1, <1>2, <1>3, <1>4 DEF Intervals
<1>7. MaxInt \in Int /\ MinInt \in Int /\ init <= MaxInt /\ 0 <= MaxInt /\ MinInt < 0
  BY <1>2, IntAssumption DEF MinInt
<1>8. /\ i \in Int
      /\ power > MaxInt => i \in {MinInt, MaxInt}
      /\ power <= MaxInt /\ power >= MinInt => i = power
  BY <1>5, <1>6, <1>7 DEF ToInt32
<1>9. interval \in Int /\ interval <= max /\ (interval = i \/ interval = max) /\ interval <= i
  BY <1>1, <1>6, <1>8
<1>10. c.num \in Int /\ c.den \in Nat \ {0}
  BY DEF Fractions
<1>11. ASSUME init >= 0, c.num >= c.den
       PROVE  interval >= init \/ interval = max \/ (interval = MinInt /\ power > MaxInt)
  BY <1>5, <1>7, <1>8, <1>9, <1>11
<1>12. ASSUME init >= 0, c.num \in 0..c.den PROVE interval <= init /\ (interval >= 0 \/ interval = max)
  <2>1. power >= 0 /\ power <= init
    BY <1>5, <1>10, <1>12
  <2> QED
    BY <1>7, <1>8, <1>9, <2>1
<1> QED
  BY <1>1, <1>2, <1>3, <1>4, <1>5, <1>9, <1>11, <1>12 DEF IntervalOK

LEMMA RetryInv ==
    ASSUME ProcessorInv, NEW w \in Workers, RetryTask(w)
    PROVE  ProcessorInv'
<1> USE DEF ProcessorInv
<1>1. /\ worker[w].pc = "calling" /\ NotModified(w) /\ ShouldRetry(w)
      /\ CommitDeleted(w) /\ Finish(w) /\ Busy(w) /\ rows' = Without({TaskOf(w)})
      /\ config[TaskOf(w).exec] # NoConfig
      /\ UNCHANGED <<now, process, state, config, pending, awaiting, latest, visible, token, faults, calls, late, overtaken, byRpc, revived,
                     channel>>
  BY DEF RetryTask, ApiFailed, CommitDeleted, Busy, history, client, maps
<1>2. PICK task \in Tasks : task = TaskOf(w)
  BY <1>1, ElementFacts
<1>3. PICK e \in Execs : e = task.exec
  BY <1>2 DEF Tasks
<1>4. /\ task \in Range(rows) /\ IsApi(task, e)
      /\ \A s \in Range(rows) : IsApi(s, e) => s = task
      /\ \A s \in timers : s.exec # e
      /\ \A c \in Range(channel) : ~IsApi(c.row, e)
      /\ \A v \in Workers : worker[v].pc = "calling" /\ TaskOf(v).exec = e => v = w
      /\ process[e] # "None"
  BY <1>1, <1>2, <1>3, CallerAlone
<1>5. config[e] # NoConfig /\ Policy(w) = PolicyOf(e)
  BY <1>1, <1>2, <1>3 DEF Policy, PolicyOf
<1>6. PICK p : p = PolicyOf(e)
  OBVIOUS
<1>7. /\ p.MaximumAttempts \in Int /\ p.MaximumAttemptsDurationSeconds \in Int
      /\ p.MaximumIntervalSeconds \in Int /\ p.InitialIntervalSeconds \in Int
      /\ p.InitialIntervalSeconds <= MaxInt /\ p.BackoffCoefficient \in Fractions
  BY <1>5, <1>6, PolicyFacts, IntAssumption DEF Typing
<1>8. PICK info \in Infos : info = worker[w].info
  BY DEF Typing, WorkerStates
<1>9. info.completed \in Nat \ {0} /\ info.first \in 0..MaxTime
  BY <1>1, <1>8 DEF WorkerInv, WorkerOK, Infos
<1>10. PICK interval \in Intervals(info.completed, p) : timers' = timers \cup {BackoffTimer(w, interval)}
  BY <1>5, <1>6, <1>8 DEF RetryTask
<1>11. interval \in Int /\ IntervalOK(interval, info.completed, p) /\ interval <= p.MaximumIntervalSeconds
  <2>1. PICK n \in Nat \ {0} : n = info.completed
    BY <1>9
  <2> QED
    BY <1>7, <1>10, <2>1, IntervalFacts DEF IntervalOK
<1>12. PICK new \in Timers :
          /\ new = BackoffTimer(w, interval)
          /\ new.exec = e /\ new.info = info /\ new.interval = interval /\ new.fire = now + interval
  <2>1. BackoffTimer(w, interval) \in Timers
    BY <1>2, <1>3, <1>8, <1>11 DEF BackoffTimer, Timers, Tasks, Typing
  <2> QED
    BY <1>2, <1>3, <1>8, <2>1 DEF BackoffTimer
<1>13. timers' = timers \cup {new}
  BY <1>10, <1>12
<1>14. /\ p.MaximumAttempts > 0 => info.completed < p.MaximumAttempts
       /\ p.MaximumAttemptsDurationSeconds > 0 => info.first + p.MaximumAttemptsDurationSeconds >= now
  BY <1>1, <1>5, <1>6, <1>8 DEF ShouldRetry, MayRetry
<1>15. rows' \in Seq(Tasks) /\ IsInjective(rows') /\ Range(rows)' = Range(rows) \ {task}
  BY <1>1, <1>2, WithoutFacts DEF Typing, Holders
<1>16. /\ worker' \in [Workers -> WorkerStates]
       /\ \A v \in Workers : worker'[v].pc # "idle" => v # w /\ worker'[v] = worker[v]
  BY <1>1, FinishFacts
<1>17. Typing'
  BY <1>1, <1>13, <1>15, <1>16 DEF Typing
<1>18. Holders'
  BY <1>1, <1>2, <1>15, DeletedHolders
<1>19. RowsInv'
  <2> SUFFICES ASSUME NEW x \in Execs PROVE RowsOK(x)'
    BY DEF RowsInv
  <2>1. RowsOK(x)
    BY DEF RowsInv
  <2>2. CASE x = e
    <3>1. \A s \in Range(rows)' : ~IsApi(s, e)
      BY <1>4, <1>15
    <3>2. \A s \in timers' : s.exec = e => s = new
      BY <1>4, <1>13
    <3>3. TasksOK(e)'
      <4>1. e \notin awaiting /\ state[e] # "WaitUntilWaiting"
        BY <1>1, <1>2, <1>3, CallerAlone
      <4> QED
        BY <1>1, <3>1, <3>2, <4>1 DEF TasksOK
    <3>4. ClosesOK(e)'
      BY <1>1, <1>15, <2>1, <2>2 DEF RowsOK, ClosesOK, ClosesTwice
    <3>5. StatusOK(e)'
      BY <1>1, <1>4, <2>1, <2>2 DEF RowsOK, StatusOK
    <3> QED
      BY <2>2, <3>3, <3>4, <3>5 DEF RowsOK
  <2>3. CASE x # e
    <3>1. \A s \in timers' : s.exec = x => s \in timers
      BY <1>12, <1>13, <2>3
    <3> QED
      BY <1>1, <1>15, <2>1, <2>3, <3>1, RowsOther
  <2> QED
    BY <2>2, <2>3
<1>20. WorkerInv'
  BY <1>1, <1>16, WorkerEndFrame
<1>21. VisibleInv'
  <2>1. \A s \in Range(rows) : s.type = "visibility" => s \in Range(rows)'
    BY <1>4, <1>15 DEF IsApi
  <2> QED
    BY <1>1, <2>1, VisibleFrame
<1>22. TimerInv'
  <2> SUFFICES ASSUME NEW t \in timers' PROVE TimerOK(t)'
    BY DEF TimerInv
  <2>1. CASE t \in timers
    BY <1>1, <2>1 DEF TimerInv, TimerOK, IntervalOK, PolicyOf
  <2>2. CASE t = new
    <3>1. PolicyOf(e)' = p /\ config'[e] # NoConfig
      BY <1>1, <1>5, <1>6 DEF PolicyOf
    <3>2. p.MaximumAttemptsDurationSeconds > 0 =>
              now + interval <= info.first + p.MaximumAttemptsDurationSeconds + p.MaximumIntervalSeconds
      BY <1>7, <1>9, <1>11, <1>14 DEF Typing
    <3>3. IntervalOK(interval, info.completed, p)'
      BY <1>11 DEF IntervalOK
    <3> QED
      BY <1>9, <1>12, <1>14, <2>2, <3>1, <3>2, <3>3 DEF TimerOK
  <2> QED
    BY <1>13, <2>1, <2>2
<1>23. CountInv'
  BY <1>1, <1>15, CountFrame
<1>24. CallsInv'
  <2> SUFFICES ASSUME NEW x \in Execs PROVE CallsOK(x)'
    BY DEF CallsInv
  <2>1. CASE x # e
    <3>1. \A s \in timers' : s.exec = x => s \in timers
      BY <1>12, <1>13, <2>1
    <3>2. TaskOf(w).exec # x
      BY <1>2, <1>3, <2>1
    <3> QED
      BY <1>1, <1>15, <3>1, <3>2, OtherCalls
  <2>2. CASE x = e
    <3> SUFFICES ASSUME Undisturbed(e)' PROVE CallsOK(e)'
      BY <2>2 DEF CallsOK
    <3>1. Undisturbed(e) /\ CallsOK(e)
      BY <1>1 DEF Undisturbed, CallsInv
    <3>2. state[e] # "Ended"
      BY <1>1, <1>2, <1>3 DEF NotModified, WorkerInv, WorkerOK, Apis
    <3>3. Match(e, info)
      BY <1>1, <1>2, <1>3, <1>8, <3>1, <3>2 DEF CallsOK
    <3>4. Match(e, info)'
      BY <1>1, <3>3 DEF Match
    <3>5. \A s \in timers' : s.exec = e => s.info = info
      BY <1>4, <1>12, <1>13
    <3>6. \A s \in Range(rows)' : ~IsApi(s, e)
      BY <1>4, <1>15
    <3>7. \A v \in Workers : worker'[v].pc = "calling" => TaskOf(v)'.exec # e
      BY <1>4, <1>16 DEF TaskOf
    <3>8. PolicyOf(e)' = PolicyOf(e)
      BY <1>1 DEF PolicyOf
    <3> QED
      BY <1>1, <1>4, <3>1, <3>4, <3>5, <3>6, <3>7, <3>8 DEF CallsOK
  <2> QED
    BY <2>1, <2>2
<1> QED
  BY <1>17, <1>18, <1>19, <1>20, <1>21, <1>22, <1>23, <1>24

(* A worker goes on to delete its task. *)
LEMMA RecordedFacts ==
    ASSUME ProcessorInv, NEW w \in Workers, worker[w].pc = "recording", Recorded(w)
    PROVE  /\ UNCHANGED <<now, process, state, config, pending, awaiting, latest, rows, timers, channel, loaded, token, faults,
                          calls, late, byRpc, revived>>
           /\ worker' \in [Workers -> WorkerStates] /\ worker'[w].pc = "deleting"
           /\ \A v \in Workers \ {w} : worker'[v] = worker[v]
           /\ \A v \in Workers : TaskOf(v)' = TaskOf(v) /\ worker'[v].info = worker[v].info
           /\ TaskOf(w) \in Tasks /\ TaskOf(w) \in Range(rows) /\ TaskOf(w).type = "visibility"
           /\ Holders' /\ RowsInv' /\ TimerInv' /\ CountInv' /\ CallsInv'
<1> USE DEF ProcessorInv
<1>1. UNCHANGED <<now, process, state, config, pending, awaiting, latest, rows, timers, channel, loaded, token, faults,
                  calls, late, byRpc, revived>>
  BY DEF Recorded, store, client, maps
<1>2. /\ worker' \in [Workers -> WorkerStates] /\ worker'[w].pc = "deleting"
      /\ \A v \in Workers \ {w} : worker'[v] = worker[v]
      /\ worker'[w].copy = worker[w].copy /\ worker'[w].info = worker[w].info
  BY DEF Recorded, Typing, WorkerStates
<1>3. \A v \in Workers : TaskOf(v)' = TaskOf(v) /\ worker'[v].info = worker[v].info
  BY <1>2 DEF TaskOf
<1>4. TaskOf(w) \in Tasks /\ TaskOf(w) \in Range(rows) /\ TaskOf(w).type = "visibility"
  BY ElementFacts DEF Busy, WorkerInv, WorkerOK
<1>5. \A v \in Workers : Busy(v)' <=> Busy(v)
  BY <1>2 DEF Busy
<1>6. Holders'
  BY <1>1, <1>3, <1>5 DEF Holders, WorkerHolds
<1>7. RowsInv' /\ TimerInv' /\ CountInv'
  BY <1>1, RowsFrame, TimerFrame, CountFrame
<1>8. CallsInv'
  <2> SUFFICES ASSUME NEW x \in Execs PROVE CallsOK(x)'
    BY DEF CallsInv
  <2>1. Undisturbed(x)' => Undisturbed(x)
    BY <1>1 DEF Undisturbed
  <2>2. \A v \in Workers : worker'[v].pc = "calling" <=> worker[v].pc = "calling"
    BY <1>2
  <2>3. \A t : Held(t) => Held(t)'
    BY <1>3, <2>2 DEF Held
  <2> QED
    BY <1>1, <1>3, <2>1, <2>2, <2>3, CallsFrame
<1> QED
  BY <1>1, <1>2, <1>3, <1>4, <1>6, <1>7, <1>8

LEMMA RecordStartInv ==
    ASSUME ProcessorInv, NEW w \in Workers, RecordStart(w)
    PROVE  ProcessorInv'
<1> USE DEF ProcessorInv
<1>1. worker[w].pc = "recording" /\ Recorded(w) /\ TaskOf(w).what = "Running" /\ overtaken' = overtaken
  BY DEF RecordStart
<1>2. /\ UNCHANGED <<now, process, state, config, pending, awaiting, latest, rows, timers, channel, loaded, token, faults,
                     calls, late, byRpc, revived>>
      /\ worker' \in [Workers -> WorkerStates] /\ worker'[w].pc = "deleting"
      /\ \A v \in Workers \ {w} : worker'[v] = worker[v]
      /\ \A v \in Workers : TaskOf(v)' = TaskOf(v) /\ worker'[v].info = worker[v].info
      /\ TaskOf(w) \in Tasks /\ TaskOf(w) \in Range(rows) /\ TaskOf(w).type = "visibility"
      /\ Holders' /\ RowsInv' /\ TimerInv' /\ CountInv' /\ CallsInv'
  BY <1>1, RecordedFacts
<1>3. PICK e \in Execs : e = TaskOf(w).exec
  BY <1>2 DEF Tasks
<1>4. PICK new : new = [id |-> e, start |-> TaskOf(w).info.first, status |-> "Running"]
  OBVIOUS
<1>5. /\ visible' = visible \cup {new} /\ ~HasRow(visible, e)
      /\ new \in VisibleRows /\ new.id = e /\ new.status = "Running"
  BY <1>2, <1>3, <1>4 DEF RecordStart, InsertProcessExecutionStartForVisibility, VisibleRows, Tasks, Infos
<1>6. \A r \in visible : r.id # e
  BY <1>5 DEF HasRow
<1>7. IsFiniteSet(visible \cup {new})
  BY FS_AddElement DEF Typing
<1>8. Typing'
  BY <1>2, <1>5, <1>7 DEF Typing
<1>9. \A x : CloseRecorded(x) <=> CloseRecorded(x)'
  BY <1>5 DEF CloseRecorded
<1>10. WorkerInv'
  <2> SUFFICES ASSUME NEW v \in Workers PROVE WorkerOK(v)'
    BY DEF WorkerInv
  <2>1. WorkerOK(v)
    BY DEF WorkerInv
  <2>2. CASE v = w
    BY <1>1, <1>2, <2>2 DEF WorkerOK
  <2>3. CASE v # w
    BY <1>1, <1>2, <1>9, <2>1, <2>3 DEF WorkerOK
  <2> QED
    BY <2>2, <2>3
<1>11. VisibleInv'
  <2>1. KeysUnique'
    BY <1>5, <1>6 DEF VisibleInv, KeysUnique
  <2>2. ASSUME NEW x \in Execs PROVE VisibleOK(x)'
    <3>1. VisibleOK(x) /\ RowsOK(e)
      BY DEF VisibleInv, RowsInv
    <3>2. process[e] # "None"
      BY <1>2, <1>3, <3>1 DEF RowsOK, StatusOK
    <3> QED
      BY <1>1, <1>2, <1>5, <1>9, <3>1, <3>2 DEF VisibleOK, ClosesTwice
  <2> QED
    BY <2>1, <2>2 DEF VisibleInv
<1> QED
  BY <1>2, <1>8, <1>10, <1>11

(* The update keeps the rows and their ids. *)
LEMMA UpdateFacts ==
    ASSUME Typing, KeysUnique, NEW e \in Execs, NEW status \in EndStatuses,
           visible' = UpdateProcessExecutionStatusForVisibility(visible, e, status)
    PROVE  /\ visible' \in SUBSET VisibleRows /\ IsFiniteSet(visible')
           /\ \A r \in visible' : IF r.id = e THEN r.status = status ELSE r \in visible
           /\ \A r \in visible : r.id # e => r \in visible'
           /\ \A r \in visible : r.status = status => r \in visible'
           /\ \A r \in visible : \E s \in visible' : s.id = r.id /\ s.start = r.start /\ (r.id = e => s.status = status)
           /\ \A s \in visible' : \E r \in visible : s.id = r.id /\ s.start = r.start
           /\ HasRow(visible, e) <=> HasRow(visible', e)
           /\ KeysUnique'
<1> DEFINE U(r) == IF r.id = e THEN [r EXCEPT !.status = status] ELSE r
           f == [r \in visible |-> U(r)]
<1>1. visible' = {U(r) : r \in visible}
  BY DEF UpdateProcessExecutionStatusForVisibility
<1>2. ASSUME NEW r \in visible
      PROVE  /\ U(r) \in VisibleRows /\ U(r).id = r.id /\ U(r).start = r.start
             /\ r.id = e => U(r).status = status
             /\ r.id # e => U(r) = r
             /\ r.status = status => U(r) = r
  <2>1. r \in VisibleRows
    BY DEF Typing
  <2>2. CASE r.id = e
    <3>1. r \in [id : Execs, start : 0..MaxTime, status : EndStatuses \cup {"Running"}]
      BY <2>1, <2>2, OldRowsAssumption DEF VisibleRows
    <3> QED
      BY <2>2, <3>1 DEF VisibleRows
  <2>3. CASE r.id # e
    BY <2>1, <2>3
  <2> QED
    BY <2>2, <2>3
<1>3. IsFiniteSet(visible')
  <2>1. f \in Surjection(visible, visible')
    BY <1>1 DEF Surjection
  <2> HIDE DEF f
  <2> QED
    BY <2>1, FS_Surjection DEF Typing
<1> HIDE DEF U
<1>4. visible' \in SUBSET VisibleRows
  BY <1>1, <1>2
<1>5. \A r \in visible' : IF r.id = e THEN r.status = status ELSE r \in visible
  BY <1>1, <1>2
<1>6. /\ \A r \in visible : r.id # e => r \in visible'
      /\ \A r \in visible : r.status = status => r \in visible'
  BY <1>1, <1>2
<1>7. HasRow(visible, e) <=> HasRow(visible', e)
  BY <1>1, <1>2 DEF HasRow
<1>8. KeysUnique'
  BY <1>1, <1>2 DEF KeysUnique
<1>9. /\ \A r \in visible : \E s \in visible' : s.id = r.id /\ s.start = r.start /\ (r.id = e => s.status = status)
      /\ \A s \in visible' : \E r \in visible : s.id = r.id /\ s.start = r.start
  BY <1>1, <1>2
<1> QED
  BY <1>3, <1>4, <1>5, <1>6, <1>7, <1>8, <1>9

LEMMA RecordCloseInv ==
    ASSUME ProcessorInv, NEW w \in Workers, RecordClose(w)
    PROVE  ProcessorInv'
<1> USE DEF ProcessorInv
<1>1. worker[w].pc = "recording" /\ Recorded(w) /\ TaskOf(w).what # "Running"
  BY DEF RecordClose
<1>2. /\ UNCHANGED <<now, process, state, config, pending, awaiting, latest, rows, timers, channel, loaded, token, faults,
                     calls, late, byRpc, revived>>
      /\ worker' \in [Workers -> WorkerStates] /\ worker'[w].pc = "deleting"
      /\ \A v \in Workers \ {w} : worker'[v] = worker[v]
      /\ \A v \in Workers : TaskOf(v)' = TaskOf(v) /\ worker'[v].info = worker[v].info
      /\ TaskOf(w) \in Tasks /\ TaskOf(w) \in Range(rows) /\ TaskOf(w).type = "visibility"
      /\ Holders' /\ RowsInv' /\ TimerInv' /\ CountInv' /\ CallsInv'
  BY <1>1, RecordedFacts
<1>3. PICK e \in Execs : e = TaskOf(w).exec
  BY <1>2 DEF Tasks
<1>4. RowsOK(e) /\ VisibleOK(e) /\ KeysUnique
  BY DEF RowsInv, VisibleInv
<1>5. /\ process[e] \in EndStatuses /\ TaskOf(w).what \in EndStatuses
      /\ TaskOf(w).what = process[e] \/ ClosesTwice(e)
  BY <1>1, <1>2, <1>3, <1>4 DEF RowsOK, ClosesOK, EndStatuses
<1>6. PICK status \in EndStatuses : status = TaskOf(w).what
  BY <1>5
<1>7. /\ visible' = UpdateProcessExecutionStatusForVisibility(visible, e, status)
      /\ overtaken' = IF HasRow(visible, e) THEN overtaken ELSE overtaken \cup {e}
  BY <1>3, <1>5, <1>6 DEF RecordClose
<1>8. /\ visible' \in SUBSET VisibleRows /\ IsFiniteSet(visible')
      /\ \A r \in visible' : IF r.id = e THEN r.status = status ELSE r \in visible
      /\ \A r \in visible : r.id # e => r \in visible'
      /\ HasRow(visible, e) <=> HasRow(visible', e)
      /\ KeysUnique'
  BY <1>4, <1>7, UpdateFacts
<1>9. Typing'
  BY <1>2, <1>8 DEF Typing
<1>10. status # "Running" /\ overtaken \subseteq overtaken'
  BY <1>7 DEF EndStatuses
<1>11. \A x : CloseRecorded(x) => CloseRecorded(x)'
  <2> SUFFICES ASSUME NEW x, CloseRecorded(x) PROVE CloseRecorded(x)'
    OBVIOUS
  <2>1. PICK r \in visible : r.id = x /\ r.status # "Running"
    BY DEF CloseRecorded
  <2>2. CASE x # e
    BY <1>8, <2>1, <2>2 DEF CloseRecorded
  <2>3. CASE x = e
    BY <1>8, <1>10, <2>1, <2>3 DEF CloseRecorded, HasRow
  <2> QED
    BY <2>2, <2>3
<1>12. e \in overtaken' \/ CloseRecorded(e)'
  BY <1>7, <1>8, <1>10 DEF CloseRecorded, HasRow
<1>13. WorkerInv'
  <2> SUFFICES ASSUME NEW v \in Workers PROVE WorkerOK(v)'
    BY DEF WorkerInv
  <2>1. WorkerOK(v)
    BY DEF WorkerInv
  <2>2. CASE v = w
    BY <1>2, <1>3, <1>12, <2>2 DEF WorkerOK
  <2>3. CASE v # w
    BY <1>2, <1>10, <1>11, <2>1, <2>3 DEF WorkerOK
  <2> QED
    BY <2>2, <2>3
<1>14. VisibleInv'
  <2> SUFFICES ASSUME NEW x \in Execs PROVE VisibleOK(x)'
    BY <1>8 DEF VisibleInv
  <2>1. VisibleOK(x)
    BY DEF VisibleInv
  <2>2. CASE x = e
    BY <1>2, <1>5, <1>6, <1>8, <1>12, <2>2 DEF VisibleOK, EndStatuses, ClosesTwice
  <2>3. CASE x # e
    BY <1>2, <1>8, <1>10, <1>11, <2>1, <2>3 DEF VisibleOK, ClosesTwice
  <2> QED
    BY <2>2, <2>3
<1> QED
  BY <1>2, <1>9, <1>13, <1>14

LEMMA DeleteTaskInv ==
    ASSUME ProcessorInv, NEW w \in Workers, DeleteTask(w)
    PROVE  ProcessorInv'
<1> USE DEF ProcessorInv
<1>1. /\ worker[w].pc = "deleting" /\ CommitDeleted(w) /\ Finish(w) /\ Busy(w) /\ rows' = Without({TaskOf(w)})
      /\ UNCHANGED <<now, process, state, config, pending, awaiting, latest, timers, visible, token, faults, calls, late, overtaken, byRpc, revived,
                     channel>>
  BY DEF DeleteTask, CommitDeleted, Busy, history, client, maps
<1>2. PICK task \in Tasks : task = TaskOf(w)
  BY <1>1, ElementFacts
<1>3. PICK e \in Execs : e = task.exec
  BY <1>2 DEF Tasks
<1>4. task.type = "visibility" /\ task \in Range(rows)
  BY <1>1, <1>2, ElementFacts DEF WorkerInv, WorkerOK
<1>5. rows' \in Seq(Tasks) /\ IsInjective(rows') /\ Range(rows)' = Range(rows) \ {task}
  BY <1>1, <1>2, WithoutFacts DEF Typing, Holders
<1>6. /\ worker' \in [Workers -> WorkerStates]
      /\ \A v \in Workers : worker'[v].pc # "idle" => v # w /\ worker'[v] = worker[v]
  BY <1>1, FinishFacts
<1>7. Typing'
  BY <1>1, <1>5, <1>6 DEF Typing
<1>8. Holders'
  BY <1>1, <1>2, <1>5, DeletedHolders
<1>9. RowsInv'
  <2> SUFFICES ASSUME NEW x \in Execs PROVE RowsOK(x)'
    BY DEF RowsInv
  <2>1. RowsOK(x)
    BY DEF RowsInv
  <2> QED
    BY <1>1, <1>5, <2>1, RowsOther
<1>10. WorkerInv'
  BY <1>1, <1>6, WorkerEndFrame
<1>11. VisibleInv'
  <2>1. KeysUnique'
    BY <1>1 DEF VisibleInv, KeysUnique
  <2>2. ASSUME NEW x \in Execs PROVE VisibleOK(x)'
    <3>1. VisibleOK(x)
      BY DEF VisibleInv
    <3>2. \A r \in visible' : r.id = x =>
              process'[x] # "None" /\ (r.status \in {"Running", process'[x]} \/ ClosesTwice(x)')
      BY <1>1, <3>1 DEF VisibleOK, ClosesTwice
    <3>3. CASE VisibilityTask(x, process[x], 0) # task
      BY <1>1, <1>5, <3>1, <3>2, <3>3 DEF VisibleOK, CloseRecorded
    <3>4. CASE VisibilityTask(x, process[x], 0) = task
      <4>1. task.exec = x /\ task.what = process[x]
        BY <3>4 DEF VisibilityTask, Task
      <4>2. process[x] \in EndStatuses => x \in overtaken \/ CloseRecorded(x)
        BY <1>1, <1>2, <4>1 DEF WorkerInv, WorkerOK, EndStatuses
      <4> QED
        BY <1>1, <3>2, <4>2 DEF VisibleOK, CloseRecorded
    <3> QED
      BY <3>3, <3>4
  <2> QED
    BY <2>1, <2>2 DEF VisibleInv
<1>12. TimerInv' /\ CountInv'
  BY <1>1, <1>5, TimerFrame, CountFrame
<1>13. CallsInv'
  <2> SUFFICES ASSUME NEW x \in Execs PROVE CallsOK(x)'
    BY DEF CallsInv
  <2>1. TaskOf(w).type = "visibility"
    BY <1>2, <1>4
  <2> QED
    BY <1>1, <1>5, <2>1, OtherCalls
<1> QED
  BY <1>7, <1>8, <1>9, <1>10, <1>11, <1>12, <1>13

-----------------------------------------------------------------------------
(***************************************************************************)
(* A page of a listing.                                                    *)
(***************************************************************************)
LEMMA RowFacts ==
    ASSUME Typing, NEW r \in visible
    PROVE  r.id \in Nat \ {0} /\ r.start \in Nat
<1>1. CASE r \in OldRows
  <2>1. r \in [id : Nat \ ({0} \cup Execs), start : Nat, status : {"Completed", "Failed", "Terminated"}]
    BY <1>1, OldRowsAssumption
  <2>2. r.id \in Nat \ ({0} \cup Execs) /\ r.start \in Nat
    BY <2>1
  <2> QED
    BY <2>2
<1>2. CASE r \in [id : Execs, start : 0..MaxTime, status : EndStatuses \cup {"Running"}]
  <2>1. Execs \subseteq Nat \ {0}
    BY ExecAssumption
  <2>2. 0..MaxTime \subseteq Nat
    BY BoundAssumption
  <2>3. r.id \in Execs /\ r.start \in 0..MaxTime
    BY <1>2
  <2> QED
    BY <2>1, <2>2, <2>3
<1> QED
  BY <1>1, <1>2 DEF Typing, VisibleRows

(* The order of a listing: rows differ in their ids. *)
LEMMA OrderFacts ==
    ASSUME Typing, KeysUnique, NEW r \in visible, NEW s \in visible
    PROVE  /\ r = s \/ Before(r, s) \/ Before(s, r)
           /\ ~Before(r, r)
           /\ \A q \in visible : Before(q, r) /\ Before(r, s) => Before(q, s)
<1>1. \A q \in visible : q.id \in Nat \ {0} /\ q.start \in Nat
  BY RowFacts
<1>2. r.id = s.id => r = s
  BY DEF KeysUnique
<1> QED
  BY <1>1, <1>2 DEF Before

(* The rows beyond the token, and how many of them come before a row. *)
Found == {r \in visible : Beyond(r, token)}
Rank(r) == Cardinality({s \in Found : Before(s, r)})

LEMMA RankFacts ==
    ASSUME Typing, KeysUnique, NEW r \in visible
    PROVE  /\ Rank(r) \in Nat
           /\ \A s \in Found : Before(s, r) => Rank(s) < Rank(r)
<1> DEFINE Ahead(q) == {s \in Found : Before(s, q)}
<1>1. ASSUME NEW q \in visible PROVE IsFiniteSet(Ahead(q)) /\ Rank(q) = Cardinality(Ahead(q)) /\ Rank(q) \in Nat
  <2>1. Ahead(q) \in SUBSET visible
    BY DEF Found
  <2>2. IsFiniteSet(Ahead(q))
    BY <2>1, FS_Subset DEF Typing
  <2>3. Rank(q) = Cardinality(Ahead(q))
    BY DEF Rank
  <2> HIDE DEF Ahead
  <2> QED
    BY <2>2, <2>3, FS_CardinalityType
<1>2. ASSUME NEW s \in Found, Before(s, r) PROVE Rank(s) < Rank(r)
  <2>1. s \in visible
    BY DEF Found
  <2>2. Ahead(s) \in SUBSET Ahead(r)
    BY <1>2, <2>1, OrderFacts DEF Found
  <2>3. s \in Ahead(r) /\ s \notin Ahead(s)
    BY <1>2, <2>1, OrderFacts
  <2> HIDE DEF Ahead
  <2>4. Cardinality(Ahead(s)) <= Cardinality(Ahead(r)) /\ Cardinality(Ahead(s)) # Cardinality(Ahead(r))
    BY <1>1, <2>2, <2>3, FS_Subset
  <2> QED
    BY <1>1, <2>1, <2>4
<1> QED
  BY <1>1, <1>2

LEMMA NextPageIs == NextPage = {r \in Found : Rank(r) < PageSize}
BY DEF NextPage, Page, Found, Rank

(* A page that is not empty has a last row; the token names it. *)
LEMMA TokenFacts ==
    ASSUME Typing, KeysUnique, NextPage # {}
    PROVE  \E last \in NextPage :
              /\ \A s \in NextPage \ {last} : Before(s, last)
              /\ TokenOf(NextPage) = [id |-> last.id, start |-> last.start]
<1> DEFINE Ranks == {Rank(r) : r \in NextPage}
           IsLast(r) == \A s \in NextPage \ {r} : Before(s, r)
<1>1. \A r \in NextPage : r \in Found /\ r \in visible /\ Rank(r) < PageSize /\ Rank(r) \in Nat
  BY NextPageIs, RankFacts DEF Found
<1>2. Ranks \in SUBSET Nat /\ Ranks # {} /\ \A n \in Ranks : n <= PageSize
  BY <1>1, BoundAssumption
<1> HIDE DEF Ranks
<1>3. PICK n \in Ranks : \A m \in Ranks : m <= n
  BY <1>2, NatHasGreatest, BoundAssumption
<1>4. PICK r \in NextPage : n = Rank(r)
  BY DEF Ranks
<1>5. ASSUME NEW s \in NextPage \ {r} PROVE Before(s, r)
  <2>1. Rank(s) <= Rank(r) /\ Rank(s) \in Nat /\ Rank(r) \in Nat
    BY <1>1, <1>3, <1>4 DEF Ranks
  <2>2. ~Before(r, s)
    BY <1>1, <2>1, RankFacts
  <2> QED
    BY <1>1, <2>2, OrderFacts
<1>6. IsLast(r)
  BY <1>5
<1>7. TokenOf(NextPage) = LET last == CHOOSE q \in NextPage : IsLast(q)
                          IN  [id |-> last.id, start |-> last.start]
  BY DEF TokenOf
<1> HIDE DEF IsLast
<1>8. PICK last : last = CHOOSE q \in NextPage : IsLast(q)
  OBVIOUS
<1>9. last \in NextPage /\ IsLast(last)
  BY <1>6, <1>8
<1> QED
  BY <1>7, <1>8, <1>9 DEF IsLast

(* Nothing but the token of the listing is written. *)
LEMMA TokenFrame ==
    ASSUME ProcessorInv, token' \in [id : Nat, start : Nat],
           UNCHANGED <<now, process, state, config, pending, awaiting, latest, rows, timers, visible, channel, loaded,
                       worker, faults, calls, late, overtaken, byRpc, revived>>
    PROVE  ProcessorInv'
<1> USE DEF ProcessorInv
<1>1. Typing'
  BY DEF Typing
<1>2. Holders' /\ WorkerInv'
  BY HoldersFrame, WorkerFrame
<1>3. RowsInv' /\ VisibleInv' /\ TimerInv' /\ CountInv'
  BY StoreFrame
<1>4. CallsInv'
  <2> SUFFICES ASSUME NEW x \in Execs PROVE CallsOK(x)'
    BY DEF CallsInv
  <2>1. Undisturbed(x)' => Undisturbed(x)
    BY DEF Undisturbed
  <2> QED
    BY <2>1, CallsFrame DEF Held, TaskOf
<1> QED
  BY <1>1, <1>2, <1>3, <1>4

LEMMA ListInv ==
    ASSUME ProcessorInv, ListProcessExecutions \/ ListingEnds
    PROVE  ProcessorInv'
<1> USE DEF ProcessorInv
<1>1. UNCHANGED <<now, process, state, config, pending, awaiting, latest, rows, timers, visible, channel, loaded, worker,
                  faults, calls, late, overtaken, byRpc, revived>>
  BY DEF ListProcessExecutions, ListingEnds, store, history, maps
<1>2. token' \in [id : Nat, start : Nat]
  <2>1. CASE ListingEnds
    BY <2>1 DEF ListingEnds, FirstToken
  <2>2. CASE ListProcessExecutions
    <3>1. NextPage # {} /\ token' = TokenOf(NextPage)
      BY <2>2 DEF ListProcessExecutions
    <3>2. PICK last \in NextPage : TokenOf(NextPage) = [id |-> last.id, start |-> last.start]
      BY <3>1, TokenFacts DEF VisibleInv
    <3>3. last \in visible
      BY NextPageIs DEF Found
    <3> QED
      BY <3>1, <3>2, <3>3, RowFacts
  <2> QED
    BY <2>1, <2>2
<1> HIDE DEF ProcessorInv
<1> QED
  BY <1>1, <1>2, TokenFrame
-----------------------------------------------------------------------------
LEMMA StepInv == ProcessorInv /\ [Next]_vars => ProcessorInv'
<1> SUFFICES ASSUME ProcessorInv, [Next]_vars PROVE ProcessorInv'
  OBVIOUS
<1>1. ASSUME NEW e \in Execs,
             \/ StartProcess(e) \/ StopProcess(e) \/ TerminateIfRunning(e) \/ CloseByRpc(e)
             \/ FireTimerCommand(e) \/ ProcessLocalQueueMessages(e)
      PROVE  ProcessorInv'
  BY <1>1, StartInv, StopInv, TerminateInv, RpcInv, FireInv, MessagesInv
<1>2. ASSUME NEW t \in timers, ConvertTimerTaskToImmediateTask(t) PROVE ProcessorInv'
  BY <1>2, ConvertInv
<1>3. CASE SendTask \/ Tick \/ PrepareFails \/ ListProcessExecutions \/ ListingEnds
  BY <1>3, SendInv, TickInv, PrepareFailsInv, ListInv
<1>4. CASE Crash
  BY <1>4, RestartInv DEF Crash
<1>5. ASSUME NEW w \in Workers, WorkerStep(w) \/ DatabaseError(w) PROVE ProcessorInv'
  <2>1. CASE TakeTask(w) \/ DatabaseError(w)
    BY <2>1, TakeInv, DatabaseErrorInv
  <2>2. CASE ApiCallEnds(w)
    <3>1. CASE CheckRetryPanics(w)
      BY <3>1, RestartInv DEF CheckRetryPanics
    <3>2. CASE CompleteWaitUntilExecution(w) \/ UpdateWaitUntilExecution(w) \/ ExecuteReturns(w) \/ Conflict(w)
      BY <3>2, WaitUntilInv, ExecuteReturnsInv, ConflictInv
    <3>3. CASE RetryTask(w) \/ FailProcess(w) \/ RecoverFromFailure(w) \/ ExecuteTimesOut(w)
      BY <3>3, RetryInv, FailProcessInv, RecoverInv, ExecuteTimesOutInv
    <3> QED
      BY <2>2, <3>1, <3>2, <3>3 DEF ApiCallEnds
  <2>3. CASE RecordingStep(w)
    BY <2>3, RecordStartInv, RecordStartAgainInv, RecordCloseInv, DeleteTaskInv DEF RecordingStep
  <2> QED
    BY <1>5, <2>1, <2>2, <2>3 DEF WorkerStep
<1>6. CASE UNCHANGED vars
  <2>1. UNCHANGED <<now, process, state, config, pending, awaiting, latest, rows, timers, visible, channel, loaded, worker,
                    token, faults, calls, late, overtaken, byRpc, revived>>
    BY <1>6 DEF vars, store, history, client, maps
  <2>2. token' \in [id : Nat, start : Nat]
    BY <2>1 DEF ProcessorInv, Typing
  <2> QED
    BY <2>1, <2>2, TokenFrame
<1> QED
  BY <1>1, <1>2, <1>3, <1>4, <1>5, <1>6 DEF Next

(* The inductive invariant: an execution has one API task or one timer, a  *)
(* row that was read has one holder, stored counts are below the limit of  *)
(* the policy, and what is listed agrees with the processes.               *)
THEOREM ProcessorInvariant == Spec => []ProcessorInv
BY InitInv, StepInv, PTL DEF Spec

(* The variables have their types, no row is in the table twice, the queue *)
(* knows only rows of the table, and an execution is listed once.          *)
THEOREM TypeCorrect == Spec => []TypeOK
<1>1. ProcessorInv => TypeOK
  <2> SUFFICES ASSUME ProcessorInv PROVE TypeOK
    OBVIOUS
  <2> USE DEF ProcessorInv
  <2>1. \A i \in DOMAIN rows : rows[i] \in Tasks
    BY ElementFacts DEF Range
  <2>2. loaded \subseteq Range(rows)
    BY DEF Holders
  <2>3. \A w \in Workers : worker[w].pc \in {"idle", "calling", "recording", "deleting"}
    BY DEF Typing, WorkerStates
  <2> QED
    BY <2>1, <2>2, <2>3 DEF TypeOK, Typing, Holders, VisibleInv, KeysUnique, Tasks, Infos, Apis, EndStatuses,
                             StateStatuses
<1> QED
  BY <1>1, ProcessorInvariant, PTL

(* The worker API is called no more often than the policy allows, and no   *)
(* stored count is at the limit, for every policy and number of workers.   *)
THEOREM AttemptsStayWithinPolicy == Spec => []AttemptsWithinPolicy
<1>1. ProcessorInv => AttemptsWithinPolicy
  BY DEF ProcessorInv, AttemptsWithinPolicy, CallsInv, CallsOK, TimerInv, TimerOK
<1> QED
  BY <1>1, ProcessorInvariant, PTL

(* The last timer of a state execution is at most one interval beyond the  *)
(* duration of the policy, counted from the very first call.               *)
THEOREM RetriesEndWithTheDuration == Spec => []RetriesEndInTime
<1>1. ProcessorInv => RetriesEndInTime
  <2> SUFFICES ASSUME ProcessorInv, NEW t \in timers, Undisturbed(t.exec),
                      PolicyOf(t.exec).MaximumAttemptsDurationSeconds > 0
               PROVE  t.fire <= calls[t.exec].first + PolicyOf(t.exec).MaximumAttemptsDurationSeconds
                                + PolicyOf(t.exec).MaximumIntervalSeconds
    BY DEF RetriesEndInTime
  <2> USE DEF ProcessorInv
  <2>1. PICK e \in Execs : e = t.exec
    BY DEF Typing, Timers
  <2>2. TimerOK(t) /\ CallsOK(e)
    BY DEF TimerInv, CallsInv
  <2>3. Match(e, t.info) /\ t.info.completed >= 1
    BY <2>1, <2>2 DEF CallsOK, TimerOK
  <2>4. calls[e].first = t.info.first
    BY <2>3 DEF Match, Typing
  <2> QED
    BY <2>1, <2>2, <2>4 DEF TimerOK
<1> QED
  BY <1>1, ProcessorInvariant, PTL

(* For every policy, whatever its coefficient: a retry waits at most the   *)
(* maximum interval; not less than the initial one if the coefficient is   *)
(* at least 1, unless the power has left the range of an int32; and not    *)
(* more than the initial one, nor less than nothing, if it is at most 1.   *)
THEOREM BackoffStaysWithinPolicy == Spec => []BackoffWithinPolicy
<1>1. ProcessorInv => BackoffWithinPolicy
  BY DEF ProcessorInv, TimerInv, TimerOK, IntervalOK, BackoffWithinPolicy
<1> QED
  BY <1>1, ProcessorInvariant, PTL

(* An execution that has closed is shown as running only while the record  *)
(* of its close is to come, or if it was overtaken or an RPC closed it.    *)
THEOREM ShownRunningHasReason == Spec => []ShownRunningForAReason
<1>1. ProcessorInv => ShownRunningForAReason
  <2> SUFFICES ASSUME ProcessorInv, NEW r \in visible, r.id \in Execs, r.status = "Running",
                      process[r.id] # "Running"
               PROVE  \/ r.id \in overtaken \cup byRpc
                      \/ \E i \in DOMAIN rows : rows[i] = VisibilityTask(r.id, process[r.id], 0)
    BY DEF ShownRunningForAReason
  <2> USE DEF ProcessorInv
  <2>1. VisibleOK(r.id) /\ KeysUnique
    BY DEF VisibleInv
  <2>2. process[r.id] \in EndStatuses
    BY <2>1 DEF VisibleOK, Typing
  <2>3. ~CloseRecorded(r.id)
    BY <2>1 DEF CloseRecorded, KeysUnique
  <2> QED
    BY <2>1, <2>2, <2>3 DEF VisibleOK, Range
<1> QED
  BY <1>1, ProcessorInvariant, PTL

-----------------------------------------------------------------------------
(* Who writes the visibility table, and who moves on in a listing. *)
LEMMA Writers ==
    ASSUME [Next]_vars
    PROVE  \/ UNCHANGED <<visible, client>>
           \/ client' = client /\ \E w \in Workers : RecordStart(w) \/ RecordClose(w)
           \/ visible' = visible /\ (ListProcessExecutions \/ ListingEnds)
<1>1. ASSUME NEW e \in Execs, StartProcess(e) \/ StopProcess(e) \/ TerminateIfRunning(e) \/ CloseByRpc(e)
      PROVE  UNCHANGED <<visible, client>>
  BY <1>1 DEF StartProcess, StopProcess, TerminateIfRunning, CloseByRpc
<1>2. ASSUME NEW e \in Execs, FireTimerCommand(e) \/ ProcessLocalQueueMessages(e)
      PROVE  UNCHANGED <<visible, client>>
  BY <1>2 DEF FireTimerCommand, ProcessLocalQueueMessages
<1>3. ASSUME NEW t \in timers, ConvertTimerTaskToImmediateTask(t) PROVE UNCHANGED <<visible, client>>
  BY <1>3 DEF ConvertTimerTaskToImmediateTask
<1>4. ASSUME SendTask \/ Tick \/ Crash \/ PrepareFails PROVE UNCHANGED <<visible, client>>
  BY <1>4 DEF SendTask, Tick, Crash, PrepareFails
<1>5. ASSUME ListProcessExecutions \/ ListingEnds PROVE visible' = visible
  BY <1>5 DEF ListProcessExecutions, ListingEnds
<1>6. ASSUME NEW w \in Workers, TakeTask(w) \/ DatabaseError(w) PROVE UNCHANGED <<visible, client>>
  BY <1>6 DEF TakeTask, DatabaseError
<1>7. ASSUME NEW w \in Workers, ApiCallEnds(w) PROVE UNCHANGED <<visible, client>>
  <2>1. CASE CompleteWaitUntilExecution(w) \/ UpdateWaitUntilExecution(w) \/ ExecuteReturns(w) \/ Conflict(w)
    BY <2>1 DEF CompleteWaitUntilExecution, UpdateWaitUntilExecution, ExecuteReturns, Conflict
  <2>2. CASE RetryTask(w) \/ FailProcess(w) \/ RecoverFromFailure(w)
    BY <2>2 DEF RetryTask, FailProcess, RecoverFromFailure
  <2>3. CASE ExecuteTimesOut(w) \/ CheckRetryPanics(w)
    BY <2>3 DEF ExecuteTimesOut, CheckRetryPanics
  <2> QED
    BY <1>7, <2>1, <2>2, <2>3 DEF ApiCallEnds
<1>8. ASSUME NEW w \in Workers, RecordingStep(w)
      PROVE  client' = client /\ (visible' = visible \/ RecordStart(w) \/ RecordClose(w))
  BY <1>8 DEF RecordingStep, RecordStart, RecordStartAgain, RecordClose, DeleteTask, Recorded
<1>9. CASE UNCHANGED vars
  BY <1>9 DEF vars
<1> QED
  BY <1>1, <1>2, <1>3, <1>4, <1>5, <1>6, <1>7, <1>8, <1>9 DEF Next, WorkerStep

(* What a record does to a row that is there, and which rows are new. *)
LEMMA RecordFacts ==
    ASSUME ProcessorInv, NEW w \in Workers, RecordStart(w) \/ RecordClose(w)
    PROVE  \E e \in Execs :
              /\ \A r \in visible : \E s \in visible' : s.id = r.id /\ s.start = r.start
              /\ \A s \in visible' :
                    \/ \E r \in visible : s.id = r.id /\ s.start = r.start
                    \/ s.id = e /\ ~HasRow(visible, e)
              /\ \A r \in visible :
                    \/ r \in visible'
                    \/ /\ r.status # process[e] \/ ClosesTwice(e)
                       /\ r.id = e
                       /\ \E s \in visible' : s.id = r.id /\ s.start = r.start /\ s.status # "Running"
<1> USE DEF ProcessorInv
<1>1. Busy(w) /\ worker[w].pc = "recording"
  BY DEF RecordStart, RecordClose, Busy
<1>2. TaskOf(w) \in Tasks /\ TaskOf(w) \in Range(rows) /\ TaskOf(w).type = "visibility"
  BY <1>1, ElementFacts DEF WorkerInv, WorkerOK
<1>3. PICK e \in Execs : e = TaskOf(w).exec
  BY <1>2 DEF Tasks
<1>4. CASE RecordStart(w)
  <2>1. PICK new : new = [id |-> e, start |-> TaskOf(w).info.first, status |-> "Running"]
    OBVIOUS
  <2>2. visible' = visible \cup {new} /\ new.id = e /\ ~HasRow(visible, e)
    BY <1>3, <1>4, <2>1 DEF RecordStart, InsertProcessExecutionStartForVisibility
  <2> QED
    BY <2>2
<1>5. CASE RecordClose(w)
  <2>1. ClosesOK(e) /\ KeysUnique
    BY DEF RowsInv, RowsOK, VisibleInv
  <2>2. TaskOf(w).what # "Running"
    BY <1>5 DEF RecordClose
  <2>3. PICK status \in EndStatuses : status = TaskOf(w).what /\ (status = process[e] \/ ClosesTwice(e))
    BY <1>2, <1>3, <2>1, <2>2 DEF ClosesOK, EndStatuses
  <2>4. visible' = UpdateProcessExecutionStatusForVisibility(visible, e, status) /\ status # "Running"
    BY <1>3, <1>5, <2>2, <2>3 DEF RecordClose
  <2>5. /\ \A r \in visible : r.id # e \/ r.status = status => r \in visible'
        /\ \A r \in visible : \E s \in visible' : s.id = r.id /\ s.start = r.start /\ (r.id = e => s.status = status)
        /\ \A s \in visible' : \E r \in visible : s.id = r.id /\ s.start = r.start
    BY <2>1, <2>4, UpdateFacts
  <2> QED
    BY <2>3, <2>4, <2>5
<1> QED
  BY <1>4, <1>5

(* An execution that is shown closed closed with that status and keeps its *)
(* row, also when a start or a close is recorded again; unless it was      *)
(* replaced by TERMINATE_IF_RUNNING and its aborted state went on: then it *)
(* may be shown with its other end, but never as running.                  *)
THEOREM ClosedStaysClosed == Spec => VisibleNeverReopens
<1> DEFINE Stays == \A r \in visible : r.id \in Execs /\ r.status # "Running" =>
                       \/ r \in visible' /\ r.status = process[r.id]
                       \/ /\ r.id \in revived \ latest
                          /\ \E s \in visible' : s.id = r.id /\ s.start = r.start /\ s.status # "Running"
<1>1. ProcessorInv /\ [Next]_vars => [Stays]_vars
  <2> SUFFICES ASSUME ProcessorInv, [Next]_vars, NEW r \in visible, r.id \in Execs, r.status # "Running"
               PROVE  \/ r \in visible' /\ r.status = process[r.id]
                      \/ /\ r.id \in revived \ latest
                         /\ \E s \in visible' : s.id = r.id /\ s.start = r.start /\ s.status # "Running"
    OBVIOUS
  <2>1. r.status = process[r.id] \/ r.id \in revived \ latest
    BY DEF ProcessorInv, VisibleInv, VisibleOK, ClosesTwice
  <2>2. CASE visible' = visible
    BY <2>1, <2>2
  <2>3. ASSUME NEW w \in Workers, RecordStart(w) \/ RecordClose(w)
        PROVE  \/ r \in visible'
               \/ /\ r.status # process[r.id] \/ r.id \in revived \ latest
                  /\ \E s \in visible' : s.id = r.id /\ s.start = r.start /\ s.status # "Running"
    BY <2>3, RecordFacts DEF ClosesTwice
  <2> QED
    BY <2>1, <2>2, <2>3, Writers
<1> QED
  BY <1>1, ProcessorInvariant, PTL DEF Spec, VisibleNeverReopens

(* A page is empty only if nothing was found. *)
LEMMA EmptyPage ==
    ASSUME Typing, KeysUnique, PageSize > 0, NextPage = {}
    PROVE  Found = {}
<1> SUFFICES ASSUME Found # {} PROVE FALSE
  OBVIOUS
<1> DEFINE Ranks == {Rank(r) : r \in Found}
<1>1. \A r \in Found : r \in visible /\ Rank(r) \in Nat
  BY RankFacts DEF Found
<1>2. Ranks \in SUBSET Nat /\ Ranks # {}
  BY <1>1
<1> HIDE DEF Ranks
<1>3. PICK n \in Ranks : \A m \in Ranks : n <= m
  BY <1>2, NatHasLeast
<1>4. PICK r \in Found : n = Rank(r)
  BY DEF Ranks
<1>5. ASSUME NEW s \in Found, Before(s, r) PROVE FALSE
  <2>1. Rank(s) < Rank(r) /\ Rank(s) \in Nat /\ Rank(r) \in Nat
    BY <1>1, <1>5, RankFacts
  <2>2. Rank(r) <= Rank(s)
    BY <1>3, <1>4 DEF Ranks
  <2> QED
    BY <2>1, <2>2
<1>6. {s \in Found : Before(s, r)} = {}
  BY <1>5
<1>7. Rank(r) = 0
  BY <1>6, FS_EmptySet DEF Rank
<1> QED
  BY <1>7, NextPageIs

(* What a listing has shown: everything it began with that does not come   *)
(* after its token.                                                        *)
ListingOK ==
    token # FirstToken =>
        /\ PageSize > 0 /\ began \subseteq Ids(visible)
        /\ \A r \in visible : r.id \in began /\ ~Before(token, r) => r.id \in listed

(* The next page goes on where the last one ended. *)
LEMMA PageListed ==
    ASSUME ProcessorInv, ListingOK, ListProcessExecutions
    PROVE  ListingOK'
<1> USE DEF ProcessorInv
<1>1. /\ NextPage # {} /\ token' = TokenOf(NextPage) /\ visible' = visible
      /\ began' = (IF token = FirstToken THEN Ids(visible) ELSE began)
      /\ listed' = listed \cup Ids(NextPage)
  BY DEF ListProcessExecutions
<1>2. KeysUnique
  BY DEF VisibleInv
<1>3. PICK last \in NextPage : TokenOf(NextPage) = [id |-> last.id, start |-> last.start]
  BY <1>1, <1>2, TokenFacts
<1>4. last \in Found /\ last \in visible /\ Rank(last) < PageSize
  BY NextPageIs DEF Found
<1>5. began' \subseteq Ids(visible) /\ PageSize > 0
  <2>1. Rank(last) \in Nat
    BY <1>2, <1>4, RankFacts
  <2> QED
    BY <1>1, <1>4, <2>1, BoundAssumption DEF ListingOK
<1>6. ASSUME NEW r \in visible, r.id \in began', ~Before(token', r) PROVE r.id \in listed'
  <2>1. ~Before(last, r)
    BY <1>1, <1>3, <1>6 DEF Before
  <2>2. r = last \/ Before(r, last)
    BY <1>2, <1>4, <2>1, OrderFacts
  <2>3. r.id \in Nat \ {0} /\ r.start \in Nat
    BY RowFacts
  <2>4. CASE token # FirstToken /\ ~Before(token, r)
    BY <1>1, <1>6, <2>4 DEF ListingOK
  <2>5. CASE token = FirstToken \/ Before(token, r)
    <3>1. Beyond(r, token)
      BY <2>3, <2>5 DEF Beyond, Before, FirstToken, Typing
    <3>2. r \in Found
      BY <3>1 DEF Found
    <3>3. Rank(r) \in Nat /\ Rank(last) \in Nat /\ (Before(r, last) => Rank(r) < Rank(last))
      BY <1>2, <1>4, <3>2, RankFacts
    <3>4. Rank(r) < PageSize
      BY <1>4, <2>2, <3>3, BoundAssumption
    <3>5. r \in NextPage
      BY <3>2, <3>4, NextPageIs
    <3> QED
      BY <1>1, <3>5 DEF Ids
  <2> QED
    BY <2>4, <2>5
<1> QED
  BY <1>1, <1>5, <1>6 DEF ListingOK

LEMMA ListingStep == ProcessorInv /\ ListingOK /\ [Next]_vars => ListingOK'
<1> SUFFICES ASSUME ProcessorInv, ListingOK, [Next]_vars PROVE ListingOK'
  OBVIOUS
<1>1. CASE UNCHANGED <<visible, client>>
  BY <1>1 DEF ListingOK, client, Ids
<1>2. ASSUME client' = client, NEW w \in Workers, RecordStart(w) \/ RecordClose(w) PROVE ListingOK'
  <2>1. UNCHANGED <<token, began, listed>>
    BY <1>2 DEF client
  <2>2. PICK e \in Execs :
          /\ \A r \in visible : \E s \in visible' : s.id = r.id /\ s.start = r.start
          /\ \A s \in visible' :
                \/ \E r \in visible : s.id = r.id /\ s.start = r.start
                \/ s.id = e /\ ~HasRow(visible, e)
    BY <1>2, RecordFacts
  <2> SUFFICES ASSUME token # FirstToken PROVE ListingOK'
    BY <2>1 DEF ListingOK
  <2>3. began \subseteq Ids(visible')
    BY <2>2 DEF ListingOK, Ids
  <2>4. ASSUME NEW s \in visible', s.id \in began, ~Before(token, s) PROVE s.id \in listed
    <3>1. HasRow(visible, s.id)
      BY <2>4 DEF ListingOK, Ids, HasRow
    <3>2. PICK r \in visible : s.id = r.id /\ s.start = r.start
      BY <2>2, <3>1
    <3>3. ~Before(token, r)
      BY <2>4, <3>2 DEF Before
    <3> QED
      BY <2>4, <3>2, <3>3 DEF ListingOK
  <2> QED
    BY <2>1, <2>3, <2>4 DEF ListingOK
<1>3. CASE ListProcessExecutions
  BY <1>3, PageListed
<1>4. CASE ListingEnds
  BY <1>4 DEF ListingEnds, ListingOK
<1> QED
  BY <1>1, <1>2, <1>3, <1>4, Writers

(* A listing that ends has shown every execution it began with, whatever   *)
(* row came or changed meanwhile, for every size of a page.                *)
THEOREM EndedListingShowedAll == Spec => ListingLeavesOutNothing
<1> DEFINE Complete == token # FirstToken /\ token' = FirstToken => began \cap Ids(visible) \subseteq listed
<1>1. Init => ListingOK
  BY DEF Init, ListingOK
<1>2. ProcessorInv /\ ListingOK /\ [Next]_vars => [Complete]_vars
  <2> SUFFICES ASSUME ProcessorInv, ListingOK, [Next]_vars, token # FirstToken, token' = FirstToken,
                      NEW r \in visible, r.id \in began
               PROVE  r.id \in listed
    BY DEF Ids
  <2> USE DEF ProcessorInv
  <2>1. ~ListProcessExecutions
    <3> SUFFICES ASSUME ListProcessExecutions PROVE FALSE
      OBVIOUS
    <3>1. NextPage # {} /\ token' = TokenOf(NextPage)
      BY DEF ListProcessExecutions
    <3>2. PICK last \in NextPage : TokenOf(NextPage) = [id |-> last.id, start |-> last.start]
      BY <3>1, TokenFacts DEF VisibleInv
    <3>3. last \in visible
      BY NextPageIs DEF Found
    <3> QED
      BY <3>1, <3>2, <3>3, RowFacts DEF FirstToken
  <2>2. NextPage = {}
    BY <2>1, Writers DEF ListingEnds, client
  <2>3. r \notin Found
    BY <2>2, EmptyPage DEF ListingOK, VisibleInv
  <2>4. ~Before(token, r)
    <3>1. r.id \in Nat /\ r.start \in Nat
      BY RowFacts
    <3> QED
      BY <2>3, <3>1 DEF Found, Beyond, Before, Typing
  <2> QED
    BY <2>4 DEF ListingOK
<1> QED
  BY <1>1, <1>2, ListingStep, ProcessorInvariant, PTL DEF Spec, ListingLeavesOutNothing
=============================================================================
