-------------------------- MODULE BenchmarkProofs --------------------------
(***************************************************************************)
(* Proofs about the helpers of include/benchmark.h: the timing macros, for *)
(* any length of the second and any time on the clock; the macro           *)
(* MEASURE_CACHE_MISSES, for any descriptors and any number of misses; and *)
(* the statistics; all that is computed in doubles for any rounding that   *)
(* meets the assumptions of Doubles, Timing and Stats.                     *)
(***************************************************************************)
EXTENDS Timing, PerfCounter, Stats, TLAPS
-----------------------------------------------------------------------------
(***************************************************************************)
(* Errors and their bounds                                                 *)
(***************************************************************************)

\* x lies between -y and y.
Within(x, y) == -y <= x /\ x <= y

\* Multiplication by a natural number keeps the order,
LEMMA Scale == ASSUME NEW a \in Int, NEW b \in Int, NEW c \in Nat, a <= b
               PROVE  c * a <= c * b
OBVIOUS

\* and a positive factor can be cancelled.
LEMMA Cancel == ASSUME NEW a \in Int, NEW b \in Int, NEW c \in Nat, c > 0, c * a <= c * b
               PROVE  a <= b
OBVIOUS

\* Scaling an error and its bound.
LEMMA Widen ==
  ASSUME NEW a \in Int, NEW b \in Int, NEW c \in Nat, Within(a, b)
  PROVE  Within(c * a, c * b)
<1>1. c * a <= c * b /\ c * (-b) <= c * a  BY Scale DEF Within
<1>2. c * (-b) = -(c * b)  OBVIOUS
<1> QED  BY <1>1, <1>2 DEF Within

\* A bound on both sides is one on the absolute value.
LEMMA AbsWithin ==
  ASSUME NEW z \in Int, NEW k \in Nat, NEW y \in Int, Within(k * z, y)
  PROVE  Abs(z) * k <= y
<1>1. CASE z < 0
  <2>1. (-z) * k = -(k * z)  OBVIOUS
  <2> QED  BY <1>1, <2>1 DEF Abs, Within
<1>2. CASE ~(z < 0)
  <2>1. z * k = k * z  OBVIOUS
  <2> QED  BY <1>2, <2>1 DEF Abs, Within
<1> QED  BY <1>1, <1>2

\* The constants of the doubles are positive.
LEMMA DoublesConstants ==
  /\ U \in Nat /\ U > 0 /\ One \in Nat /\ One > 0 /\ Limit \in Nat
  /\ Floats \subseteq 0..Limit
  BY DoublesAssumption DEF Floats

\* An accurate rounding, as a bound on both sides.
LEMMA AccurateWithin ==
  ASSUME NEW n \in Nat, NEW d \in Nat, Accurate(n, d)
  PROVE  /\ Rounded(n, d) \in Floats /\ Rounded(n, d) \in Nat
         /\ Within(U * (d * Rounded(n, d) - n), n)
<1> DEFINE r == Rounded(n, d)
           z == d * r - n
<1>1. r \in Floats  BY Zenon DEF Accurate
<1>2. U * Abs(z) <= n  BY Zenon DEF Accurate
<1> HIDE DEF r
<1>3. r \in Nat  BY <1>1, DoublesConstants
<1>4. z \in Int  BY <1>3
<1> HIDE DEF z
<1>5. Within(U * z, n)
  <2>1. CASE z < 0
    <3>1. U * (-z) <= n /\ U * (-z) >= 0 /\ U * (-z) = -(U * z)
      BY <1>2, <1>4, <2>1, DoublesConstants DEF Abs
    <3> QED  BY <1>4, <3>1, DoublesConstants DEF Within
  <2>2. CASE ~(z < 0)
    <3>1. U * z <= n /\ U * z >= 0  BY <1>2, <1>4, <2>2, DoublesConstants DEF Abs
    <3> QED  BY <1>4, <3>1, DoublesConstants DEF Within
  <2> QED  BY <2>1, <2>2
<1> QED  BY <1>1, <1>3, <1>5 DEF r, z
-----------------------------------------------------------------------------
(***************************************************************************)
(* Timing                                                                  *)
(***************************************************************************)

Timespecs == [tv_sec : Nat, tv_nsec : 0..(Second - 1)]

\* The first reading is kept as it was.
ClockInv == /\ start = Timespec(began) /\ began <= clock

\* How often the block has run tells where control is.
RunsInv == kind # "TIME_IT" =>
             /\ pc \in {"enter", "body"} => runs = 0
             /\ pc = "test" => runs = IF again THEN 0 ELSE 1
             /\ pc \in {"step", "after"} => runs = 1

TimingInv == TypeOK /\ ClockInv /\ RunsInv /\ ElapsedAccurate
-----------------------------------------------------------------------------
\* A number of nanoseconds survives being split into a timespec.
LEMMA NanosOfTimespec ==
  ASSUME NEW n \in Nat
  PROVE  /\ Timespec(n) \in Timespecs
         /\ Nanos(Timespec(n)) = n
<1>1. Second \in Nat /\ Second > 0  BY TimingAssumption
<1>2. n \div Second \in Nat /\ n % Second \in 0..(Second - 1)  BY <1>1
<1>3. (n \div Second) * Second + (n % Second) = n  BY <1>1
<1> QED  BY <1>2, <1>3 DEF Timespec, Timespecs, Nanos

\* The error of a sum of a whole number of seconds, a, and of a quotient, q,
\* of c nanoseconds: that of the sum and that of the quotient.
LEMMA TimeError ==
  ASSUME NEW u \in Nat, NEW o \in Nat, NEW k \in Nat, NEW a \in Nat, NEW c \in Int,
         NEW q \in Int, NEW r \in Int, NEW g \in Nat,
         Within(u * (k * q - c * o), g * o),
         Within(u * (r - (a * o + q)), a * o + q)
  PROVE  Within(u * u * (k * r - (a * k + c) * o), (u * (a * k + c) + (u + 1) * g) * o)
<1> DEFINE x == u * (k * q - c * o)
           y == a * o + q
           z == u * (r - y)
           w == u * k
           e == u * u * (k * r - (a * k + c) * o)
           t == u * (a * k + c) * o
           h == g * o
<1>1. /\ x \in Int /\ y \in Int /\ z \in Int /\ w \in Nat /\ e \in Int /\ t \in Int
      /\ h \in Int /\ Within(x, h) /\ Within(z, y)
  OBVIOUS
<1>2. e = w * z + u * x  OBVIOUS
<1>3. w * y = t + x  OBVIOUS
<1>4. (u * (a * k + c) + (u + 1) * g) * o = t + u * h + h  OBVIOUS
<1> HIDE DEF x, y, z, w, e, t, h
<1>5. Within(w * z, w * y) /\ Within(u * x, u * h)  BY <1>1, Widen
<1>6. w * z \in Int /\ w * y \in Int /\ u * x \in Int /\ u * h \in Int  BY <1>1
<1>7. Within(e, t + u * h + h)  BY <1>1, <1>2, <1>3, <1>5, <1>6 DEF Within
<1> QED  BY <1>4, <1>7 DEF e

\* Nanoseconds divided by 1e9 are accurate, and at most 1.0.
LEMMA QuotientOfNat ==
  ASSUME NEW c \in 0..(Second - 1)
  PROVE  /\ Rounded(c * One, Second) \in 0..One
         /\ Within(U * (Second * Rounded(c * One, Second) - c * One), c * One)
<1> DEFINE q == Rounded(c * One, Second)
           n == c * One
           k == U * Second
<1>1. /\ c \in Nat /\ Second \in Nat /\ Second > 0 /\ Second <= U /\ c <= Second - 1
      /\ n \in Nat /\ k \in Nat
  BY TimingAssumption, DoublesConstants
<1>2. Accurate(c * One, Second)  BY TimingAssumption
<1>3. q \in Nat /\ Within(U * (Second * q - n), n)  BY <1>1, <1>2, AccurateWithin
<1>4. k > 0  BY <1>1, DoublesConstants
<1>5. (U + 1) * c <= k
  <2>1. (U + 1) * c <= (U + 1) * (Second - 1)  BY <1>1, DoublesConstants, Scale
  <2>2. (U + 1) * (Second - 1) = U * Second + Second - U - 1  BY <1>1, DoublesConstants
  <2> QED  BY <1>1, <2>1, <2>2, DoublesConstants
<1>6. q <= One
  <2> DEFINE v == (U + 1) * c
  <2>1. v \in Nat  BY <1>1, DoublesConstants
  <2>2. U * (Second * q - n) = k * q - U * n /\ U * n + n = One * v
    BY <1>1, <1>3, DoublesConstants
  <2> HIDE DEF v
  <2>3. One * v <= One * k  BY <1>1, <1>5, <2>1, DoublesConstants, Scale DEF v
  <2> HIDE DEF q, n, k
  <2>4. k * q <= One * k /\ One * k = k * One
    BY <1>1, <1>3, <2>1, <2>2, <2>3, DoublesConstants DEF Within
  <2> QED  BY <1>1, <1>3, <1>4, <2>4, DoublesConstants, Cancel
<1> QED  BY <1>3, <1>6, DoublesConstants

\* The same on both sides of 0: g bounds the nanoseconds.
LEMMA QuotientError ==
  ASSUME NEW c \in Int, NEW g \in Nat, Within(c, g), Within(c, Second - 1)
  PROVE  /\ Quotient(c) \in Int /\ Within(Quotient(c), One)
         /\ c >= 0 => Quotient(c) >= 0
         /\ Within(U * (Second * Quotient(c) - c * One), g * One)
<1>1. Second \in Nat /\ One \in Nat /\ U \in Nat  BY TimingAssumption, DoublesConstants
<1>2. CASE c >= 0
  <2> DEFINE q == Rounded(c * One, Second)
  <2>1. c \in 0..(Second - 1)  BY <1>1, <1>2 DEF Within
  <2>2. q \in 0..One /\ Within(U * (Second * q - c * One), c * One)  BY <2>1, QuotientOfNat
  <2>3. Quotient(c) = q  BY <1>2 DEF Quotient
  <2>4. One * c <= One * g  BY <1>1, Scale DEF Within
  <2> HIDE DEF q
  <2>5. U * (Second * q - c * One) \in Int /\ One * c = c * One /\ One * g = g * One
    BY <1>1, <2>2
  <2>6. Within(U * (Second * q - c * One), g * One)
    BY <1>1, <2>2, <2>4, <2>5 DEF Within
  <2> QED  BY <1>1, <2>2, <2>3, <2>6 DEF Within
<1>3. CASE c < 0
  <2> DEFINE b == -c
             q == Rounded(b * One, Second)
  <2>1. b \in 0..(Second - 1) /\ b <= g  BY <1>1, <1>3 DEF Within
  <2>2. q \in 0..One /\ Within(U * (Second * q - b * One), b * One)  BY <2>1, QuotientOfNat
  <2>3. Quotient(c) = -q  BY <1>3 DEF Quotient
  <2>4. c = -b  OBVIOUS
  <2> HIDE DEF q, b
  <2>5. One * b <= One * g /\ b \in Int  BY <1>1, <2>1, Scale
  <2>6. /\ U * (Second * q - b * One) \in Int /\ One * b = b * One /\ One * g = g * One
        /\ U * (Second * (-q) - (-b) * One) = -(U * (Second * q - b * One))
    BY <1>1, <2>2, <2>5
  <2>7. Within(U * (Second * (-q) - c * One), g * One)
    BY <1>1, <2>2, <2>4, <2>5, <2>6 DEF Within
  <2> QED  BY <1>1, <1>3, <2>2, <2>3, <2>7 DEF Within
<1> QED  BY <1>2, <1>3

\* Of the nanoseconds from m to n, those that are divided by 1e9 at most.
DividedOf(m, n) == IF m \div Second = n \div Second THEN n - m ELSE Second - 1

\* Seconds and nanoseconds of two readings, subtracted apart.
LEMMA PartsOfReadings ==
  ASSUME NEW m \in Nat, NEW n \in Nat, m <= n
  PROVE  LET a == n \div Second - m \div Second
             c == (n % Second) - (m % Second)
         IN  /\ a \in Nat /\ a <= n /\ c \in Int /\ a * Second + c = n - m
             /\ Within(c, Second - 1) /\ Within(c, DividedOf(m, n)) /\ DividedOf(m, n) \in Nat
             /\ a = 0 => c >= 0
<1> DEFINE i == m \div Second
           j == m % Second
           k == n \div Second
           l == n % Second
<1>1. Second \in Nat /\ Second > 0  BY TimingAssumption
<1>2. /\ i \in Nat /\ j \in 0..(Second - 1) /\ m = Second * i + j
      /\ k \in Nat /\ l \in 0..(Second - 1) /\ n = Second * k + l
  BY <1>1
<1>3. DividedOf(m, n) = IF i = k THEN n - m ELSE Second - 1  BY DEF DividedOf
<1> HIDE DEF i, j, k, l
<1>4. i <= k
  <2> SUFFICES ASSUME k + 1 <= i PROVE FALSE  BY <1>2
  <2>1. Second * (k + 1) <= Second * i  BY <1>1, <1>2, Scale
  <2>2. Second * (k + 1) = Second * k + Second  BY <1>1, <1>2
  <2>3. Second * k \in Nat /\ Second * i \in Nat  BY <1>1, <1>2
  <2> QED  BY <1>1, <1>2, <2>1, <2>2, <2>3
<1>5. k <= n
  <2>1. k * 1 <= k * Second  BY <1>1, <1>2, Scale
  <2> QED  BY <1>1, <1>2, <2>1
<1>6. (k - i) * Second + (l - j) = n - m
  <2>1. (k - i) * Second = Second * k - Second * i  BY <1>1, <1>2
  <2>2. Second * k \in Nat /\ Second * i \in Nat  BY <1>1, <1>2
  <2> QED  BY <1>1, <1>2, <2>1, <2>2
<1>7. Within(l - j, Second - 1)  BY <1>1, <1>2 DEF Within
<1>8. i = k => l - j = n - m  BY <1>1, <1>2
<1>9. Within(l - j, DividedOf(m, n)) /\ DividedOf(m, n) \in Nat
  BY <1>1, <1>2, <1>3, <1>7, <1>8 DEF Within
<1>10. k - i \in Nat /\ k - i <= n /\ l - j \in Int /\ (k - i = 0 => l - j >= 0)
  BY <1>1, <1>2, <1>4, <1>5, <1>8
<1> QED  BY <1>6, <1>7, <1>9, <1>10 DEF i, j, k, l

\* The readings of TIME_BLOCK are subtracted exactly; the double of the other
\* forms has the errors of its two roundings, and is not negative.
LEMMA ElapsedOfReadings ==
  ASSUME NEW m \in Nat, NEW n \in 0..MaxClock, m <= n
  PROVE  LET r == Elapsed(Timespec(m), Timespec(n))
         IN  /\ r \in Nat
             /\ IF kind = "TIME_BLOCK"
                  THEN r = n - m
                  ELSE Abs(Second * r - (n - m) * One) * U * U
                         <= (U * (n - m) + (U + 1) * DividedOf(m, n)) * One
<1> DEFINE r == Elapsed(Timespec(m), Timespec(n))
           a == n \div Second - m \div Second
           c == (n % Second) - (m % Second)
           q == Quotient(c)
           y == a * One + q
           g == DividedOf(m, n)
<1>0. /\ MaxClock \in Nat /\ n \in Nat /\ n <= MaxClock
      /\ Second \in Nat /\ One \in Nat /\ U \in Nat /\ One > 0
      /\ (MaxClock + 1) * One <= Limit /\ Limit \in Nat
  BY TimingAssumption, DoublesConstants
<1>1. CASE kind = "TIME_BLOCK"
  <2>1. r = Nanos(Timespec(n)) - Nanos(Timespec(m))  BY <1>1 DEF Elapsed
  <2>2. r = n - m  BY <1>0, <2>1, NanosOfTimespec
  <2> QED  BY <1>0, <1>1, <2>2
<1>2. CASE kind # "TIME_BLOCK"
  <2>1. r = Rounded(y, 1)  BY <1>2 DEF Elapsed, Timespec
  <2>2. /\ a \in Nat /\ a <= n /\ c \in Int /\ a * Second + c = n - m
        /\ Within(c, Second - 1) /\ Within(c, g) /\ g \in Nat /\ (a = 0 => c >= 0)
    BY <1>0, PartsOfReadings
  <2> HIDE DEF a, c, g
  <2>3. /\ q \in Int /\ Within(q, One) /\ (c >= 0 => q >= 0)
        /\ Within(U * (Second * q - c * One), g * One)
    BY <2>2, QuotientError
  <2> HIDE DEF q, r
  <2>4. y \in 0..Limit
    <3>1. a * One \in Nat /\ y \in Int  BY <1>0, <2>2, <2>3
    <3>2. a = 0 => a * One = 0  BY <1>0
    <3>3. a # 0 => a * One >= One
      <4>1. a # 0 => One * 1 <= One * a  BY <1>0, <2>2, Scale
      <4> QED  BY <1>0, <2>2, <4>1
    <3>4. a * One + One <= Limit
      <4>1. One * (a + 1) <= One * (MaxClock + 1)  BY <1>0, <2>2, Scale
      <4>2. One * (a + 1) = a * One + One /\ One * (MaxClock + 1) = (MaxClock + 1) * One
        BY <1>0, <2>2
      <4> QED  BY <1>0, <3>1, <4>1, <4>2
    <3> QED  BY <1>0, <2>2, <2>3, <3>1, <3>2, <3>3, <3>4 DEF Within
  <2> HIDE DEF y
  <2>5. y \in Nat /\ Accurate(y, 1)  BY <1>0, <2>4, DoublesAssumption
  <2>6. r \in Nat /\ Within(U * (1 * r - y), y)  BY <2>1, <2>5, AccurateWithin
  <2>7. Within(U * (r - y), y)
    <3>1. 1 * r = r  BY <2>6
    <3> QED  BY <2>6, <3>1
  <2>8. Within(U * (r - (a * One + q)), a * One + q)  BY <2>7 DEF y
  <2>9. Within(U * U * (Second * r - (a * Second + c) * One),
               (U * (a * Second + c) + (U + 1) * g) * One)
    <3>1. r \in Int  BY <2>6
    <3> QED  BY <1>0, <2>2, <2>3, <2>8, <3>1, TimeError, Zenon
  <2> DEFINE z == Second * r - (n - m) * One
             b == (U * (n - m) + (U + 1) * g) * One
  <2>10. Within((U * U) * z, b)  BY <2>2, <2>9
  <2>11. z \in Int /\ b \in Int /\ U * U \in Nat  BY <1>0, <2>2, <2>6
  <2> HIDE DEF z, b
  <2>12. Abs(z) * (U * U) <= b  BY <2>10, <2>11, AbsWithin
  <2>13. Abs(z) \in Int  BY <2>11 DEF Abs
  <2>14. Abs(z) * U * U <= b
    <3> DEFINE v == Abs(z)
    <3> HIDE DEF v
    <3>1. v * (U * U) = v * U * U  BY <1>0, <2>13 DEF v
    <3> QED  BY <2>12, <3>1 DEF v
  <2> QED  BY <1>2, <2>6, <2>14 DEF z, b, g, r
<1> QED  BY <1>1, <1>2

\* The block has not run at the start.
LEMMA TimingIndInit == Init => TimingInv
<1> SUFFICES ASSUME Init PROVE TimingInv  OBVIOUS
<1>1. Timespec(0) \in Timespecs  BY NanosOfTimespec
<1>2. again \in BOOLEAN  BY Zenon DEF Init
<1>3. TypeOK  BY <1>1, <1>2, TimingAssumption DEF Init, TypeOK, Timespecs
<1>4. ClockInv  BY TimingAssumption DEF Init, ClockInv
<1>5. RunsInv /\ ElapsedAccurate  BY DEF Init, RunsInv, ElapsedAccurate
<1> QED  BY <1>3, <1>4, <1>5 DEF TimingInv

\* Every step keeps the invariant.
LEMMA TimingIndNext == TimingInv /\ [Next]_vars => TimingInv'
<1> SUFFICES ASSUME TimingInv, [Next]_vars PROVE TimingInv'  OBVIOUS
<1>0. MaxClock \in Nat /\ clock \in Nat /\ began \in Nat
  BY TimingAssumption DEF TimingInv, TypeOK
<1> USE <1>0 DEF TimingInv
<1>a. ASSUME UNCHANGED <<kind, again, elapsed, began, ended>> PROVE ElapsedAccurate'
  BY <1>a, Zenon DEF ElapsedAccurate, Divided
<1>1. CASE Tick
  <2>1. ElapsedAccurate'  BY <1>1, <1>a DEF Tick
  <2> QED  BY <1>1, <2>1 DEF Tick, TypeOK, ClockInv, RunsInv, Timespec
<1>2. CASE Enter
  <2>1. Timespec(clock) \in Timespecs  BY NanosOfTimespec
  <2>2. again' \in BOOLEAN  BY <1>2, Zenon DEF Enter
  <2>3. TypeOK'  BY <1>2, <2>1, <2>2 DEF Enter, TypeOK, Timespecs
  <2>4. ClockInv'  BY <1>2 DEF Enter, ClockInv, Timespec
  <2>5. RunsInv' /\ ElapsedAccurate'  BY <1>2 DEF Enter, TypeOK, RunsInv, ElapsedAccurate
  <2> QED  BY <2>3, <2>4, <2>5
<1>3. CASE Test
  <2>1. TypeOK'  BY <1>3 DEF Test, Exit, TypeOK
  <2>2. ClockInv' /\ ElapsedAccurate'
    BY <1>3, <1>a DEF Test, Exit, TypeOK, ClockInv, Timespec
  <2>3. RunsInv'  BY <1>3 DEF Test, Exit, TypeOK, RunsInv
  <2> QED  BY <2>1, <2>2, <2>3
<1>4. CASE Body
  <2>1. TypeOK'  BY <1>4 DEF Body, Exit, TypeOK
  <2>2. RunsInv'  BY <1>4 DEF Body, Exit, TypeOK, RunsInv
  <2>3. ClockInv' /\ ElapsedAccurate'
    BY <1>4, <1>a DEF Body, TypeOK, ClockInv, Timespec
  <2> QED  BY <2>1, <2>2, <2>3
<1>5. CASE Step
  <2>1. /\ elapsed' = Elapsed(Timespec(began), Timespec(clock)) /\ ended' = clock
        /\ began' = began /\ began <= clock /\ kind' = kind /\ clock' = clock
        /\ clock \in 0..MaxClock
    BY <1>5 DEF Step, ClockInv, TypeOK
  <2>2. /\ elapsed' \in Nat
        /\ IF kind = "TIME_BLOCK"
             THEN elapsed' = clock - began
             ELSE Abs(Second * elapsed' - (clock - began) * One) * U * U
                    <= (U * (clock - began) + (U + 1) * DividedOf(began, clock)) * One
    BY <2>1, ElapsedOfReadings
  <2>3. again' = FALSE /\ again' \in BOOLEAN  BY <1>5, Zenon DEF Step
  <2>4. TypeOK'  BY <1>5, <2>1, <2>2, <2>3 DEF Step, TypeOK
  <2>5. ClockInv'  BY <1>5, <2>1 DEF Step, ClockInv, Timespec
  <2>7. Divided' = DividedOf(began, clock)  BY <2>1 DEF Divided, DividedOf
  <2>8. ElapsedAccurate'  BY <2>1, <2>2, <2>7, Zenon DEF ElapsedAccurate
  <2>6. RunsInv'  BY <1>5, <2>3 DEF Step, TypeOK, RunsInv
  <2> QED  BY <2>4, <2>5, <2>6, <2>8
<1>6. CASE UNCHANGED vars
  <2>1. ElapsedAccurate'  BY <1>6, <1>a DEF vars
  <2> QED  BY <1>6, <2>1 DEF vars, TypeOK, ClockInv, RunsInv, Timespec
<1> QED
  BY <1>1, <1>2, <1>3, <1>4, <1>5, <1>6 DEF Next, Program, Terminating

\* The inductive invariant holds throughout.
THEOREM TimingInvariant == Spec => []TimingInv
  BY TimingIndInit, TimingIndNext, PTL DEF Spec

\* Types; in particular no negative time is ever reported.
THEOREM TimingTypes == Spec => []TypeOK
<1>1. TimingInv => TypeOK  BY DEF TimingInv
<1> QED  BY <1>1, TimingInvariant, PTL

\* The time reported is the time between the readings, exactly in TIME_BLOCK
\* and up to two roundings in the other forms.
THEOREM TimingElapsedAccurate == Spec => []ElapsedAccurate
<1>1. TimingInv => ElapsedAccurate  BY DEF TimingInv
<1> QED  BY <1>1, TimingInvariant, PTL

\* TIME_BLOCK and measure_time run their block no more than once.
THEOREM TimingBlockOnce == Spec => []BlockOnce
<1>1. TimingInv => BlockOnce  BY DEF TimingInv, TypeOK, RunsInv, BlockOnce
<1> QED  BY <1>1, TimingInvariant, PTL

\* TIME_IT never gets to the statement after its block, however long it runs
\* and whether the block breaks or not: its outer loop always starts again.
THEOREM TimeItNeverEnds == Spec => [](kind = "TIME_IT" => pc # "after")
<1> DEFINE Looping == kind = "TIME_IT" => pc # "after"
<1>1. Init => Looping  BY DEF Init
<1>2. Looping /\ [Next]_vars => Looping'
  BY DEF Next, Program, Tick, Enter, Test, Body, Step, Exit, Terminating, vars
<1> QED  BY <1>1, <1>2, PTL DEF Spec
-----------------------------------------------------------------------------
(***************************************************************************)
(* The performance counter                                                 *)
(***************************************************************************)

\* Between init and stop fd is the macro's own, unless opening it failed.
Holding == at = "start" \/ at = "body" \/ at = "stop" \/ (at = "test" /\ ~finished)

\* The counter counts from start to stop, and only if there is one.
CountInv == /\ at = "start" => hw = 0 /\ ~enabled
            /\ Holding /\ at # "start" =>
                 IF fd = -1 THEN ~enabled /\ hw = 0 ELSE enabled /\ hw = missed

\* The descriptor in use is not one that a break has left behind, and at the
\* turn of the loop the test fails only after a stop.
FdInv == /\ Holding => fd \notin lost
         /\ at \in {"body", "stop"} => ~finished
         /\ at # "after"

PerfInv == PerfTypeOK /\ CountInv /\ FdInv /\ MissesExact /\ OnlyBreaksLeak
-----------------------------------------------------------------------------
\* Nothing is open and nothing is measured at the start.
LEMMA PerfIndInit == PerfInit => PerfInv
<1> SUFFICES ASSUME PerfInit PROVE PerfInv  OBVIOUS
<1>0. MaxMisses \in Nat  BY PerfAssumption
<1>a. finished \in BOOLEAN /\ enabled \in BOOLEAN  BY Zenon DEF PerfInit
<1>b. /\ at \in {"init", "start", "test", "body", "stop", "after"}
      /\ fd \in Fds \cup {-1} /\ open \subseteq Fds /\ lost \subseteq Fds
  BY DEF PerfInit
<1>c. hw \in 0..MaxMisses /\ missed \in 0..MaxMisses  BY <1>0 DEF PerfInit
<1>d. count \in 0..MaxMisses /\ miss_var \in 0..MaxMisses  BY DEF PerfInit
<1>1. PerfTypeOK  BY <1>a, <1>b, <1>c, <1>d DEF PerfTypeOK
<1>2. CountInv /\ FdInv /\ MissesExact
  BY DEF PerfInit, CountInv, FdInv, Holding, MissesExact
<1>3. OnlyBreaksLeak  BY DEF PerfInit, OnlyBreaksLeak
<1> QED  BY <1>1, <1>2, <1>3 DEF PerfInv

\* Every step keeps the invariant.
LEMMA PerfIndNext == PerfInv /\ [PerfNext]_perfVars => PerfInv'
<1> SUFFICES ASSUME PerfInv, [PerfNext]_perfVars PROVE PerfInv'  OBVIOUS
<1>0. -1 \notin Fds /\ MaxMisses \in Nat  BY PerfAssumption
<1> USE <1>0
    DEF PerfInv, PerfTypeOK, CountInv, FdInv, Holding, MissesExact, OnlyBreaksLeak
<1>1. CASE CounterInit
  <2>a. finished' \in BOOLEAN /\ enabled' \in BOOLEAN
    BY <1>1, Zenon DEF CounterInit, PerfEventOpen
  <2>b. fd' \in Fds \cup {-1} /\ open' \subseteq Fds
    BY <1>1 DEF CounterInit, PerfEventOpen
  <2>c. hw' \in 0..MaxMisses  BY <1>1 DEF CounterInit, PerfEventOpen
  <2>1. PerfTypeOK'  BY <1>1, <2>a, <2>b, <2>c DEF CounterInit
  <2>2. CountInv' /\ MissesExact'  BY <1>1 DEF CounterInit, PerfEventOpen
  <2>3. FdInv'  BY <1>1 DEF CounterInit, PerfEventOpen
  <2>4. OnlyBreaksLeak'  BY <1>1 DEF CounterInit, PerfEventOpen
  <2> QED  BY <2>1, <2>2, <2>3, <2>4
<1>2. CASE CounterStart  BY <1>2 DEF CounterStart
<1>3. CASE DoneTest  BY <1>3 DEF DoneTest, DoneExit
<1>4. CASE Miss  BY <1>4 DEF Miss
<1>5. CASE BlockEnds  BY <1>5 DEF BlockEnds
<1>6. CASE BlockBreaks  BY <1>6 DEF BlockBreaks, DoneExit
<1>7. CASE CounterStop  BY <1>7 DEF CounterStop, Read, Close
<1>8. CASE UNCHANGED perfVars  BY <1>8 DEF perfVars
<1> QED
  BY <1>1, <1>2, <1>3, <1>4, <1>5, <1>6, <1>7, <1>8 DEF PerfNext, Macro

\* The inductive invariant holds throughout.
THEOREM PerfInvariant == PerfSpec => []PerfInv
  BY PerfIndInit, PerfIndNext, PTL DEF PerfSpec

\* A counter that could be opened reports the misses of this run of the
\* block, whatever earlier runs did (perf_counter_start, perf_counter_stop).
THEOREM PerfMissesExact == PerfSpec => []MissesExact
<1>1. PerfInv => MissesExact  BY DEF PerfInv
<1> QED  BY <1>1, PerfInvariant, PTL

\* Descriptors are left open by breaks only (perf_counter_close).
THEOREM PerfOnlyBreaksLeak == PerfSpec => []OnlyBreaksLeak
<1>1. PerfInv => OnlyBreaksLeak  BY DEF PerfInv
<1> QED  BY <1>1, PerfInvariant, PTL

\* MEASURE_CACHE_MISSES never gets to the statement after its block: its outer
\* loop has no condition.
THEOREM MeasureCacheMissesNeverEnds == PerfSpec => [](at # "after")
<1>1. PerfInv => at # "after"  BY DEF PerfInv, FdInv
<1> QED  BY <1>1, PerfInvariant, PTL
-----------------------------------------------------------------------------
(***************************************************************************)
(* The statistics: arithmetic of error bounds, then the invariant.         *)
(***************************************************************************)
\* Squares of natural numbers are ordered like the numbers.
LEMMA SquareMono ==
  ASSUME NEW a \in Nat, NEW b \in Nat, a <= b
  PROVE  a * a <= b * b
<1>1. a * a <= a * b /\ b * a <= b * b  BY Scale
<1>2. a * b = b * a  OBVIOUS
<1> QED  BY <1>1, <1>2

\* One addition.  f approximates e, the exact sum of n samples, with n - 1
\* roundings; adding x makes it n.  If x is small beside e the rounding is no
\* further off than f would be; if not, the error in f is small beside x.
LEMMA SumStep ==
  ASSUME NEW u \in Nat, u > 0, NEW n \in Nat, n > 0,
         NEW f \in Nat, NEW e \in Nat, NEW x \in Nat, NEW r \in Nat,
         Within(u * (f - e), (n - 1) * e),
         Within(r - (f + x), x),
         Within(u * (r - (f + x)), f + x)
  PROVE  Within(u * (r - (e + x)), n * (e + x))
<1>1. CASE u * x <= e
  <2>1. Within(u * (r - (f + x)), u * x)  BY DEF Within
  <2>2. u * (r - (e + x)) = u * (r - (f + x)) + u * (f - e)  OBVIOUS
  <2>3. n * (e + x) = (n - 1) * e + e + n * x /\ n * x >= 0 OBVIOUS
  <2> QED  BY <1>1, <2>1, <2>2, <2>3 DEF Within
<1>2. CASE e <= u * x
  <2>1. (n - 1) * e <= (n - 1) * (u * x)  BY <1>2, Scale
  <2>2. /\ (n - 1) * (u * x) = u * ((n - 1) * x)
        /\ -(u * ((n - 1) * x)) = u * (-((n - 1) * x))
    OBVIOUS
  <2>3. Within(f - e, (n - 1) * x)
    <3> DEFINE y == (n - 1) * x
    <3>1. y \in Int /\ u * (f - e) <= u * y /\ u * (-y) <= u * (f - e)
      BY <2>1, <2>2 DEF Within
    <3> HIDE DEF y
    <3>2. f - e <= y /\ -y <= f - e  BY <3>1, Cancel
    <3> QED  BY <3>2 DEF y, Within
  <2>4. u * (r - (e + x)) = u * (r - (f + x)) + u * (f - e)  OBVIOUS
  <2>5. n * (e + x) = (n - 1) * e + (n - 1) * x + e + x  OBVIOUS
  <2>6. f + x = (f - e) + e + x  OBVIOUS
  <2> QED  BY <2>3, <2>4, <2>5, <2>6 DEF Within
<1> QED  BY <1>1, <1>2

\* n is a number of samples small beside the precision u.
Few(n, u) == n \in Nat /\ n > 0 /\ u \in Nat /\ 8 * (n + 1) * (n + 1) <= u

\* What it means for the higher powers of 1/u to be negligible.
LEMMA FewFacts ==
  ASSUME NEW n, NEW u, Few(n, u)
  PROVE  /\ n \in Nat /\ u \in Nat /\ n > 0 /\ u > 0
         /\ 8 * n <= u /\ 8 * n + 10 <= u /\ 16 * n + 3 <= u
         /\ (8 * n + 1) * (8 * n + 1) <= 8 * u
<1>1. 8 * (n + 1) * (n + 1) = 8 * (n * n) + 16 * n + 8 /\ n * n >= n  BY DEF Few
<1>2. (8 * n + 1) * (8 * n + 1) = 64 * (n * n) + 16 * n + 1  BY DEF Few
<1> QED  BY <1>1, <1>2 DEF Few

\* The division by n is one more rounding.
LEMMA MeanStep ==
  ASSUME NEW u \in Nat, NEW n \in Nat, n > 0,
         NEW f \in Nat, NEW e \in Nat, NEW m \in Nat,
         Within(u * (f - e), (n - 1) * e),
         Within(u * (n * m - f), f)
  PROVE  Within(u * u * (n * m - e), n * (u + 1) * e)
<1> DEFINE p == n * m
<1>0. p \in Nat  OBVIOUS
<1>1. Within(u * (p - e), f + (n - 1) * e)
  <2>1. u * (p - e) = u * (p - f) + u * (f - e)  BY <1>0
  <2> QED  BY <2>1 DEF Within
<1> HIDE DEF p
<1>2. Within(u * (u * (p - e)), u * (f + (n - 1) * e))
  <2> DEFINE a == u * (p - e)
             b == f + (n - 1) * e
  <2>1. a \in Int /\ b \in Int /\ Within(a, b)  BY <1>0, <1>1
  <2> HIDE DEF a, b
  <2>2. u * a <= u * b /\ u * (-b) <= u * a  BY <2>1, Scale DEF Within
  <2>3. u * (-b) = -(u * b)  BY <2>1
  <2>4. Within(u * a, u * b)  BY <2>2, <2>3 DEF Within
  <2> QED  BY <2>4 DEF a, b
<1>3. u * (f + (n - 1) * e) = u * (f - e) + u * e + u * ((n - 1) * e)  OBVIOUS
<1>4. n * (u + 1) * e = u * e + u * ((n - 1) * e) + (n - 1) * e + e  OBVIOUS
<1>5. u * u * (p - e) = u * (u * (p - e))  BY <1>0
<1>6. Within(u * u * (p - e), n * (u + 1) * e)  BY <1>0, <1>2, <1>3, <1>4, <1>5 DEF Within
<1> QED  BY <1>6 DEF p

\* An error of n roundings, with that of the last, is less than n + 1/8.
LEMMA FirstOrder ==
  ASSUME NEW u, NEW n, Few(n, u), NEW d \in Int, NEW e \in Nat,
         Within(u * u * d, n * (u + 1) * e)
  PROVE  Within(8 * u * d, (8 * n + 1) * e)
<1>0. /\ n \in Nat /\ u \in Nat /\ n > 0 /\ u > 0 /\ 8 * n <= u  BY FewFacts
<1>1. 8 * (n * (u + 1) * e) <= u * ((8 * n + 1) * e)
  <2>1. 8 * (n * (u + 1) * e) = u * ((8 * n) * e) + (8 * n) * e  BY <1>0
  <2>2. u * ((8 * n + 1) * e) = u * ((8 * n) * e) + u * e  BY <1>0
  <2>3. e * (8 * n) <= e * u  BY <1>0, Scale
  <2>4. e * (8 * n) = (8 * n) * e /\ e * u = u * e  BY <1>0
  <2> QED  BY <1>0, <2>1, <2>2, <2>3, <2>4
<1> DEFINE a == 8 * u * d
           b == (8 * n + 1) * e
<1>2. a \in Int /\ b \in Int  BY <1>0
<1>3. 8 * (u * u * d) = u * a  BY <1>0
<1>4. u * a <= u * b /\ -(u * b) <= u * a  BY <1>0, <1>1, <1>3 DEF Within
<1> HIDE DEF a, b
<1>5. u * (-b) = -(u * b)  BY <1>0, <1>2
<1>6. a <= b /\ -b <= a  BY <1>0, <1>2, <1>4, <1>5, Cancel
<1>7. Within(a, b)  BY <1>6 DEF Within
<1> QED  BY <1>7 DEF a, b

\* An error of at most u roundings, counted in eighths, is an eighth.
LEMMA Eighth ==
  ASSUME NEW u \in Nat, u > 0, NEW k \in Nat, k <= u, NEW d \in Int, NEW e \in Nat,
         Within(8 * u * d, k * e)
  PROVE  Within(8 * d, e)
<1>1. k * e <= u * e
  <2>1. e * k <= e * u  BY Scale
  <2> QED BY <2>1
<1> DEFINE a == 8 * d
<1>2. a \in Int /\ 8 * u * d = u * a  OBVIOUS
<1> HIDE DEF a
<1>3. u * (-e) = -(u * e)  OBVIOUS
<1>4. u * a <= u * e /\ u * (-e) <= u * a  BY <1>1, <1>2, <1>3 DEF Within
<1>5. a <= e /\ -e <= a  BY <1>2, <1>4, Cancel
<1> QED  BY <1>5 DEF a, Within

\* The square of a mean with n roundings has 2n of them.
LEMMA SquareError ==
  ASSUME NEW u, NEW n, Few(n, u), NEW p \in Nat, NEW e \in Nat,
         Within(8 * u * (p - e), (8 * n + 1) * e)
  PROVE  Within(8 * u * (p * p - e * e), (16 * n + 3) * (e * e))
<1> DEFINE k == 8 * n + 1
           d == p - e
           w == 8 * u
<1>1. /\ n \in Nat /\ u \in Nat /\ k \in Nat /\ w \in Nat /\ w > 0 /\ d \in Int
      /\ k * k <= w /\ e + p \in Nat
  BY FewFacts
<1>2. Within(w * d, k * e)  OBVIOUS
<1>3. p = e + d /\ (16 * n + 3) = 2 * k + 1  BY <1>1
<1> HIDE DEF k, d, w
<1>4. k * d <= e
  <2>1. k * (w * d) <= k * (k * e)  BY <1>1, <1>2, Scale DEF Within
  <2>2. k * (w * d) = w * (k * d) /\ k * (k * e) = e * (k * k)  BY <1>1
  <2>3. e * (k * k) <= e * w  BY <1>1, Scale
  <2>4. w * (k * d) <= w * e  BY <1>1, <2>1, <2>2, <2>3
  <2> QED  BY <1>1, <2>4, Cancel
<1>5. Within((e + p) * (w * d), (e + p) * (k * e))
  <2> DEFINE a == w * d
             b == k * e
             r == e + p
  <2>1. a \in Int /\ b \in Int /\ r \in Nat /\ Within(a, b)  BY <1>1, <1>2
  <2> HIDE DEF a, b, r
  <2>2. Within(r * a, r * b)  BY <2>1, Widen
  <2> QED  BY <2>2 DEF a, b, r
<1>6. (e + p) * (w * d) = w * (p * p - e * e)  BY <1>1, <1>3
<1>7. (e + p) * (k * e) = (2 * k) * (e * e) + e * (k * d)  BY <1>1, <1>3
<1>8. e * (k * d) <= e * e  BY <1>1, <1>4, Scale
<1>9. Within(w * (p * p - e * e), (2 * k + 1) * (e * e))
  BY <1>1, <1>5, <1>6, <1>7, <1>8 DEF Within
<1> QED  BY <1>3, <1>9 DEF w

\* The rounded square of the mean.
LEMMA OfMeanError ==
  ASSUME NEW u, NEW n, Few(n, u), NEW m \in Nat, NEW e \in Nat, NEW b \in Nat, NEW o \in Nat,
         Within(8 * u * (n * m - e), (8 * n + 1) * e),
         Within(u * (o * b - m * m), m * m)
  PROVE  Within(8 * u * (n * n * o * b - e * e), (16 * n + 12) * (e * e))
<1> DEFINE p == n * m
           y == n * n * o * b
           c == e * e
           q == p * p
<1>1. n \in Nat /\ u \in Nat /\ u > 0 /\ 16 * n + 3 <= u  BY FewFacts
<1>2. p \in Nat /\ y \in Nat /\ c \in Nat /\ q \in Nat  BY <1>1
<1>3. Within(8 * u * (q - c), (16 * n + 3) * c)  BY <1>2, SquareError
<1>4. Within(u * (y - q), q)
  <2> DEFINE a == u * (o * b - m * m)
             k == n * n
  <2>1. a \in Int /\ k \in Nat /\ m * m \in Int  BY <1>1
  <2>2. Within(k * a, k * (m * m))  BY <2>1, Widen
  <2>3. k * (m * m) = q  BY <1>1
  <2>4. k * (o * b) = y  BY <1>1
  <2>5. k * a = u * (k * (o * b) - k * (m * m))  BY <1>1
  <2> QED  BY <2>2, <2>3, <2>4, <2>5
<1> HIDE DEF p, y, c, q
<1>5. Within(8 * (q - c), c)
  <2> DEFINE d == q - c
             k == 16 * n + 3
  <2>1. d \in Int /\ k \in Nat /\ k <= u /\ Within(8 * u * d, k * c)  BY <1>1, <1>2, <1>3
  <2> HIDE DEF d, k
  <2>2. Within(8 * d, c)  BY <1>1, <1>2, <2>1, Eighth
  <2> QED  BY <2>2 DEF d
<1>6. 8 * u * (y - c) = 8 * (u * (y - q)) + 8 * u * (q - c)  BY <1>1, <1>2
<1>7. (16 * n + 12) * c = (16 * n + 3) * c + 9 * c  BY <1>1, <1>2
<1>8. Within(8 * u * (y - c), (16 * n + 12) * c)
  BY <1>1, <1>2, <1>3, <1>4, <1>5, <1>6, <1>7 DEF Within
<1> QED  BY <1>8 DEF y, c

\* The mean of the squares.
LEMMA OfSquaresError ==
  ASSUME NEW u, NEW n, Few(n, u), NEW f \in Nat, NEW g \in Nat, NEW a \in Nat, NEW o \in Nat,
         Within(8 * u * (o * f - g), (8 * n + 1) * g),
         Within(u * (n * a - f), f)
  PROVE  Within(8 * u * (n * o * a - g), (8 * n + 10) * g)
<1> DEFINE x == n * o * a
           q == o * f
<1>1. n \in Nat /\ u \in Nat /\ u > 0 /\ 8 * n + 1 \in Nat /\ 8 * n + 1 <= u  BY FewFacts
<1>2. x \in Nat /\ q \in Nat  BY <1>1
<1>3. Within(u * (x - q), q)
  <2> DEFINE z == u * (n * a - f)
  <2>1. z \in Int  BY <1>1
  <2>2. Within(o * z, o * f)  BY <2>1, Widen
  <2>3. o * z = u * (x - q)  BY <1>1
  <2> QED  BY <2>2, <2>3
<1>4. Within(8 * u * (q - g), (8 * n + 1) * g)  OBVIOUS
<1> HIDE DEF x, q
<1>5. Within(8 * (q - g), g)
  <2> DEFINE d == q - g
             k == 8 * n + 1
  <2>1. d \in Int /\ k \in Nat /\ k <= u /\ Within(8 * u * d, k * g)  BY <1>1, <1>2, <1>4
  <2> HIDE DEF d, k
  <2>2. Within(8 * d, g)  BY <1>1, <1>2, <2>1, Eighth
  <2> QED  BY <2>2 DEF d
<1>6. 8 * u * (x - g) = 8 * (u * (x - q)) + 8 * u * (q - g)  BY <1>1, <1>2
<1>7. (8 * n + 10) * g = (8 * n + 1) * g + 9 * g  BY <1>1
<1>8. Within(8 * u * (x - g), (8 * n + 10) * g)
  BY <1>1, <1>2, <1>3, <1>4, <1>5, <1>6, <1>7 DEF Within
<1> QED  BY <1>8 DEF x

\* Their difference, rounded or replaced by 0: the errors add up.
LEMMA VarianceError ==
  ASSUME NEW u, NEW n, Few(n, u), NEW o \in Nat,
         NEW a \in Nat, NEW b \in Nat, NEW v \in Nat, NEW e \in Nat, NEW g \in Nat,
         e * e <= n * g,
         Within(8 * u * (n * o * a - g), (8 * n + 10) * g),
         Within(8 * u * (n * n * o * b - e * e), (16 * n + 12) * (e * e)),
         IF a > b THEN Within(u * (v - (a - b)), a - b) ELSE v = 0
  PROVE  Within(u * (n * n * o * v - (n * g - e * e)), (3 * n + 4) * (n * g))
<1> DEFINE x == n * n * o * a
           y == n * n * o * b
           w == n * n * o * v
           t == n * g
           c == e * e
<1>1. n \in Nat /\ u \in Nat /\ u > 0 /\ 8 * n + 10 \in Nat /\ 8 * n + 10 <= u  BY FewFacts
<1>2. x \in Nat /\ y \in Nat /\ w \in Nat /\ t \in Nat /\ c \in Nat  BY <1>1
<1>3. Within(8 * u * (x - t), (8 * n + 10) * t)
  <2> DEFINE z == 8 * u * (n * o * a - g)
             r == (8 * n + 10) * g
  <2>1. z \in Int /\ r \in Int  BY <1>1
  <2>2. Within(n * z, n * r)  BY <1>1, <2>1, Widen
  <2>3. n * z = 8 * u * (x - t) /\ n * r = (8 * n + 10) * t  BY <1>1
  <2> QED  BY <2>2, <2>3
<1>4. Within(8 * u * (y - c), (16 * n + 12) * t)
  <2>1. (16 * n + 12) * c <= (16 * n + 12) * t  BY <1>1, <1>2, Scale
  <2>2. Within(8 * u * (y - c), (16 * n + 12) * c)  OBVIOUS
  <2> HIDE DEF y, c, t
  <2> QED  BY <1>1, <1>2, <2>1, <2>2 DEF Within
<1>5. IF a > b THEN Within(u * (w - (x - y)), x - y) ELSE w = 0 /\ x <= y
  <2> DEFINE k == n * n * o
  <2>0. k \in Nat  BY <1>1
  <2>1. CASE a > b
    <3> DEFINE z == u * (v - (a - b))
    <3>1. z \in Int /\ a - b \in Int  BY <1>1
    <3>2. Within(k * z, k * (a - b))  BY <2>0, <2>1, <3>1, Widen
    <3>3. k * z = u * (w - (x - y)) /\ k * (a - b) = x - y  BY <1>1
    <3> QED  BY <2>1, <3>2, <3>3
  <2>2. CASE ~(a > b)
    <3>1. k * a <= k * b  BY <2>0, <2>2, Scale
    <3> QED  BY <1>1, <2>2, <3>1
  <2> QED  BY <2>1, <2>2
<1>6. c <= t  OBVIOUS
<1> HIDE DEF x, y, w, t, c
<1>7. Within(8 * (x - t), t)
  <2> DEFINE d == x - t
             k == 8 * n + 10
  <2>1. d \in Int /\ k \in Nat /\ k <= u /\ Within(8 * u * d, k * t)  BY <1>1, <1>2, <1>3
  <2> HIDE DEF d, k
  <2>2. Within(8 * d, t)  BY <1>1, <1>2, <2>1, Eighth
  <2> QED  BY <2>2 DEF d
<1>8. (8 * n + 10) * t + (16 * n + 12) * t + 10 * t = 8 * ((3 * n + 4) * t)  BY <1>1, <1>2
<1>9. Within(8 * (u * (w - (t - c))), 8 * ((3 * n + 4) * t))
  <2>1. CASE a > b
    <3>1. 8 * (u * (w - (t - c))) = 8 * (u * (w - (x - y))) + 8 * u * (x - t) - 8 * u * (y - c)
      BY <1>1, <1>2
    <3>2. Within(8 * (u * (w - (x - y))), 9 * t)  BY <1>1, <1>2, <1>5, <1>7, <2>1 DEF Within
    <3> QED  BY <1>1, <1>2, <1>3, <1>4, <1>8, <3>1, <3>2 DEF Within
  <2>2. CASE ~(a > b)
    <3>1. 8 * (u * (w - (t - c))) = 8 * u * (x - t) - 8 * u * (y - c) + 8 * u * (y - x)
      BY <1>1, <1>2, <1>5, <2>2
    <3>2. y - x \in Nat /\ t - c \in Nat  BY <1>2, <1>5, <1>6, <2>2
    <3>3. 8 * u * (y - x) >= 0 /\ 8 * (u * (w - (t - c))) <= 0  BY <1>1, <1>2, <1>5, <2>2, <3>2
    <3> QED  BY <1>1, <1>2, <1>3, <1>4, <1>8, <3>1, <3>3 DEF Within
  <2> QED  BY <2>1, <2>2
<1>10. Within(u * (w - (t - c)), (3 * n + 4) * t)  BY <1>1, <1>2, <1>9 DEF Within
<1> QED  BY <1>10 DEF w, t, c

\* The square of the sum is at most n times the sum of squares.
LEMMA CauchySchwarz ==
  ASSUME NEW n \in Nat, n > 0, NEW e \in Nat, NEW g \in Nat, NEW x \in Nat, e * e <= n * g
  PROVE  (e + x) * (e + x) <= (n + 1) * (g + x * x)
<1> DEFINE z == g + n * (x * x) - 2 * (e * x)
<1>1. z \in Int  OBVIOUS
<1>2. n * z = n * g + (n * x) * (n * x) - 2 * (e * (n * x))  OBVIOUS
<1>3. (e - n * x) * (e - n * x) >= 0  OBVIOUS
<1>4. (e - n * x) * (e - n * x) = e * e + (n * x) * (n * x) - 2 * (e * (n * x))  OBVIOUS
<1>5. n * z >= n * 0  BY <1>2, <1>3, <1>4
<1>6. (n + 1) * (g + x * x) = (e + x) * (e + x) + (n * g - e * e) + z  OBVIOUS
<1> HIDE DEF z
<1>7. z >= 0  BY <1>1, <1>5, Cancel
<1> QED  BY <1>1, <1>6, <1>7

\* The sum of rounded squares: the roundings of the squares and of the sum.
LEMMA SquaresStep ==
  ASSUME NEW u \in Nat, NEW n \in Nat, n > 0, NEW o \in Nat,
         NEW f \in Nat, NEW t \in Nat, NEW g \in Nat,
         Within(u * (f - t), (n - 1) * t),
         Within(u * (o * t - g), g)
  PROVE  Within(u * u * (o * f - g), n * (u + 1) * g)
<1> DEFINE a == u * (f - t)
           b == (n - 1) * t
           c == u * (o * t - g)
           k == u * o
<1>1. /\ a \in Int /\ b \in Int /\ c \in Int /\ k \in Nat /\ n - 1 \in Nat
      /\ Within(a, b) /\ Within(c, g)
  OBVIOUS
<1>2. u * u * (o * f - g) = k * a + u * c  OBVIOUS
<1>3. k * b = (n - 1) * c + (n - 1) * (u * g)  OBVIOUS
<1>4. n * (u + 1) * g = (n - 1) * g + (n - 1) * (u * g) + u * g + g  OBVIOUS
<1> HIDE DEF a, b, c, k
<1>5. Within(k * a, k * b)  BY <1>1, Widen
<1>6. Within(u * c, u * g)  BY <1>1, Widen
<1>7. (n - 1) * c <= (n - 1) * g  BY <1>1, Scale DEF Within
<1>8. /\ u * u * (o * f - g) \in Int /\ n * (u + 1) * g \in Int
      /\ k * a \in Int /\ u * c \in Int /\ k * b \in Int /\ (n - 1) * c \in Int
      /\ (n - 1) * g \in Int /\ (n - 1) * (u * g) \in Int /\ u * g \in Int
  BY <1>1
<1> QED  BY <1>2, <1>3, <1>4, <1>5, <1>6, <1>7, <1>8 DEF Within
-----------------------------------------------------------------------------
\* Types.
StatsTypeOK == /\ s \in [sum : Floats, sum_sq : Floats, count : 0..MaxCount,
                         min : Int, max : Int]
               /\ seen \subseteq Values
               /\ total \in Nat /\ squares \in Nat

\* The exact sums are 0 or large enough for what is computed from them, and
\* not too large; the variance of the samples is not negative.
RangeInv == /\ total = 0 \/ Least <= total
            /\ squares = 0 \/ Least * Least <= squares
            /\ total <= s.count * Most /\ squares <= s.count * (Most * Most)
            /\ total * total <= s.count * squares
            /\ s.count <= 1 => squares = total * total

\* One rounding for each sample but the first.
SumInv == /\ s.count = 0 => s.sum = 0
          /\ Within(U * (s.sum - total), (s.count - 1) * total)

\* The same for the squares: t is the exact sum of the rounded squares.
SumSqInv == /\ s.count = 0 => s.sum_sq = 0
            /\ \E t \in Nat : /\ s.count = 0 => t = 0
                             /\ Within(U * (s.sum_sq - t), (s.count - 1) * t)
                             /\ Within(U * (One * t - squares), squares)

\* Before the first sample the extremes are the start values of stats_init.
ExtremesInv == IF s.count = 0 THEN seen = {} /\ s.min = Huge /\ s.max = -Huge
                              ELSE ExtremesExact

StatsInv == StatsTypeOK /\ RangeInv /\ SumInv /\ SumSqInv /\ ExtremesInv

\* The constants are positive, and samples are doubles.
LEMMA StatsConstants ==
  /\ U \in Nat /\ U > 0 /\ One \in Nat /\ One > 0 /\ Normal \in Nat /\ Normal > 0
  /\ Limit \in Nat /\ Least \in Nat /\ Most \in Nat /\ Least > 0 /\ Most > 0
  /\ MaxCount \in Nat /\ MaxCount > 0 /\ Huge \in Nat
  /\ Floats \subseteq 0..Limit /\ Values \subseteq Floats
  BY StatsAssumption, DoublesConstants

\* Squares of samples, and of their mean, neither underflow nor overflow.
LEMMA SquaresInRange ==
  /\ 2 * ((MaxCount * MaxCount) * (One * Normal)) <= Least * Least
  /\ 4 * (Most * Most) <= One * Limit
<1>1. 2 * ((MaxCount * MaxCount) * (One * Normal)) <= Least * Least
  <2>1. 2 * MaxCount * MaxCount * One * Normal = 2 * ((MaxCount * MaxCount) * (One * Normal))
    BY StatsConstants
  <2> QED  BY <2>1, StatsAssumption
<1>2. 4 * (Most * Most) <= One * Limit
  <2> DEFINE a == 4 * (Most * Most)
  <2>1. 4 * MaxCount * Most * Most <= One * Limit  BY StatsAssumption
  <2>2. a \in Nat /\ 4 * MaxCount * Most * Most = a * MaxCount  BY StatsConstants
  <2> HIDE DEF a
  <2>3. a * 1 <= a * MaxCount  BY <2>2, Scale, StatsConstants
  <2>4. a <= One * Limit  BY <2>1, <2>2, <2>3, StatsConstants
  <2> QED  BY <2>4 DEF a
<1> QED  BY <1>1, <1>2

\* The number of samples is small beside the precision.
LEMMA SamplesFew ==
  ASSUME NEW n \in 1..MaxCount
  PROVE  Few(n, U)
<1>1. n \in Nat /\ n > 0 /\ MaxCount \in Nat /\ n + 1 <= MaxCount + 1  BY StatsConstants
<1>2. (n + 1) * (n + 1) <= (MaxCount + 1) * (MaxCount + 1)  BY <1>1, SquareMono
<1>3. 8 * (MaxCount + 1) * (MaxCount + 1) <= U  BY StatsAssumption
<1>4. 8 * (n + 1) * (n + 1) = 8 * ((n + 1) * (n + 1))
      /\ 8 * (MaxCount + 1) * (MaxCount + 1) = 8 * ((MaxCount + 1) * (MaxCount + 1))  BY <1>1
<1> QED  BY <1>1, <1>2, <1>3, <1>4, StatsConstants DEF Few

\* What stats_add adds to a sum.
Addends == Values \cup {Rounded(y * y, One) : y \in Values}

\* Plus is accurate, and no further off than its second operand.
LEMMA SumOfFloats ==
  ASSUME NEW f \in Floats, NEW x \in Floats, x \in Addends, f + x <= Limit
  PROVE  /\ Plus(f, x) \in Floats /\ Plus(f, x) \in Nat
         /\ Within(U * (Plus(f, x) - (f + x)), f + x)
         /\ Within(Plus(f, x) - (f + x), x)
<1> DEFINE n == f + x
           r == Rounded(n, 1)
<1>1. f \in Nat /\ x \in Nat /\ n \in Nat /\ n \in 0..Limit  BY StatsConstants
<1>2. Accurate(n, 1)  BY <1>1, DoublesAssumption
<1>3. r \in Floats /\ r \in Nat /\ Within(U * (1 * r - n), n)  BY <1>1, <1>2, AccurateWithin
<1>4. 1 * r = r  BY <1>3
<1>5. Abs(r - n) <= x  BY RoundingAssumption DEF Addends
<1>6. Within(r - n, x)  BY <1>1, <1>3, <1>5 DEF Abs, Within
<1> QED  BY <1>3, <1>4, <1>6 DEF Plus

\* An addition of stats_add makes one rounding more; the first one none.
LEMMA AddError ==
  ASSUME NEW f \in Floats, NEW x \in Floats, x \in Addends, f + x <= Limit,
         NEW e \in Nat, NEW n \in Nat, n = 0 => f = 0 /\ e = 0,
         Within(U * (f - e), (n - 1) * e)
  PROVE  Within(U * (Plus(f, x) - (e + x)), n * (e + x))
<1>1. f \in Nat /\ x \in Nat /\ U \in Nat /\ U > 0  BY StatsConstants
<1>2. CASE n > 0
  <2> DEFINE r == Plus(f, x)
  <2>1. r \in Nat /\ Within(U * (r - (f + x)), f + x) /\ Within(r - (f + x), x)
    BY SumOfFloats
  <2> HIDE DEF r
  <2>2. Within(U * (r - (e + x)), n * (e + x))  BY <1>1, <1>2, <2>1, SumStep
  <2> QED  BY <2>2 DEF r
<1>3. CASE n = 0
  <2>1. Plus(f, x) = x /\ f = 0 /\ e = 0  BY <1>1, <1>3 DEF Plus, Floats
  <2>2. U * (x - (0 + x)) = 0 /\ 0 * (0 + x) = 0  BY <1>1
  <2> QED  BY <1>3, <2>1, <2>2 DEF Within
<1> QED  BY <1>2, <1>3

\* The square that stats_add computes is accurate.
LEMMA SquareOfSample ==
  ASSUME NEW x \in Values
  PROVE  /\ x \in Nat /\ x <= Most /\ x * x <= Most * Most
         /\ x = 0 \/ (Least <= x /\ Least * Least <= x * x)
         /\ Squared(x) \in Floats /\ Squared(x) \in Nat
         /\ Within(U * (One * Squared(x) - x * x), x * x)
<1>1. x \in Nat /\ (x = 0 \/ Least <= x) /\ x <= Most /\ x \in Floats
  BY StatsAssumption, StatsConstants
<1>2. (x = 0 \/ Least * Least <= x * x) /\ x * x <= Most * Most
  BY <1>1, SquareMono, StatsConstants
<1>3. x = 0 \/ (One * Normal <= x * x /\ x * x <= One * Limit)
  <2> DEFINE k == One * Normal
             c == MaxCount * MaxCount
  <2>1. /\ k \in Nat /\ c \in Nat /\ 1 <= c /\ One * Limit \in Nat /\ Most * Most \in Nat
        /\ x * x \in Nat /\ Least * Least \in Nat
    BY <1>1, StatsConstants
  <2>2. 2 * (c * k) <= Least * Least /\ 4 * (Most * Most) <= One * Limit  BY SquaresInRange
  <2> HIDE DEF k, c
  <2>3. k * 1 <= k * c /\ k * c = c * k /\ k * 1 = k  BY <2>1, Scale
  <2>4. x = 0 \/ (k <= x * x /\ x * x <= One * Limit)  BY <1>2, <2>1, <2>2, <2>3
  <2> QED  BY <2>4 DEF k
<1>4. x \in Floats \cap (0..(2 * Most))  BY <1>1, StatsConstants
<1>5. Accurate(x * x, One)  BY <1>3, <1>4, RoundingAssumption
<1>6. x * x \in Nat  BY <1>1
<1>7. /\ Squared(x) \in Floats /\ Squared(x) \in Nat
      /\ Within(U * (One * Squared(x) - x * x), x * x)
  BY <1>5, <1>6, AccurateWithin, StatsConstants DEF Squared, Times
<1> QED  BY <1>1, <1>2, <1>7

\* A sum is 0 or large enough to be divided accurately,
LEMMA SumSize ==
  ASSUME NEW n \in 1..MaxCount, NEW f \in Nat, NEW e \in Nat,
         e = 0 \/ Least <= e, Within(U * (f - e), (n - 1) * e)
  PROVE  (f = 0 \/ n * Normal <= f) /\ 8 * f <= 9 * e
<1>1. n \in Nat /\ n > 0 /\ U \in Nat /\ U > 0 /\ 8 * n <= U
  BY SamplesFew, FewFacts
<1>2. Within(8 * (f - e), e)
  <2> DEFINE d == f - e
             k == 8 * (n - 1)
  <2>1. d \in Int /\ k \in Nat /\ k <= U  BY <1>1
  <2>2. 8 * U * d = 8 * (U * (f - e)) /\ k * e = 8 * ((n - 1) * e)  BY <1>1
  <2>3. Within(8 * U * d, k * e)  BY <1>1, <2>2 DEF Within
  <2> HIDE DEF d, k
  <2>4. Within(8 * d, e)  BY <1>1, <2>1, <2>3, Eighth
  <2> QED  BY <2>4 DEF d
<1>3. 2 * (n * Normal) <= Least
  <2>1. Normal * n <= Normal * MaxCount  BY <1>1, StatsConstants, Scale
  <2>2. 2 * MaxCount * Normal = 2 * (Normal * MaxCount) /\ Normal * n = n * Normal
        /\ Normal * MaxCount \in Nat /\ n * Normal \in Nat
    BY <1>1, StatsConstants
  <2>3. 2 * MaxCount * Normal <= Least  BY StatsAssumption
  <2> QED  BY <2>1, <2>2, <2>3, StatsConstants
<1>4. n * Normal \in Nat  BY <1>1, StatsConstants
<1> QED  BY <1>2, <1>3, <1>4, StatsConstants DEF Within

\* and so is a sum of squares.
LEMMA SquaresSize ==
  ASSUME NEW n \in 1..MaxCount, NEW f \in Nat, NEW t \in Nat, NEW g \in Nat,
         g = 0 \/ Least * Least <= g,
         Within(U * (f - t), (n - 1) * t), Within(U * (One * t - g), g)
  PROVE  /\ Within(8 * U * (One * f - g), (8 * n + 1) * g)
         /\ f = 0 \/ n * Normal <= f
         /\ 8 * (One * f) <= 9 * g
<1>1. /\ n \in Nat /\ n > 0 /\ U \in Nat /\ U > 0 /\ 8 * n + 10 <= U /\ Few(n, U)
  BY SamplesFew, FewFacts
<1> DEFINE q == One * f
<1>2. q \in Nat  BY StatsConstants
<1>3. Within(U * U * (q - g), n * (U + 1) * g)  BY <1>1, SquaresStep, StatsConstants
<1>4. Within(8 * U * (q - g), (8 * n + 1) * g)
  <2> DEFINE d == q - g
  <2>1. d \in Int /\ Within(U * U * d, n * (U + 1) * g)  BY <1>2, <1>3
  <2> HIDE DEF d
  <2>2. Within(8 * U * d, (8 * n + 1) * g)  BY <1>1, <2>1, FirstOrder
  <2> QED  BY <2>2 DEF d
<1>5. Within(8 * (q - g), g)
  <2> DEFINE d == q - g
             k == 8 * n + 1
  <2>1. d \in Int /\ k \in Nat /\ k <= U /\ Within(8 * U * d, k * g)  BY <1>1, <1>2, <1>4
  <2> HIDE DEF d, k
  <2>2. Within(8 * d, g)  BY <1>1, <2>1, Eighth
  <2> QED  BY <2>2 DEF d
<1>6. n * (One * Normal) <= (MaxCount * MaxCount) * (One * Normal)
  <2> DEFINE k == One * Normal
             c == MaxCount * MaxCount
  <2>1. k \in Nat /\ c \in Nat /\ n <= c
    <3>1. MaxCount * 1 <= MaxCount * MaxCount  BY StatsConstants, Scale
    <3> QED  BY <1>1, <3>1, StatsConstants
  <2> HIDE DEF k, c
  <2>2. k * n <= k * c /\ k * n = n * k /\ k * c = c * k  BY <1>1, <2>1, Scale
  <2>3. n * k <= c * k  BY <2>2
  <2> QED  BY <2>3 DEF k, c
<1>7. 8 * q <= 9 * g
  <2> HIDE DEF q
  <2> QED  BY <1>2, <1>5 DEF Within
<1>8. CASE g = 0
  <2>1. One * f <= One * 0  BY <1>2, <1>7, <1>8, StatsConstants
  <2>2. f <= 0  BY <2>1, Cancel, StatsConstants
  <2>3. f = 0  BY <2>2
  <2> QED  BY <1>4, <1>7, <2>3
<1>9. CASE Least * Least <= g
  <2> DEFINE h == n * (One * Normal)
             c == (MaxCount * MaxCount) * (One * Normal)
  <2>1. h \in Nat /\ c \in Nat /\ h <= c /\ 2 * c <= Least * Least /\ Least * Least \in Nat
    BY <1>1, <1>6, SquaresInRange, StatsConstants
  <2>2. h = One * (n * Normal) /\ n * Normal \in Int  BY <1>1, StatsConstants
  <2> HIDE DEF h, c
  <2>3. h <= q
    <3> HIDE DEF q
    <3> QED  BY <1>2, <1>5, <1>9, <2>1 DEF Within
  <2>4. n * Normal <= f  BY <2>2, <2>3, Cancel, StatsConstants
  <2> QED  BY <1>4, <1>7, <2>4
<1> QED  BY <1>8, <1>9

\* The mean is accurate, and its square can be computed accurately.
LEMMA MeanSize ==
  ASSUME NEW n \in 1..MaxCount, NEW f \in Floats, NEW e \in Nat,
         e = 0 \/ Least <= e, e <= n * Most, Within(U * (f - e), (n - 1) * e)
  PROVE  /\ Rounded(f, n) \in Floats /\ Rounded(f, n) \in Nat
         /\ Within(U * U * (n * Rounded(f, n) - e), n * (U + 1) * e)
         /\ Within(8 * U * (n * Rounded(f, n) - e), (8 * n + 1) * e)
         /\ Accurate(Rounded(f, n) * Rounded(f, n), One)
<1> DEFINE m == Rounded(f, n)
<1>1. /\ n \in Nat /\ n > 0 /\ U \in Nat /\ U > 0 /\ 8 * n + 10 <= U /\ Few(n, U)
      /\ f \in Nat
  BY SamplesFew, FewFacts, StatsConstants
<1>2. f = 0 \/ n * Normal <= f  BY <1>1, SumSize
<1>3. Accurate(f, n)  BY <1>2, RoundingAssumption
<1>4. m \in Floats /\ m \in Nat /\ Within(U * (n * m - f), f)  BY <1>1, <1>3, AccurateWithin
<1> HIDE DEF m
<1>5. Within(U * U * (n * m - e), n * (U + 1) * e)  BY <1>1, <1>4, MeanStep
<1> DEFINE d == n * m - e
           k == 8 * n + 1
<1>6. d \in Int /\ k \in Nat /\ k <= U  BY <1>1, <1>4
<1>7. Within(8 * U * d, k * e)
  <2>1. Within(U * U * d, n * (U + 1) * e)  BY <1>5
  <2> HIDE DEF d
  <2> QED  BY <1>1, <1>6, <2>1, FirstOrder
<1>8. Within(8 * d, e)
  <2> HIDE DEF d, k
  <2> QED  BY <1>1, <1>6, <1>7, Eighth
<1>9. 8 * m <= 9 * Most
  <2> DEFINE p == n * m
             c == n * Most
  <2>1. p \in Nat /\ c \in Nat /\ n * (8 * m) = 8 * p /\ n * (9 * Most) = 9 * c
    BY <1>1, <1>4, StatsConstants
  <2>2. e <= c /\ Within(8 * (p - e), e)  BY <1>8
  <2> HIDE DEF p, c
  <2>3. n * (8 * m) <= n * (9 * Most)  BY <2>1, <2>2 DEF Within
  <2>4. 8 * m \in Int /\ 9 * Most \in Int  BY <1>4, StatsConstants
  <2> QED  BY <1>1, <2>3, <2>4, Cancel
<1>10. m * m <= One * Limit
  <2>1. 8 * m \in Nat /\ 9 * Most \in Nat  BY <1>4, StatsConstants
  <2>2. (8 * m) * (8 * m) <= (9 * Most) * (9 * Most)
    <3> HIDE DEF d, k
    <3> QED  BY <1>9, <2>1, SquareMono
  <2>3. (8 * m) * (8 * m) = 64 * (m * m) /\ (9 * Most) * (9 * Most) = 81 * (Most * Most)
    BY <1>4, StatsConstants
  <2>4. m * m \in Nat /\ Most * Most \in Nat /\ One * Limit \in Nat  BY <1>4, StatsConstants
  <2> QED  BY <2>2, <2>3, <2>4, SquaresInRange
<1>11. m = 0 \/ One * Normal <= m * m
  <2>1. CASE e = 0
    <3>1. n * m <= n * 0  BY <1>1, <1>4, <1>8, <2>1 DEF Within
    <3>2. m <= 0  BY <1>1, <1>4, <3>1, Cancel
    <3> QED  BY <1>4, <3>2
  <2>2. CASE Least <= e
    <3> DEFINE p == n * m
               r == MaxCount * m
    <3>1. p \in Nat /\ r \in Nat /\ Within(8 * (p - e), e)  BY <1>1, <1>4, <1>8, StatsConstants
    <3>2. m * n <= m * MaxCount  BY <1>1, <1>4, StatsConstants, Scale
    <3>3. p <= r  BY <1>1, <1>4, <3>2, StatsConstants
    <3> HIDE DEF p, r
    <3>4. 7 * Least <= 8 * r  BY <2>2, <3>1, <3>3, StatsConstants DEF Within
    <3>5. 7 * Least \in Nat /\ 8 * r \in Nat  BY <3>1, StatsConstants
    <3>6. (7 * Least) * (7 * Least) <= (8 * r) * (8 * r)
      <4> HIDE DEF d, k
      <4> QED  BY <3>4, <3>5, SquareMono
    <3>7. (7 * Least) * (7 * Least) = 49 * (Least * Least) /\ (8 * r) * (8 * r) = 64 * (r * r)
      BY <3>1, StatsConstants
    <3> DEFINE c == MaxCount * MaxCount
               h == One * Normal
               g == m * m
    <3>8. r * r = c * g  BY <1>4, StatsConstants DEF r
    <3>9. c \in Nat /\ c > 0 /\ h \in Nat /\ g \in Nat /\ c * h \in Nat /\ c * g \in Nat
          /\ Least * Least \in Nat
      BY <1>4, StatsConstants
    <3>10. 2 * (c * h) <= Least * Least  BY SquaresInRange
    <3> HIDE DEF c, h, g, d, k
    <3>11. c * h <= c * g  BY <3>6, <3>7, <3>8, <3>9, <3>10
    <3>12. h <= g  BY <3>9, <3>11, Cancel
    <3> QED  BY <3>12 DEF h, g
  <2> QED  BY <2>1, <2>2
<1>12. Accurate(m * m, One)
  <2>1. m \in Floats \cap (0..(2 * Most))  BY <1>4, <1>9, StatsConstants
  <2> QED  BY <1>10, <1>11, <2>1, RoundingAssumption
<1> QED  BY <1>4, <1>5, <1>7, <1>12 DEF m

\* Adding a sample does not overflow,
LEMMA RoomForSum ==
  ASSUME NEW n \in Nat, n < MaxCount, NEW f \in Nat, NEW e \in Nat, NEW x \in Nat,
         e = 0 \/ Least <= e, e <= n * Most, x <= Most, n = 0 => f = 0,
         Within(U * (f - e), (n - 1) * e)
  PROVE  f + x <= Limit
<1>1. 8 * f <= 9 * e
  <2>1. CASE n = 0  BY <2>1
  <2>2. CASE n > 0
    <3>1. n \in 1..MaxCount  BY <2>2, StatsConstants
    <3> QED  BY <3>1, SumSize
  <2> QED  BY <2>1, <2>2
<1>2. Most * (n + 1) <= Most * MaxCount  BY Scale, StatsConstants
<1>3. 2 * MaxCount * Most = 2 * (Most * MaxCount) /\ Most * (n + 1) = n * Most + Most
      /\ n * Most \in Nat /\ Most * MaxCount \in Nat
  BY StatsConstants
<1>4. 2 * MaxCount * Most <= Limit  BY StatsAssumption
<1> QED  BY <1>1, <1>2, <1>3, <1>4, StatsConstants

\* nor does adding its square.
LEMMA RoomForSquare ==
  ASSUME NEW n \in Nat, n < MaxCount, NEW f \in Nat, NEW t \in Nat, NEW g \in Nat,
         NEW x \in Values,
         g = 0 \/ Least * Least <= g, g <= n * (Most * Most), n = 0 => f = 0,
         Within(U * (f - t), (n - 1) * t), Within(U * (One * t - g), g)
  PROVE  f + Squared(x) <= Limit
<1> DEFINE q == Squared(x)
           h == Most * Most
           c == x * x
<1>1. q \in Nat /\ h \in Nat /\ c \in Nat /\ c <= h /\ Within(U * (One * q - c), c)
  BY SquareOfSample, StatsConstants
<1> HIDE DEF q, h, c
<1>2. 8 * (One * f) <= 9 * (n * h)
  <2>1. CASE n = 0
    <3>1. One * f = 0 /\ n * h = 0  BY <1>1, <2>1, StatsConstants
    <3> QED  BY <3>1
  <2>2. CASE n > 0
    <3>1. n \in 1..MaxCount  BY <2>2, StatsConstants
    <3>2. 8 * (One * f) <= 9 * g  BY <3>1, SquaresSize
    <3>3. One * f \in Nat  BY StatsConstants
    <3>4. g <= n * h /\ n * h \in Nat  BY <1>1 DEF h
    <3> QED  BY <3>2, <3>3, <3>4
  <2> QED  BY <2>1, <2>2
<1>3. One * q <= 2 * h
  <2> DEFINE d == One * q - c
  <2>1. d \in Int /\ U * d <= c  BY <1>1, StatsConstants DEF Within
  <2>2. d <= c
    <3> HIDE DEF d
    <3>1. c * 1 <= c * U  BY <1>1, Scale, StatsConstants
    <3>2. U * d <= U * c  BY <1>1, <2>1, <3>1, StatsConstants
    <3> QED  BY <1>1, <2>1, <3>2, Cancel, StatsConstants
  <2> QED  BY <1>1, <2>2, StatsConstants
<1>4. h * (n + 1) <= h * MaxCount /\ h * (n + 1) = n * h + h  BY <1>1, Scale, StatsConstants
<1>5. 4 * (h * MaxCount) <= One * Limit
  <2>1. 4 * MaxCount * Most * Most = 4 * (h * MaxCount)  BY StatsConstants DEF h
  <2> QED  BY <2>1, StatsAssumption
<1>6. One * (f + q) = One * f + One * q  BY <1>1, StatsConstants
<1>7. /\ One * f \in Nat /\ One * q \in Nat /\ n * h \in Nat
      /\ h * MaxCount \in Nat /\ One * Limit \in Nat
  BY <1>1, StatsConstants
<1>8. One * (f + q) <= One * Limit  BY <1>1, <1>2, <1>3, <1>4, <1>5, <1>6, <1>7
<1>9. f + q \in Int  BY <1>1
<1>10. f + q <= Limit  BY <1>8, <1>9, Cancel, StatsConstants
<1> QED  BY <1>10 DEF q

\* The types of the fields of stats_t.
LEMMA StatsTypes ==
  ASSUME StatsInv
  PROVE  /\ s.count \in 0..MaxCount /\ s.count \in Nat
         /\ s.sum \in Floats /\ s.sum_sq \in Floats /\ s.sum \in Nat /\ s.sum_sq \in Nat
         /\ s.min \in Int /\ s.max \in Int /\ total \in Nat /\ squares \in Nat
<1>1. /\ s \in [sum : Floats, sum_sq : Floats, count : 0..MaxCount, min : Int, max : Int]
      /\ total \in Nat /\ squares \in Nat
  BY DEF StatsInv, StatsTypeOK
<1>2. /\ s.count \in 0..MaxCount /\ s.sum \in Floats /\ s.sum_sq \in Floats
      /\ s.min \in Int /\ s.max \in Int
  BY <1>1
<1>3. ASSUME NEW f \in Floats PROVE f \in Nat  BY StatsConstants
<1>4. ASSUME NEW k \in 0..MaxCount PROVE k \in Nat  BY StatsConstants
<1> QED  BY <1>1, <1>2, <1>3, <1>4

\* stats_init establishes the invariant.
LEMMA StatsIndInit == stats_init => StatsInv
<1> SUFFICES ASSUME stats_init PROVE StatsInv  OBVIOUS
<1>1. 0 \in Floats
  <2>1. Accurate(0, 1)  BY DoublesAssumption, StatsConstants
  <2>2. Rounded(0, 1) \in Nat /\ Within(U * (1 * Rounded(0, 1) - 0), 0)
    BY <2>1, AccurateWithin
  <2> DEFINE r == Rounded(0, 1)
  <2> HIDE DEF r
  <2>3. r \in Nat /\ U * r <= U * 0  BY <2>2, StatsConstants DEF r, Within
  <2>4. r = 0  BY <2>3, Cancel, StatsConstants
  <2> QED  BY <2>4, StatsConstants DEF r, Floats
<1>2. s = [sum |-> 0, sum_sq |-> 0, count |-> 0, min |-> Huge, max |-> -Huge]
      /\ seen = {} /\ total = 0 /\ squares = 0
  BY DEF stats_init
<1>3. StatsTypeOK  BY <1>1, <1>2, StatsConstants DEF StatsTypeOK
<1>4. RangeInv  BY <1>2, StatsConstants DEF RangeInv
<1>5. SumInv  BY <1>2, StatsConstants DEF SumInv, Within
<1>6. SumSqInv
  <2>1. Within(U * (0 - 0), (0 - 1) * 0) /\ Within(U * (One * 0 - 0), 0)
    BY StatsConstants DEF Within
  <2> QED  BY <1>2, <2>1 DEF SumSqInv
<1>7. ExtremesInv  BY <1>2 DEF ExtremesInv
<1> QED  BY <1>3, <1>4, <1>5, <1>6, <1>7 DEF StatsInv

\* stats_add keeps it.
LEMMA StatsIndNext == StatsInv /\ [StatsNext]_statsVars => StatsInv'
<1> SUFFICES ASSUME StatsInv, [StatsNext]_statsVars PROVE StatsInv'  OBVIOUS
<1>1. ASSUME NEW x \in Values, stats_add(x) PROVE StatsInv'
  <2> DEFINE n == s.count
             f == s.sum
             h == s.sum_sq
             q == Squared(x)
  <2>1. /\ n \in Nat /\ n < MaxCount /\ n + 1 \in 0..MaxCount
        /\ f \in Floats /\ h \in Floats /\ f \in Nat /\ h \in Nat
        /\ s.min \in Int /\ s.max \in Int /\ total \in Nat /\ squares \in Nat
    <3>1. n < MaxCount  BY <1>1 DEF stats_add
    <3>2. n \in Nat  BY StatsTypes
    <3> HIDE DEF n
    <3>3. n + 1 \in 0..MaxCount  BY <3>1, <3>2, StatsConstants
    <3> QED  BY <3>1, <3>3, StatsTypes DEF n
  <2>2. /\ x \in Nat /\ x \in Floats /\ x <= Most /\ x * x <= Most * Most
        /\ x = 0 \/ (Least <= x /\ Least * Least <= x * x)
        /\ q \in Floats /\ q \in Nat /\ Within(U * (One * q - x * x), x * x)
        /\ x \in Addends /\ q \in Addends
    BY SquareOfSample, StatsConstants DEF Addends, Squared, Times
  <2>3. /\ s'.sum = Plus(f, x) /\ s'.sum_sq = Plus(h, q) /\ s'.count = n + 1
        /\ s'.min = (IF x < s.min THEN x ELSE s.min)
        /\ s'.max = (IF x > s.max THEN x ELSE s.max)
        /\ seen' = seen \cup {x} /\ total' = total + x /\ squares' = squares + x * x
    BY <1>1 DEF stats_add, NewMax
  <2>4. f + x <= Limit
    BY <2>1, <2>2, RoomForSum DEF StatsInv, RangeInv, SumInv
  <2>5. PICK t \in Nat : /\ n = 0 => t = 0
                        /\ Within(U * (h - t), (n - 1) * t)
                        /\ Within(U * (One * t - squares), squares)
    BY DEF StatsInv, SumSqInv
  <2>6. h + q <= Limit
    BY <2>1, <2>2, <2>5, RoomForSquare DEF StatsInv, RangeInv, SumSqInv
  <2> HIDE DEF n, f, h, q
  <2>7. StatsTypeOK'
    <3>1. Plus(f, x) \in Floats /\ Plus(h, q) \in Floats
      BY <2>1, <2>2, <2>4, <2>6, SumOfFloats
    <3>2. s' = [sum |-> Plus(f, x), sum_sq |-> Plus(h, q), count |-> n + 1,
                min |-> IF x < s.min THEN x ELSE s.min,
                max |-> IF x > s.max THEN x ELSE s.max]
      BY <1>1 DEF stats_add, NewMax, n, f, h, q
    <3>3. s' \in [sum : Floats, sum_sq : Floats, count : 0..MaxCount, min : Int, max : Int]
      BY <2>1, <2>2, <3>1, <3>2
    <3>4. x * x \in Nat  BY <2>2
    <3>5. total' \in Nat /\ squares' \in Nat  BY <2>1, <2>2, <2>3, <3>4
    <3>6. seen' \subseteq Values  BY <2>3 DEF StatsInv, StatsTypeOK
    <3> QED  BY <3>3, <3>5, <3>6 DEF StatsTypeOK
  <2>8. RangeInv'
    <3>0. /\ total = 0 \/ Least <= total
          /\ squares = 0 \/ Least * Least <= squares
          /\ total <= n * Most /\ squares <= n * (Most * Most)
          /\ total * total <= n * squares
      BY DEF StatsInv, RangeInv, n
    <3>1. (total + x = 0 \/ Least <= total + x) /\ total + x <= (n + 1) * Most
      <4>1. (n + 1) * Most = n * Most + Most /\ n * Most \in Nat  BY <2>1, StatsConstants
      <4> QED  BY <2>1, <2>2, <3>0, <4>1, StatsConstants
    <3>2. /\ squares + x * x = 0 \/ Least * Least <= squares + x * x
          /\ squares + x * x <= (n + 1) * (Most * Most)
      <4> DEFINE a == Least * Least
                 b == Most * Most
                 c == x * x
      <4>1. a \in Nat /\ b \in Nat /\ c \in Nat /\ (c = 0 \/ a <= c) /\ c <= b
        BY <2>2, StatsConstants
      <4>2. (squares = 0 \/ a <= squares) /\ squares <= n * b  BY <3>0
      <4> HIDE DEF a, b, c
      <4>3. (n + 1) * b = n * b + b /\ n * b \in Nat  BY <2>1, <4>1
      <4>4. (squares + c = 0 \/ a <= squares + c) /\ squares + c <= (n + 1) * b
        BY <2>1, <4>1, <4>2, <4>3
      <4> QED  BY <4>4 DEF a, b, c
    <3>3. CASE n > 0
      <4>1. (total + x) * (total + x) <= (n + 1) * (squares + x * x)
        BY <2>1, <2>2, <3>0, <3>3, CauchySchwarz
      <4>2. ~(s'.count <= 1)  BY <2>1, <2>3, <3>3
      <4> QED  BY <2>3, <3>1, <3>2, <4>1, <4>2 DEF RangeInv
    <3>4. CASE n = 0
      <4>1. total = 0 /\ squares = 0
        BY <2>1, <3>0, <3>4, StatsConstants
      <4>2. 0 + x = x /\ 0 + x * x = x * x /\ (0 + 1) * (x * x) = x * x /\ x * x <= x * x
        BY <2>2
      <4> QED  BY <2>3, <3>1, <3>2, <3>4, <4>1, <4>2 DEF RangeInv
    <3> QED  BY <2>1, <3>3, <3>4
  <2>9. SumInv'
    <3>1. n = 0 => f = 0 /\ total = 0
      BY <2>1, StatsConstants DEF StatsInv, SumInv, RangeInv, n, f
    <3>2. Within(U * (f - total), (n - 1) * total)  BY DEF StatsInv, SumInv, n, f
    <3>3. Within(U * (Plus(f, x) - (total + x)), n * (total + x))
      BY <2>1, <2>2, <2>4, <3>1, <3>2, AddError
    <3>4. s'.count - 1 = n /\ s'.count # 0  BY <2>1, <2>3
    <3> QED  BY <2>3, <3>3, <3>4 DEF SumInv
  <2>10. SumSqInv'
    <3>1. n = 0 => h = 0 /\ t = 0  BY <2>5 DEF StatsInv, SumSqInv, n, h
    <3>2. Within(U * (Plus(h, q) - (t + q)), n * (t + q))
      BY <2>1, <2>2, <2>5, <2>6, <3>1, AddError
    <3>3. Within(U * (One * (t + q) - (squares + x * x)), squares + x * x)
      <4> DEFINE c == x * x
                 a == U * (One * t - squares)
                 b == U * (One * q - c)
      <4>1. c \in Nat /\ a \in Int /\ b \in Int  BY <2>1, <2>2, StatsConstants
      <4>2. U * (One * (t + q) - (squares + c)) = a + b  BY <2>1, <2>2, <4>1, StatsConstants
      <4>3. Within(a, squares) /\ Within(b, c)  BY <2>2, <2>5
      <4> HIDE DEF a, b, c
      <4>4. Within(a + b, squares + c)  BY <2>1, <4>1, <4>3 DEF Within
      <4> QED  BY <4>2, <4>4 DEF c
    <3>4. s'.count - 1 = n /\ s'.count # 0 /\ t + q \in Nat  BY <2>1, <2>2, <2>3
    <3> QED  BY <2>3, <3>2, <3>3, <3>4 DEF SumSqInv
  <2>11. ExtremesInv'
    <3>1. s'.count > 0 /\ s'.count # 0  BY <2>1, <2>3
    <3>2. x \in Int /\ x < Huge /\ -Huge < x /\ Huge \in Int
      BY <2>2, StatsAssumption, StatsConstants
    <3>3. \A y \in seen : y \in Int
      BY StatsConstants DEF StatsInv, StatsTypeOK
    <3>4. ExtremesExact'
      <4>1. CASE n = 0
        <5>1. seen = {} /\ s.min = Huge /\ s.max = -Huge  BY <4>1 DEF StatsInv, ExtremesInv, n
        <5> QED  BY <2>3, <3>2, <5>1 DEF ExtremesExact
      <4>2. CASE n # 0
        <5>1. {s.min, s.max} \subseteq seen /\ \A y \in seen : s.min <= y /\ y <= s.max
          BY <2>1, <4>2 DEF StatsInv, ExtremesInv, ExtremesExact, n
        <5> QED  BY <2>1, <2>3, <3>2, <3>3, <5>1 DEF ExtremesExact
      <4> QED  BY <4>1, <4>2
    <3> QED  BY <3>1, <3>4 DEF ExtremesInv
  <2> QED  BY <2>7, <2>8, <2>9, <2>10, <2>11 DEF StatsInv
<1>2. CASE UNCHANGED statsVars
  BY <1>2 DEF statsVars, StatsInv, StatsTypeOK, RangeInv, SumInv, SumSqInv,
              ExtremesInv, ExtremesExact
<1> QED  BY <1>1, <1>2 DEF StatsNext, AllMeasured

\* The inductive invariant holds throughout.
THEOREM StatsInvariant == StatsSpec => []StatsInv
  BY StatsIndInit, StatsIndNext, PTL DEF StatsSpec

\* min and max are the extremes of the samples from the first one on
\* (stats_init, stats_add).
THEOREM StatsExtremesExact == StatsSpec => []ExtremesExact
<1>1. StatsInv => ExtremesExact
  BY DEF StatsInv, ExtremesInv, ExtremesExact
<1> QED  BY <1>1, StatsInvariant, PTL

\* The invariant bounds the error of stats_mean.
LEMMA StatsInvMean == StatsInv => MeanAccurate
<1> SUFFICES ASSUME StatsInv PROVE MeanAccurate  OBVIOUS
<1> DEFINE n == s.count
           m == stats_mean
           z == n * m - total
<1>1. n \in 0..MaxCount /\ n \in Nat /\ s.sum \in Floats /\ total \in Nat /\ s.sum \in Nat
  BY StatsTypes
<1>2. m \in Nat /\ Within(U * U * z, n * (U + 1) * total)
  <2>1. CASE n = 0
    <3>1. m = 0 /\ total = 0  BY <1>1, <2>1, StatsConstants DEF stats_mean, StatsInv, RangeInv
    <3> HIDE DEF m, n
    <3> QED  BY <2>1, <3>1, StatsConstants DEF Within
  <2>2. CASE n # 0
    <3>1. n \in 1..MaxCount /\ m = Rounded(s.sum, n)  BY <1>1, <2>2 DEF stats_mean
    <3>2. /\ total = 0 \/ Least <= total
          /\ total <= n * Most /\ Within(U * (s.sum - total), (n - 1) * total)
      BY DEF StatsInv, RangeInv, SumInv
    <3> HIDE DEF m, n
    <3> QED  BY <1>1, <3>1, <3>2, MeanSize
  <2> QED  BY <2>1, <2>2
<1> HIDE DEF m, n
<1>3. z \in Int /\ U * U \in Nat /\ n * (U + 1) * total \in Int  BY <1>1, <1>2, StatsConstants
<1>4. Abs(z) * (U * U) <= n * (U + 1) * total  BY <1>2, <1>3, AbsWithin
<1>5. Abs(z) \in Nat  BY <1>3 DEF Abs
<1>6. Abs(z) * (U * U) = Abs(z) * U * U  BY <1>5, StatsConstants
<1> QED  BY <1>4, <1>6 DEF MeanAccurate, m, n

\* For any rounding that meets the assumptions, stats_mean is off by one
\* rounding per sample at most.
THEOREM StatsMeanAccurate == StatsSpec => []MeanAccurate
  BY StatsInvMean, StatsInvariant, PTL

\* The invariant bounds the error of the variance in stats_stddev.
LEMMA StatsInvVariance == StatsInv => VarianceAccurate
<1> SUFFICES ASSUME StatsInv PROVE VarianceAccurate  OBVIOUS
<1> DEFINE n == s.count
           m == stats_mean
           a == Rounded(s.sum_sq, n)
           b == Times(m, m)
           v == Variance
           z == n * n * One * v - (n * squares - total * total)
<1>1. /\ n \in 0..MaxCount /\ n \in Nat /\ s.sum \in Floats /\ s.sum_sq \in Floats
      /\ total \in Nat /\ squares \in Nat /\ s.sum \in Nat /\ s.sum_sq \in Nat
  BY StatsTypes
<1>2. /\ total = 0 \/ Least <= total
      /\ squares = 0 \/ Least * Least <= squares
      /\ total <= n * Most /\ squares <= n * (Most * Most)
      /\ total * total <= n * squares
      /\ n <= 1 => squares = total * total
  BY DEF StatsInv, RangeInv
<1>3. Within(U * (s.sum - total), (n - 1) * total)  BY DEF StatsInv, SumInv
<1>4. CASE n <= 1
  <2>1. v = 0  BY <1>1, <1>4 DEF Variance
  <2> HIDE DEF v
  <2>2. n * squares = total * total
    <3>1. n = 0 => total = 0 /\ squares = 0  BY <1>1, <1>2, StatsConstants
    <3> QED  BY <1>1, <1>2, <1>4, <3>1
  <2> HIDE DEF n
  <2>3. z = 0  BY <1>1, <2>1, <2>2, StatsConstants
  <2>4. 0 <= (3 * n + 4) * n * squares  BY <1>1
  <2> HIDE DEF z
  <2>5. Abs(z) * U = 0  BY <2>3, StatsConstants DEF Abs
  <2> QED  BY <2>1, <2>4, <2>5 DEF VarianceAccurate, n, z, v
<1>5. CASE n >= 2
  <2>1. n \in 1..MaxCount /\ m = Rounded(s.sum, n) /\ Few(n, U)
    BY <1>1, <1>5, SamplesFew DEF stats_mean
  <2>2. PICK t \in Nat : /\ Within(U * (s.sum_sq - t), (n - 1) * t)
                        /\ Within(U * (One * t - squares), squares)
    BY DEF StatsInv, SumSqInv
  <2>3. v = IF a > b THEN Plus(a, -b) ELSE 0  BY <1>5 DEF Variance
  <2> HIDE DEF n, m, v
  <2>4. /\ m \in Nat /\ Within(8 * U * (n * m - total), (8 * n + 1) * total)
        /\ Accurate(m * m, One)
    BY <1>1, <1>2, <1>3, <2>1, MeanSize
  <2>5. b \in Floats /\ b \in Nat /\ Within(U * (One * b - m * m), m * m)
    <3>1. m * m \in Nat  BY <2>4
    <3> QED  BY <2>4, <3>1, AccurateWithin, StatsConstants DEF Times
  <2>6. Within(8 * U * (One * s.sum_sq - squares), (8 * n + 1) * squares)
        /\ (s.sum_sq = 0 \/ n * Normal <= s.sum_sq)
    BY <1>1, <1>2, <2>1, <2>2, SquaresSize
  <2>7. Accurate(s.sum_sq, n)  BY <1>1, <2>1, <2>6, RoundingAssumption
  <2>8. a \in Floats /\ a \in Nat /\ Within(U * (n * a - s.sum_sq), s.sum_sq)
    BY <1>1, <2>7, AccurateWithin
  <2> HIDE DEF a, b
  <2>9. v \in Nat /\ IF a > b THEN Within(U * (v - (a - b)), a - b) ELSE v = 0
    <3>1. CASE a > b
      <4> DEFINE d == a - b
      <4>1. d \in Nat /\ d \in 0..Limit /\ a + (-b) = d  BY <2>5, <2>8, <3>1, StatsConstants
      <4> HIDE DEF d
      <4>2. Accurate(d, 1)  BY <4>1, DoublesAssumption
      <4>3. Rounded(d, 1) \in Nat /\ Within(U * (1 * Rounded(d, 1) - d), d)
        BY <4>1, <4>2, AccurateWithin
      <4>4. v = Rounded(d, 1)  BY <2>3, <3>1, <4>1 DEF Plus
      <4>5. 1 * v = v  BY <4>3, <4>4
      <4> QED  BY <3>1, <4>3, <4>4, <4>5 DEF d
    <3>2. CASE ~(a > b)  BY <2>3, <3>2
    <3> QED  BY <3>1, <3>2
  <2>10. Within(8 * U * (n * One * a - squares), (8 * n + 10) * squares)
    BY <1>1, <2>1, <2>6, <2>8, OfSquaresError, StatsConstants
  <2>11. Within(8 * U * (n * n * One * b - total * total), (16 * n + 12) * (total * total))
    BY <1>1, <2>1, <2>4, <2>5, OfMeanError, StatsConstants
  <2>12. Within(U * z, (3 * n + 4) * (n * squares))
    BY <1>1, <1>2, <2>1, <2>5, <2>8, <2>9, <2>10, <2>11, VarianceError, StatsConstants
  <2>13. z \in Int /\ (3 * n + 4) * (n * squares) \in Int
         /\ (3 * n + 4) * (n * squares) = (3 * n + 4) * n * squares
    BY <1>1, <2>9, StatsConstants
  <2> HIDE DEF z
  <2>14. Abs(z) * U <= (3 * n + 4) * n * squares  BY <2>12, <2>13, AbsWithin, StatsConstants
  <2> QED  BY <2>9, <2>14 DEF VarianceAccurate, n, z, v
<1> QED  BY <1>1, <1>4, <1>5

\* stats_stddev takes the root of a number that is not negative and that is
\* off by the share (3n + 4)/U of the mean square at most, however far the
\* samples cancel.
THEOREM StatsVarianceAccurate == StatsSpec => []VarianceAccurate
  BY StatsInvVariance, StatsInvariant, PTL
=============================================================================
