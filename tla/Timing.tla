------------------------------- MODULE Timing -------------------------------
(***************************************************************************)
(* The timing of include/benchmark.h and of the exercises: a block of code *)
(* run between two readings of the monotonic clock.  kind is its form:     *)
(* the macros TIME_BLOCK and TIME_IT, which are for loops around the       *)
(* block, and the function measure_time of exercise 01 (main of exercise   *)
(* 02 has the same statements).                                            *)
(***************************************************************************)
EXTENDS Doubles

CONSTANTS Forms,     \* the forms to look at
          Second,    \* nanoseconds in a second, scaled down
          MaxClock   \* bound: the clock stops there

Kinds == {"TIME_BLOCK", "TIME_IT", "measure_time"}

\* A double tells the nanoseconds of a second apart, and dividing them by 1e9
\* is rounded accurately.
ASSUME TimingAssumption == /\ Forms \subseteq Kinds
                           /\ Second \in Nat \ {0}
                           /\ MaxClock \in Nat /\ Second <= MaxClock
                           /\ Second <= U /\ (MaxClock + 1) * One <= Limit
                           /\ \A n \in 0..(Second - 1) : Accurate(n * One, Second)

VARIABLES
  kind,     \* which of them this is
  clock,    \* CLOCK_MONOTONIC
  pc,       \* "enter", "test", "body", "step", "after"
  again,    \* _i == 0, !_done: the loop test lets the block run
  start,    \* the first reading, as a timespec
  elapsed,  \* the time computed: nanoseconds in TIME_BLOCK, else a double, in s
  runs,     \* how often the block has run: 0, 1 or 2 (two or more)
  began,    \* history: the clock at the first reading and at the last one
  ended

vars == <<kind, clock, pc, again, start, elapsed, runs, began, ended>>

\* struct timespec as clock_gettime fills it in.
Timespec(n) == [tv_sec |-> n \div Second, tv_nsec |-> n % Second]

\* get_nanos
Nanos(ts) == ts.tv_sec * Second + ts.tv_nsec

Init == /\ kind \in Forms
        /\ clock \in 0..(Second - 1)
        /\ pc = "enter" /\ again = TRUE
        /\ start = Timespec(0) /\ elapsed = 0 /\ runs = 0
        /\ began = 0 /\ ended = 0
-----------------------------------------------------------------------------
\* Time passes while the program runs.
Tick == /\ clock < MaxClock
        /\ clock' = clock + 1
        /\ UNCHANGED <<kind, pc, again, start, elapsed, runs, began, ended>>

\* The initialisation of the loop, or the first statements.
Enter == /\ pc = "enter"
         /\ start' = Timespec(clock) /\ began' = clock
         /\ again' = TRUE
         /\ pc' = "test"
         /\ UNCHANGED <<kind, clock, elapsed, runs, ended>>

\* Where control goes when the innermost loop ends.  TIME_IT has an outer
\* loop whose condition, clock_gettime(...) == 0, holds each time.
Exit == IF kind = "TIME_IT" THEN "enter" ELSE "after"

Test == /\ pc = "test"
        /\ pc' = IF again THEN "body" ELSE Exit
        /\ UNCHANGED <<kind, clock, again, start, elapsed, runs, began, ended>>

\* The block; a break in it leaves the innermost loop of a macro.
Body == /\ pc = "body"
        /\ runs' = IF runs < 2 THEN runs + 1 ELSE runs
        /\ \/ pc' = "step"
           \/ kind # "measure_time" /\ pc' = Exit
        /\ UNCHANGED <<kind, clock, again, start, elapsed, began, ended>>

\* The double n / 1e9; rounding to nearest is the same on both sides of 0.
Quotient(n) == IF n < 0 THEN -Rounded((-n) * One, Second) ELSE Rounded(n * One, Second)

\* Mutant of Elapsed: an integer, 1000000000, for the double 1e9.
ElapsedTruncated(s, e) == IF kind = "TIME_BLOCK"
                            THEN Nanos(e) - Nanos(s)
                            ELSE (e.tv_sec - s.tv_sec) * One

\* What is computed from the two readings: the difference of the totals, or
\* the sum of a number of seconds, which is exact as a double, and a quotient,
\* which is negative when the nanoseconds have to borrow.
Elapsed(s, e) ==
  IF kind = "TIME_BLOCK"
    THEN Nanos(e) - Nanos(s)
    ELSE Rounded((e.tv_sec - s.tv_sec) * One + Quotient(e.tv_nsec - s.tv_nsec), 1)

\* Mutant of Step: the macro forgets to count.
StepForgotten == /\ pc = "step"
                 /\ elapsed' = Elapsed(start, Timespec(clock)) /\ ended' = clock
                 /\ pc' = "test"
                 /\ UNCHANGED <<kind, clock, again, start, runs, began>>

\* The third expression of the loop, or the statements after the block.
Step == /\ pc = "step"
        /\ again' = FALSE
        /\ elapsed' = Elapsed(start, Timespec(clock)) /\ ended' = clock
        /\ pc' = "test"
        /\ UNCHANGED <<kind, clock, start, runs, began>>

Terminating == pc = "after" /\ clock = MaxClock /\ UNCHANGED vars

Program == Enter \/ Test \/ Body \/ Step

Next == Tick \/ Program \/ Terminating

Spec == Init /\ [][Next]_vars

\* The thread that measures is scheduled.
FairSpec == Spec /\ WF_vars(Program)
-----------------------------------------------------------------------------
\* Types; the elapsed time is never negative.
TypeOK == /\ kind \in Forms
          /\ clock \in 0..MaxClock
          /\ pc \in {"enter", "test", "body", "step", "after"}
          /\ again \in BOOLEAN
          /\ start \in [tv_sec : Nat, tv_nsec : 0..(Second - 1)]
          /\ elapsed \in Nat /\ runs \in 0..2
          /\ began \in 0..MaxClock /\ ended \in 0..MaxClock

\* The nanoseconds that are divided by 1e9, at most: those of the time between
\* the readings, or nearly a second when a second turns in between.
Divided == IF began \div Second = ended \div Second THEN ended - began ELSE Second - 1

\* TIME_BLOCK keeps the exact time between the two readings.  The doubles of
\* measure_time and TIME_IT are off by one rounding of that time and one of the
\* nanoseconds divided, which the borrow makes as large as that of a second,
\* however short the time.
ElapsedAccurate == ~again =>
  LET exact == ended - began
  IN  IF kind = "TIME_BLOCK"
        THEN elapsed = exact
        ELSE Abs(Second * elapsed - exact * One) * U * U
               <= (U * exact + (U + 1) * Divided) * One

\* The block of TIME_BLOCK and of measure_time is entered at most once,
\* whether it ends or breaks.
BlockOnce == kind # "TIME_IT" => runs <= 1

\* The statement after the block is reached (the usage comments of the
\* macros print the result there).
ReachesStatementAfter == <>(pc = "after")
=============================================================================
