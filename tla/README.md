# Specifications of the multithreading workshop

TLA+ models of the exercises in `src/exercises` and of `src/include/benchmark.h`,
TLC configurations that check them on small instances, and TLAPS proofs of the
main properties for every value of the constants.

## The system and where it is modelled

Each exercise is a program of its own: `main` creates threads, joins them and
prints a result. What they share is the memory (plain and C11 atomic variables),
pthreads, and the timing macros.

| Part | Source | Module | Proofs |
|---|---|---|---|
| Quick review | 00, parts 2-5 | `Counters`, `MessagePassing` | as below |
| Atomic counters | 01, tests 1-3 | `Counters` | `CountersProofs` |
| Message passing | 01 test 4, 00 part 5, 04 | `MessagePassing` | `MessagePassingProofs` |
| Read-write lock | 02 | `RWLock` | `RWLockProofs` |
| Cache effects | 03 | `CacheLines` | `CacheLinesProofs` |
| Spinlocks | 05 | `SpinLock` | `SpinLockProofs`, `SpinLockLiveProofs` |
| Barrier | 06 | `Barrier` | `BarrierProofs` |
| SPSC queue | 07 | `SpscQueue`, as it is | - |
| Summary | 08 | - (a skeleton without threads) | - |
| Timing | benchmark.h, `measure_time` | `Timing` | `BenchmarkProofs` |
| Performance counter | benchmark.h | `PerfCounter` | `BenchmarkProofs` |
| Statistics | benchmark.h | `Stats` | `BenchmarkProofs` |
| Doubles | (external) | `Doubles`, used by `Timing` and `Stats` | lemmas in `BenchmarkProofs` |
| C11 memory | (external) | `C11Memory`, used by `SpinLock` and `MessagePassing` | lemmas in the proofs of these |

Two abstract specifications say what components promise: `PhaseBarrier` (nobody
leaves a round before everybody has reached it) and `AtomicCounter` (each addition
takes effect once and at once). `Barrier` implements the first; `SpinLock`,
`Counters` (mutex and atomic), the writers of `RWLock` and the sum of each array of
`CacheLines` implement the second.

Most modules contain, just before a definition, *mutants* of it: the same
definition with a plausible bug (a dropped guard, an `if` for a `while`, a
forgotten release). They are used by no specification; `PROJECT.json` pairs each
checked property with a mutant that violates it.

## How the models correspond to the code

**Memory.** `C11Memory` is a view machine: a location is the sequence of its writes,
a thread has a view of how far it knows each, a load may return any write not older
than the view, release and acquire hand views on, `pthread_create` and `pthread_join`
do too. A plain access that does not know the newest write is a data race; a racing
load may return an old value. `seq_cst` is treated as acquire and release, which is
weaker, so what is shown holds for the real one. `Counters` has one location and
needs only its coherence, so memory is a variable there; `Barrier` and `RWLock` touch
shared data only under their lock.

**pthreads** are external. A mutex has an owner; `pthread_cond_wait` gives the mutex
up and sleeps in one step and may wake spuriously; a broadcast wakes all sleepers; a
read lock is granted whenever no writer holds the lock, also past waiting writers.

**Barrier** (06). One action per access to shared state: `LockMutex`, `Arrive`
(my_serial, count++, and, for the last one, count = 0, serial++, broadcast),
`TestSerial` (the while), `SpuriousWakeup`, `Reacquire`, `Unlock`; main: `Create`,
`Join`, `Destroy`.

**SpinLock** (05). `kind` is the lock. `TestAndSet`; `Test` (relaxed, may be
stale), `CasSucceeds`, `CasFails` (on a stale or set word, or spuriously), `Retry`
with the backoff; `LoadCounter` and `StoreCounter` for `shared_counter++`; `Unlock`.
A failed test-and-set writes true over true and is left out. `main` runs only
the pthread_spin_lock test, the others are commented out; all are modelled.

**MessagePassing** (00, 01, 04). `main` runs a list of versions on the same two
variables, resets them, creates consumer and producer, joins both. The polling loop
on a plain flag may be hoisted by the compiler: state `"spin"`.

**Counters** (00, 01). A plain increment is a load and a store; the compiler may let
one pair stand for several turns of the loop (`Chunks`). `kind` is the demo.

**RWLock** (02). The writer's increment is a load and a store, its printf one more
load. Sleeping is a step like any other.

**CacheLines** (03). Beside the counters the model has the layout (`SizeOf`, `LineOf`),
the address calloc returns (`Bases`: aligned to 16 bytes, not to the 64 the type asks
for) and which core has which line. `FetchAdd` needs the line for its core alone, so
it counts a miss when another core had it. The history variables `foreign` and `handed`
say nothing of lines: `handed[t]` counts the turns of t that come after one of the thread
with the counter next to its own, or are its first. The refinement of `AtomicCounter`
takes `done` from the loops of the workers (`turns`) and `total` from the memory (`SumOf`,
the number of units in an array, which is the sum of its counters). Each thread is taken
to stay on a core of its own. `main` allocates, creates, joins and sums one element at a
time.

**Timing**. TIME_BLOCK and TIME_IT are for loops around a block that may also `break`;
measure_time is a function. A second has `Second` nanoseconds. TIME_BLOCK subtracts
integers. measure_time and TIME_IT compute in doubles: the difference of the seconds
converts exactly, that of the nanoseconds is divided by 1e9 and rounded, and the sum is
rounded again, so they do not give the exact time. When a second turns between the
readings the quotient is negative, and a short time is what is left of a difference of
two numbers near 1.0, with their error.

**Doubles**. A double is an integer number of units, the least positive double, and every
operation computes the exact result and rounds it with the constant `Rounded`. What
rounding may do is assumed: sums are rounded to a double with an error of at most the
share `1/U` of the exact result (`DoublesAssumption`); so is a number of nanoseconds
divided by 1e9 (`TimingAssumption`, which also says that a second has at most `U`
nanoseconds); and so are the squares, quotients and sums of the statistics, where
moreover a sum is rounded to a double no further off than the other summand
(`RoundingAssumption`). IEEE arithmetic guarantees that where nothing overflows and no
product or quotient underflows. In TLC `Rounded` is rounding to nearest even with 8 bits
instead of 53 (`Nearest` in `MCDoubles`), and the assumptions are evaluated for it.

**PerfCounter**. MEASURE_CACHE_MISSES is three for loops around a block: `CounterInit`
(may fail, and then everything goes on with descriptor -1), `CounterStart`, `Test`, the
block with its misses, which may end or `break`, and `CounterStop` with the whole third
expression: _done, stop, read, the result, close. The kernel's counter is external.

**Stats**. stats_init, stats_add, stats_mean and stats_stddev (up to the square root).
`StatsAssumption` keeps the samples to a range where the assumptions on rounding are
justified: neither sums nor squares overflow, neither squares nor quotients lose bits at
the lower end, and the number of samples is small beside the precision.

**SpscQueue** (07). The code as it stands: `tail` and `head` are taken for 0 in
enqueue and dequeue and never stored.

## What the runs check

| Run | Shows |
|---|---|
| `barrier` | 4 workers, 3 phases, 3 spurious wake-ups: phase synchronisation, exact count and serial while fast workers re-enter, no lost wake-up, destroy last, rounds closed once by the last arrival, termination, `PhaseBarrier` with its liveness |
| `spin` | every lock, 3 workers, 2 increments, stale tests, a spurious failure: mutual exclusion, no data race, exact total, growth of the pause, termination, `AtomicCounter` with its liveness |
| `message` | the mains of 00, 01 and 04 with all their rounds: asserts hold, races exactly in the broken versions, each consumer is released by its own producer, termination unless a plain flag is hoisted |
| `counters` | 3 workers, 3 turns: exact with mutex or fetch_add, between 2 and the expected total when plain, whatever turns the compiler joins; termination, `AtomicCounter` |
| `rwlock` | 2 readers, 2 writers, 2 operations: reads stay true while locked, writes are numbered, destroy last, termination, `AtomicCounter` with its liveness |
| `cache_lines` | 4 threads, 3 turns, every alignment: a padded counter is fetched once at most, a packed one again for every turn that follows one of the neighbour, both totals exact at the end, the split counter is an `AtomicCounter` |
| `timing` | TIME_BLOCK and measure_time: block run once, elapsed time exact in TIME_BLOCK and within two roundings in measure_time, also across the turn of a second; control goes on |
| `perf_counter` | 3 descriptors, failing opens, breaks: an opened counter reports exactly this run of the block; only breaks leak descriptors |
| `stats` | every sequence of up to 4 of 6 samples: exact extremes, bounds on the error of mean and variance, variance never negative |
| `time_it`, `measure_cache_misses` | violation: the statement after the block is never reached |
| `spsc_queue` | violation: the messages are never received |

What `stats` bounds is not idle. In the instance the samples 1392, 1392, 1392 have the
mean 1384, outside their range; the variance of 1032 and 1040 would come out negative, so
that the test before the square root matters; 1024 and 1040 come out with variance 0.
The error of the variance is a share of the mean square, not of the variance.

The three violations are divergences from what the repository says: the usage
comments of TIME_IT and MEASURE_CACHE_MISSES (`benchmark.h:46-49`, `135-138`) put a
statement after the block, and `07_lockfree_queue/solution.c:2` calls its code
working, although the loads and stores it lacks are marked FIXME and left to the reader.

**Bounds.** Three workers are the least with which one can lag while two others
interact; four in the barrier give two fast and two slow ones. Three phases or
turns let a worker be a round ahead, in, and behind. `MaxSpurious` bounds spurious
wake-ups and compare-exchange failures: without a bound nothing would ever have to
happen. Messages are never dropped from `C11Memory`, so all stale reads are
possible. No run uses symmetry. `BACKOFF_MAX` is 10 for a minimum of 4, so that
the cap falls between two powers. Four threads are what exercise 03
has; three turns let a line be lost and fetched again. A second of five nanoseconds
makes the quotients inexact, and the clock goes through three of them. Three descriptors
can be used up by breaks, after which every open fails. Eight bits and samples one and two ulps apart
(1024, 1032, 1040) make the variance cancel; the other two lie further up, and 0 is a
time a coarse clock reports.

**Fairness.** Each thread is weakly fair (the scheduler runs what can run), and so is
the polling load of the newest value (C11 7.17.3: stores become visible in
reasonable time). Spurious events are not fair. No lock is assumed fair; the loops
are finite, and that is why everybody finishes. A run that switches the deadlock check off
checks termination, which a deadlock would violate.

## What is proved

The assumptions are the named `ASSUME`s: finite sets of threads that are not empty,
natural numbers for the bounds, distinct names, and those about doubles above.

*Barrier* (`BarrierProofs`). The inductive invariant adds to the properties that the
mutex has at most the one holder it names, where each worker stands relative to the
serial (my_serial is the serial or one less), and that
`count` is the cardinality of the set of workers counted in the open round. The last
arrival finds that set to be all workers, which gives phase synchronisation; that a
sleeper's `my_serial` equals the serial gives no lost wake-up. Types, `PhaseSync`,
`SerialIsRound`, `CountIsArrived`, `NoLostWakeup`, `DestroyedUnused`,
`RoundClosedByLast`, and `Spec => PB!Spec`.

*Spinlocks* (`SpinLockProofs`). Invariant: views never pass the end of a history; the
lock word is 0 exactly when nobody is critical; the newest write of the counter is
known to the holder or, when the lock is free, carried by the message that freed it
(`HandOverInv`: why acquire and release are needed); the counter's value is the
number of increments made. Types, `MutualExclusion`, `NoDataRace`, `TotalExact`,
`BackoffGrows`, and `Spec => AC!Spec`, for all three kinds of lock.

*Counters* (`CountersProofs`). The turns made form a set `Increments`; with a mutex
or fetch_add the counter is its cardinality, with the race it and all loaded values
are at most that. The lower bound follows from two facts: once something is stored
the counter is at least 1, and the last store of a loop either covers the whole loop
or adds to a value of at least 1. Types, `TotalExact`, `RacyTotal`, and
`Spec => AC!Spec` unless the increment is plain.

*Message passing* (`MessagePassingProofs`). For any set of lists of tests, so for any
number of rounds on the same variables. Invariant: views and messages never point past
the end of a history; which threads live at each statement of main, and that main
(except while the producer runs) and the producer know the newest writes (`Knows`: this
is what fork and join hand on); the consumer is at most one flag message behind, and the only one it may still
read that is not 0 is the newest, this test's (`FlagInv`); in a synchronised version
that message carries the view of its data, in the others the consumer never learns of it
(`DataInv`). Types, `AssertHolds`,
`RaceFree`, `BrokenAlwaysRaces`, `SeesOwnProducer`.

*Read-write lock* (`RWLockProofs`). The lock is the set of those between lock and
unlock, and a writer is in it alone; the writes made form a set whose cardinality is
`shared_data`; what a holder loaded is still the value; the values printed are the
first ones, without the one about to be printed. Types, `ReadStable`,
`DestroyedUnused`, `WritesNumbered`, `Spec => AC!Spec`.

*Cache lines* (`CacheLinesProofs`). Two lemmas of arithmetic: element t of the padded
array begins on line t, whatever multiple of 16 the array begins at, and packed
counters 2k and 2k+1 share a line, wherever the array begins. With the first, a worker
that has a miss has the line, and nobody takes it away: `NoFalseSharing`. With the second,
whoever is in `foreign` does not own its line, since the last turn on it was another
thread's or calloc wrote it (`PackedInv`), so the next turn is a miss: `FalseSharing`. A second invariant,
`CountInv`, relates the workers to main's loops: which have been started and joined, that
the counter of a worker in memory is the turns of its loop, and that main has added up
`i * ITERATIONS` when it is at element `i`. It gives both totals
(`CacheLinesTotalsExact`) and `Spec => Packed!Spec /\ Aligned!Spec`: one more turn is one
more element of the set that `SumOf` counts, so no induction over the threads is needed.

*Performance counter* (`BenchmarkProofs`). Between start and stop the counter equals
the misses of the block if there is one, and the descriptor in use is not a lost one.
`MissesExact`, `OnlyBreaksLeak`; and the statement after the block is never reached,
whatever the block and the kernel do (`MeasureCacheMissesNeverEnds`).

*Timing* (`BenchmarkProofs`). Splitting into a timespec and putting it together again is
the identity, so TIME_BLOCK gives the time between the readings. For the doubles, the
quotient is off by one rounding of the nanoseconds divided (`QuotientError`), and the sum
by one rounding of what that leaves; with at most `U` nanoseconds in a second the sum is
never negative, which `Rounded` needs. Added up: `ElapsedAccurate`. Control tells how
often the block has run. Types, `BlockOnce`; and TIME_IT never
gets past its block (`TimeItNeverEnds`).

*Statistics* (`BenchmarkProofs`). For every rounding that meets the assumptions. The
invariant bounds the error of `sum` by the share of `count - 1` roundings of the exact
sum, and that of `sum_sq` by as many of the sum of the rounded squares, each of which is
off by one rounding. The second-order term that one more rounding adds is absorbed by the growth
of the exact sum, unless the sample is tiny; then the last assumption on rounding bounds
the error by the sample itself. From it one more division gives `MeanAccurate`; the
square of the mean, the mean square and their difference are then bounded one
operation at a time, and the error terms added up under `8 (n + 1)^2 <= U` give
`VarianceAccurate`. `ExtremesExact` needs only that samples are below 1e300.

### Towards termination

The proof system does not handle fairness, so that main ends stays with TLC. What the
argument rests on is proved for every instance, in two theorems per program (those of the
spinlocks in `SpinLockLiveProofs`).

- *NeverStuck* (no deadlock). Until main has ended some step that gets on can be taken.
  ENABLED being out of reach, the definition lists guards: those of the actions, and
  that the newest message can be read. The argument is who everybody waits for: in
  the barrier, not all workers sleep since the sleepers are in the open round and that
  round lacks a worker; with a lock, the holder never waits; in message passing the
  flag stays raised once the producer is done (`LiveInv`). The one exception is stated
  there: main joining the consumer of a plain flag kept in a register.
- *Progress* (no livelock). Every step that changes anything gets one thread ahead and
  none back, by ranks proved bounded, or ahead in a lexicographic order; spurious
  wake-ups and failures are counted apart. The hard places are loops: a worker of the
  barrier that wakes and must wait again counts as before its sleep, one whose round
  was closed as after it, so closing a round moves sleepers ahead, too. A spinning
  worker sees more of the lock word or pauses longer, or nothing changes; the lock word
  has two writes for each increment made (`LengthInv`), which bounds what there is to
  see. A polling consumer likewise sees more, races for the first time, or nothing
  changes.

What is left to TLC is that fairness turns a step that can be taken into one that is,
and the induction along the ranks.

The type invariants of the modules are proved (with or as part of the inductive
invariant) and are not repeated in the runs.

Only model-checked: liveness (`Terminates`, `TerminatesUnlessHoisted`, `EndsExact`,
`ReachesStatementAfter`, and the fairness part of the refinements), which the proof
system does not handle. Every other property of the passing runs is a theorem. About
`SpscQueue` nothing is proved: the run is a counterexample.

## Not modelled

- Exercise 08 is a skeleton of TODOs: it creates no thread and only resets
  its variables to 0, so there is no behaviour to state properties of.
- Part 1 of exercise 00 creates and joins threads that share nothing.
- `cache_aligned_alloc`, `CACHE_ALIGNED`, the barriers and `CPU_PAUSE` are wrappers
  without state of their own, and stats_print and the other output only format.
- Failures of pthread_create and pthread_join: no exercise looks at the results, and
  what follows a failed creation (joining an uninitialised `pthread_t`) is undefined.
- Sleeping times are left out: every interleaving is considered, the unlikely ones
  included. Cost is modelled only as misses in `CacheLines`.
- The hardware orders that exercise 04 prints about (TSO on x86): the code is checked
  against C11, which is weaker.
- The throughput line of exercise 07 (line 166) divides by the time since the clock
  started; it comes after a join that never returns, so no behaviour reaches it.
