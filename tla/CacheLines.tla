----------------------------- MODULE CacheLines -----------------------------
(***************************************************************************)
(* Exercise 03: every worker adds to a counter of its own, first in a      *)
(* packed array and then in one whose elements have the size of a cache    *)
(* line.  Modelled with the lines the counters lie on: each worker has a   *)
(* core to itself, and a fetch_add needs the line in the cache of its core *)
(* alone, so a line that another core wrote last has to be fetched.        *)
(***************************************************************************)
EXTENDS Naturals, FiniteSets

CONSTANTS NUM_THREADS, ITERATIONS

ASSUME CacheLinesAssumption == NUM_THREADS \in Nat \ {0} /\ ITERATIONS \in Nat

CACHE_LINE_SIZE == 64

Threads == 0..(NUM_THREADS - 1)

Arrays == {"packed", "aligned"}

\* The core that runs main; calloc has written the zeros there.
MainCore == NUM_THREADS

Lines == 0..NUM_THREADS

VARIABLES
  test,      \* the array under test; main does the packed one first
  base,      \* base[a]: address of array a, from the start of a line on
  counters,  \* counters[a][t]
  owner,     \* owner[l]: core that has line l of the array under test
  misses,    \* misses[t]: fetch_adds of t in this test that had to get the line
  pc,        \* pc[t]: "unborn", "loop", "done", "joined"
  turns,     \* turns[a][t]: turns of its loop that worker t of array a has made
  main,      \* "calloc", "create", "join", "sum", "free", "end"
  i,         \* loop index of main
  total,     \* total[a]: packed_total, aligned_total
  foreign,   \* history: threads whose neighbour, or main, has written since
             \* their last turn in this test
  handed     \* handed[t], history: turns of t that found it so

history == <<foreign, handed>>

vars == <<test, base, counters, owner, misses, pc, turns, main, i, total, foreign, handed>>

\* Mutant of SizeOf: alignas(64) forgotten.
SizeOfUnpadded(a) == 8

\* Mutant of SizeOf: alignas(64) in the wrong struct as well.
SizeOfPadded(a) == CACHE_LINE_SIZE

\* sizeof(packed_counter_t), sizeof(aligned_counter_t)
SizeOf(a) == IF a = "packed" THEN 8 ELSE CACHE_LINE_SIZE

\* calloc aligns to 16 bytes (max_align_t) and not to a line.
Bases == {16 * n : n \in 0..3}

\* The thread whose packed counter makes 16 bytes together with that of t.
Neighbour(t) == IF t % 2 = 0 THEN t + 1 ELSE t - 1

\* The line of counter t of array a.
LineOf(a, t) == (base[a] + SizeOf(a) * t) \div CACHE_LINE_SIZE

LoopAt(n) == IF n < ITERATIONS THEN "loop" ELSE "done"

Init == /\ test = "packed" /\ main = "calloc" /\ i = 0
        /\ base = [a \in Arrays |-> 0]
        /\ counters = [a \in Arrays |-> [t \in Threads |-> 0]]
        /\ total = [a \in Arrays |-> 0]
        /\ owner = [l \in Lines |-> MainCore]
        /\ misses = [t \in Threads |-> 0]
        /\ turns = [a \in Arrays |-> [t \in Threads |-> 0]]
        /\ pc = [t \in Threads |-> "unborn"]
        /\ foreign = Threads
        /\ handed = [t \in Threads |-> 0]
-----------------------------------------------------------------------------
\* Main goes on with its loop over the threads, or to what follows.
Step(after) == /\ i' = IF i + 1 < NUM_THREADS THEN i + 1 ELSE 0
               /\ main' = IF i + 1 < NUM_THREADS THEN main ELSE after

\* calloc for the array of this test: zeros, somewhere.
Calloc(b) == /\ main = "calloc"
             /\ base' = [base EXCEPT ![test] = b]
             /\ owner' = [l \in Lines |-> MainCore]
             /\ misses' = [t \in Threads |-> 0]
             /\ foreign' = Threads
             /\ handed' = [t \in Threads |-> 0]
             /\ main' = "create"
             /\ UNCHANGED <<test, counters, pc, turns, i, total>>

\* pthread_create(&threads[i], NULL, worker, (void*)i)
Create == /\ main = "create"
          /\ pc' = [pc EXCEPT ![i] = LoopAt(0)]
          /\ turns' = [turns EXCEPT ![test][i] = 0]
          /\ Step("join")
          /\ UNCHANGED <<test, base, counters, owner, misses, total, history>>

\* Mutant of Cell: every worker takes the first counter.
CellZero(t) == 0

\* The index the worker was given, by value.
Cell(t) == t

\* A turn of packed_worker or aligned_worker.
FetchAdd(t) ==
  LET l == LineOf(test, Cell(t))
  IN  /\ pc[t] = "loop"
      /\ counters' = [counters EXCEPT ![test][Cell(t)] = @ + 1]
      /\ owner' = [owner EXCEPT ![l] = t]
      /\ misses' = [misses EXCEPT ![t] = IF owner[l] = t THEN @ ELSE @ + 1]
      /\ turns' = [turns EXCEPT ![test][t] = @ + 1]
      /\ pc' = [pc EXCEPT ![t] = LoopAt(turns[test][t] + 1)]
      /\ foreign' = (foreign \ {t}) \cup (Threads \cap {Neighbour(t)})
      /\ handed' = [handed EXCEPT ![t] = IF t \in foreign THEN @ + 1 ELSE @]
      /\ UNCHANGED <<test, base, main, i, total>>

\* Mutant of Join: the loop ends one thread too early.
JoinAllButOne == /\ main = "join"
                 /\ pc[i] = "done" \/ i = NUM_THREADS - 1
                 /\ pc' = IF pc[i] = "done" THEN [pc EXCEPT ![i] = "joined"] ELSE pc
                 /\ Step("sum")
                 /\ UNCHANGED <<test, base, counters, owner, misses, turns, total, history>>

\* pthread_join returns when the worker has.
Join == /\ main = "join"
        /\ pc[i] = "done"
        /\ pc' = [pc EXCEPT ![i] = "joined"]
        /\ Step("sum")
        /\ UNCHANGED <<test, base, counters, owner, misses, turns, total, history>>

\* packed_total += atomic_load(&packed_counters[i].counter), and the same for
\* the aligned array; the second test follows the first.
Sum == /\ main = "sum"
       /\ total' = [total EXCEPT ![test] = @ + counters[test][i]]
       /\ Step(IF test = "packed" THEN "calloc" ELSE "free")
       /\ test' = IF main' = "calloc" THEN "aligned" ELSE test
       /\ UNCHANGED <<base, counters, owner, misses, pc, turns, history>>

\* free of both arrays.
Free == /\ main = "free"
        /\ main' = "end"
        /\ UNCHANGED <<test, base, counters, owner, misses, pc, turns, i, total, history>>

Terminating == main = "end" /\ UNCHANGED vars

MainStep == (\E b \in Bases : Calloc(b)) \/ Create \/ Join \/ Sum \/ Free

Next == MainStep \/ (\E t \in Threads : FetchAdd(t)) \/ Terminating

Spec == Init /\ [][Next]_vars

\* The scheduler runs every thread that can run.
FairSpec == /\ Spec
            /\ WF_vars(MainStep)
            /\ \A t \in Threads : WF_vars(FetchAdd(t))
-----------------------------------------------------------------------------
TypeOK == /\ test \in Arrays /\ base \in [Arrays -> Bases]
          /\ counters \in [Arrays -> [Threads -> Nat]]
          /\ owner \in [Lines -> Threads \cup {MainCore}]
          /\ misses \in [Threads -> Nat]
          /\ turns \in [Arrays -> [Threads -> 0..ITERATIONS]]
          /\ pc \in [Threads -> {"unborn", "loop", "done", "joined"}]
          /\ main \in {"calloc", "create", "join", "sum", "free", "end"}
          /\ i \in Threads /\ total \in [Arrays -> Nat]
          /\ foreign \subseteq Threads /\ handed \in [Threads -> Nat]

\* The padded counters do away with false sharing ("no false sharing", main):
\* a worker fetches its line at most once, although calloc aligns the array
\* to less than a line.
NoFalseSharing == test = "aligned" /\ main # "calloc" =>
                    \A t \in Threads : misses[t] <= 1

\* The packed counters have it ("share cache lines"): wherever calloc puts the
\* array, a worker fetches its line for its first turn and again for every turn
\* that follows one of its neighbour, although nobody uses its counter.
FalseSharing == test = "packed" => \A t \in Threads : handed[t] <= misses[t]

\* Main ends, and both totals that it prints are the expected one.
EndsExact == <>(/\ main = "end"
                /\ \A a \in Arrays : total[a] = NUM_THREADS * ITERATIONS)

\* The sum of an array of counters: the turns that are in it, counted.
SumOf(f) == Cardinality({p \in Threads \X (1..ITERATIONS) : p[2] <= f[p[1]]})

Packed == INSTANCE AtomicCounter WITH
            Iterations <- ITERATIONS, total <- SumOf(counters["packed"]), done <- turns["packed"]
Aligned == INSTANCE AtomicCounter WITH
            Iterations <- ITERATIONS, total <- SumOf(counters["aligned"]), done <- turns["aligned"]

\* A counter split over the threads is an atomic counter, whose value is the
\* sum of what is in memory: each turn of a worker's loop adds one to it, and
\* nothing else changes it.
ImplementsAtomicCounter == Packed!FairSpec /\ Aligned!FairSpec
=============================================================================
