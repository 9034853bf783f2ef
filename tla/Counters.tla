------------------------------ MODULE Counters ------------------------------
(***************************************************************************)
(* Exercises 00 and 01: threads that increment one shared counter.  kind   *)
(* is the demo that runs; each has a counter, a mutex and threads of its   *)
(* own, and main runs one after the other:                                 *)
(*   "plain"   counter++ on an int (race_increment, broken_increment)      *)
(*   "mutex"   counter++ between lock and unlock (mutex_increment)         *)
(*   "atomic"  fetch_add, seq_cst or relaxed (atomic_increment,            *)
(*             seqcst_increment, relaxed_increment)                        *)
(* There is one location and hardware keeps the accesses to one location   *)
(* in one order, so memory is a plain variable here.  A racing increment   *)
(* is a load and a store with anything in between; the compiler may also   *)
(* keep the counter in a register over several turns of the loop, or all   *)
(* of them (at -O2 the loop becomes one addition).                         *)
(***************************************************************************)
EXTENDS Naturals, FiniteSets

CONSTANTS Threads,     \* the workers
          Iterations,  \* ITERATIONS, INCREMENTS
          Kinds,       \* the demos
          NoThread     \* mutex owner when it is free

ASSUME CountersAssumption == /\ IsFiniteSet(Threads) /\ Threads # {}
                             /\ Iterations \in Nat
                             /\ Kinds \subseteq {"plain", "mutex", "atomic"}
                             /\ NoThread \notin Threads

VARIABLES
  kind,     \* how the workers increment
  counter,  \* the shared counter
  mutex,    \* owner of the mutex, or NoThread
  pc,       \* pc[t]: where worker t is (see States)
  done,     \* done[t]: turns of its loop whose store t has made
  reg,      \* reg[t]: value t loaded
  chunk,    \* chunk[t]: turns of the loop the next store of t stands for
  main      \* "create", "join", "joined"

vars == <<kind, counter, mutex, pc, done, reg, chunk, main>>

States == {"unborn", "lock", "load", "store", "unlock", "add", "done", "joined"}

\* First step of a turn of the loop.
Turn == CASE kind = "plain" -> "load"
          [] kind = "mutex" -> "lock"
          [] kind = "atomic" -> "add"

\* Where the loop of the worker stands after n turns.
LoopAt(n) == IF n < Iterations THEN Turn ELSE "done"

Init == /\ kind \in Kinds
        /\ counter = 0
        /\ mutex = NoThread
        /\ pc = [t \in Threads |-> "unborn"]
        /\ done = [t \in Threads |-> 0]
        /\ reg = [t \in Threads |-> 0]
        /\ chunk = [t \in Threads |-> 1]
        /\ main = "create"
-----------------------------------------------------------------------------
\* pthread_create
Create(t) == /\ main = "create"
             /\ pc[t] = "unborn"
             /\ pc' = [pc EXCEPT ![t] = LoopAt(0)]
             /\ main' = IF \E u \in Threads \ {t} : pc[u] = "unborn"
                          THEN "create" ELSE "join"
             /\ UNCHANGED <<kind, counter, mutex, done, reg, chunk>>

\* Mutant of MayLock: the owner is not looked at.
MayLockAlways == TRUE

\* pthread_mutex_lock goes on when the mutex is free.
MayLock == mutex = NoThread

Lock(t) == /\ pc[t] = "lock"
           /\ MayLock
           /\ mutex' = t
           /\ pc' = [pc EXCEPT ![t] = "load"]
           /\ UNCHANGED <<kind, counter, done, reg, chunk, main>>

\* How many turns one load and store may stand for: the calls of lock and
\* unlock keep the compiler from joining turns.
Chunks(t) == IF kind = "plain" THEN 1..(Iterations - done[t]) ELSE {1}

\* counter++: the load ...
LoadCounter(t, c) == /\ pc[t] = "load"
                     /\ c \in Chunks(t)
                     /\ reg' = [reg EXCEPT ![t] = counter]
                     /\ chunk' = [chunk EXCEPT ![t] = c]
                     /\ pc' = [pc EXCEPT ![t] = "store"]
                     /\ UNCHANGED <<kind, counter, mutex, done, main>>

\* Mutant of Incremented: after the first time the load is forgotten.
IncrementedFromZero(t) == IF done[t] = 0 THEN reg[t] + chunk[t] ELSE chunk[t]

\* The value stored.
Incremented(t) == reg[t] + chunk[t]

\* ... and the store.
StoreCounter(t) ==
  /\ pc[t] = "store"
  /\ counter' = Incremented(t)
  /\ done' = [done EXCEPT ![t] = @ + chunk[t]]
  /\ pc' = [pc EXCEPT ![t] = IF kind = "mutex" THEN "unlock"
                                               ELSE LoopAt(done[t] + chunk[t])]
  /\ UNCHANGED <<kind, mutex, reg, chunk, main>>

\* Mutant of Unlock: a path that returns without unlocking.
UnlockForgotten(t) == /\ pc[t] = "unlock"
                      /\ pc' = [pc EXCEPT ![t] = LoopAt(done[t])]
                      /\ UNCHANGED <<kind, counter, mutex, done, reg, chunk, main>>

\* pthread_mutex_unlock, and the next turn.
Unlock(t) == /\ pc[t] = "unlock"
             /\ mutex' = NoThread
             /\ pc' = [pc EXCEPT ![t] = LoopAt(done[t])]
             /\ UNCHANGED <<kind, counter, done, reg, chunk, main>>

\* Mutant of FetchAdd: an atomic load and an atomic store, not one operation.
LoadThenStore(t) == /\ pc[t] = "add"
                    /\ reg' = [reg EXCEPT ![t] = counter]
                    /\ pc' = [pc EXCEPT ![t] = "store"]
                    /\ UNCHANGED <<kind, counter, mutex, done, chunk, main>>

\* atomic_fetch_add(_explicit): one indivisible read-modify-write.
FetchAdd(t) == /\ pc[t] = "add"
               /\ counter' = counter + 1
               /\ done' = [done EXCEPT ![t] = @ + 1]
               /\ pc' = [pc EXCEPT ![t] = LoopAt(done[t] + 1)]
               /\ UNCHANGED <<kind, mutex, reg, chunk, main>>

\* pthread_join; after the last one main prints the counter.
Join(t) == /\ main = "join"
           /\ pc[t] = "done"
           /\ pc' = [pc EXCEPT ![t] = "joined"]
           /\ main' = IF \A u \in Threads \ {t} : pc[u] = "joined"
                        THEN "joined" ELSE "join"
           /\ UNCHANGED <<kind, counter, mutex, done, reg, chunk>>

Terminating == main = "joined" /\ UNCHANGED vars

Worker(t) == \/ Lock(t)
             \/ \E c \in Chunks(t) : LoadCounter(t, c)
             \/ StoreCounter(t) \/ Unlock(t) \/ FetchAdd(t)

Next == \/ \E t \in Threads : Create(t) \/ Worker(t) \/ Join(t)
        \/ Terminating

Spec == Init /\ [][Next]_vars

\* The scheduler runs every thread that can run.
FairSpec == /\ Spec
            /\ WF_vars(\E t \in Threads : Create(t) \/ Join(t))
            /\ \A t \in Threads : WF_vars(Worker(t))
-----------------------------------------------------------------------------
\* Types; no worker makes more turns than its loop has.
TypeOK == /\ kind \in Kinds
          /\ counter \in Nat
          /\ mutex \in Threads \cup {NoThread}
          /\ pc \in [Threads -> States]
          /\ done \in [Threads -> 0..Iterations]
          /\ reg \in [Threads -> Nat]
          /\ chunk \in [Threads -> Nat \ {0}]
          /\ main \in {"create", "join", "joined"}

Expected == Cardinality(Threads) * Iterations

\* With the mutex or with fetch_add main prints exactly the expected total:
\* the tick the demos print after it is deserved.
TotalExact == main = "joined" /\ kind # "plain" => counter = Expected

\* What the race can cost (demo_race, test 1 of exercise 01): never more
\* than all but two of the increments, however many threads there are, and
\* the "Lost %ld increments" that main prints is never negative.
RacyTotal == main = "joined" =>
  /\ counter <= Expected
  /\ Iterations > 0 => counter >= 1
  /\ Iterations > 1 => counter >= 2

\* Every worker ends its loop and main returns from the joins.
Terminates == <>(main = "joined")

AC == INSTANCE AtomicCounter WITH total <- counter

\* Locked and atomic increments each take effect once and at once: every
\* step of mutex_increment, atomic_increment, seqcst_increment and
\* relaxed_increment is an Add of AtomicCounter or leaves it alone.
ImplementsAtomicCounter == /\ AC!Init
                           /\ [][kind # "plain" => [AC!Next]_(AC!vars)]_vars
=============================================================================
